---------------------------- MODULE PriorityLock ----------------------------
(***************************************************************************)
(* The priority lock of xv6/spinlock.c (struct prioritylock) and its one   *)
(* client, the aq system call of xv6/sysutils.c.                           *)
(*                                                                         *)
(* A caller of prior_acquire() turns interrupts off, enters its pid in a   *)
(* queue that is kept in descending order, and polls: whoever is at the    *)
(* head of the queue when the inner spin lock is free takes it.  The queue *)
(* is protected by a spin lock of its own, queue_lock, taken and dropped   *)
(* once per poll.  The aq system call holds the lock around do_temp(),     *)
(* which adds to the global sum.                                           *)
(*                                                                         *)
(* A thread is named by its pid.  It executes only while it is on a CPU;   *)
(* the timer takes the CPU away from it only while FL_IF is set, so the    *)
(* pushcli() at the top of prior_acquire() pins a waiter to its CPU until  *)
(* p_release().  The steps between two changes of shared state are merged. *)
(***************************************************************************)
EXTENDS Spinlock, Sequences, SequencesExt

CONSTANTS Pids,     \* the processes that call aq, named by their pids
          MaxCalls  \* bound: how many calls of it they make in all

ASSUME PidsAssumption == Pids \subseteq Nat
ASSUME LocksAssumption == Locks = {"lock", "queue_lock"}
ASSUME MaxCallsAssumption == MaxCalls \in Nat

VARIABLES
  pc,     \* what the thread executes next
  cont,   \* where it goes when the acquire() or release() it is in returns
  arg,    \* the lock that release() was called with
  on,     \* the CPU the thread runs on, NoCPU while it is off
  queue,  \* lk->head, the linked list of waiting pids, as a sequence
  sum,    \* the global sum, counted in completed calls of do_temp()
  tmp,    \* the value of sum that the thread's do_temp() has read
  calls   \* how many calls of aq the thread has begun

threadVars == <<pc, cont, arg, on>>

vars == <<spinVars, threadVars, queue, sum, tmp, calls>>

\* idle      outside aq                enq   acquire(&lk->queue_lock), first
\* loop      the same, in the loop     spin  the xchg of acquire()
\* rec       lk->cpu = mycpu()         add   add_queue()
\* try       the test of the loop      own   lk->lock.cpu = mycpu()
\* crit      do_temp() reads sum       upd   do_temp() writes sum
\* rel       release(arg), its check   store release(arg), its store
Labels == {"idle", "enq", "loop", "spin", "rec", "add", "try", "own", "crit",
           "upd", "rel", "store"}

Init ==
  /\ SpinInit
  /\ pc = [p \in Pids |-> "idle"]
  /\ cont = [p \in Pids |-> "idle"]
  /\ arg = [p \in Pids |-> "lock"]
  /\ on = [p \in Pids |-> NoCPU]
  /\ queue = << >>
  /\ sum = 0
  /\ tmp = [p \in Pids |-> 0]
  /\ calls = [p \in Pids |-> 0]
-----------------------------------------------------------------------------
(***************************************************************************)
(* The linked list.                                                        *)
(***************************************************************************)

\* The last node that add_queue's while loop stops at: the walk starts at the
\* head and goes on as long as the next pid is greater than the new one.
LastGreater(q, pid) ==
  CHOOSE i \in 1..Len(q) :
    /\ \A k \in 2..i : q[k] > pid
    /\ i = Len(q) \/ q[i + 1] <= pid

\* Mutant: the new node goes behind the head without the walk.
add_queue_nowalk(q, pid) ==
  IF q = << >> THEN <<pid>>
  ELSE IF Head(q) < pid THEN <<pid>> \o q
  ELSE InsertAt(q, 2, pid)

add_queue(q, pid) ==
  IF q = << >> THEN <<pid>>
  ELSE IF Head(q) < pid THEN <<pid>> \o q
  ELSE InsertAt(q, LastGreater(q, pid) + 1, pid)

\* Mutant: the node is left in the list.
rm_queue_keep(q, pid) == q

\* rm_queue() unlinks the first node with this pid and panics without one.
rm_queue(q, pid) == RemoveFirst(q, pid)

rm_queue_check(q, pid) ==
  IF q = << >> THEN panic("queue null")
  ELSE IF pid \notin Range(q) THEN panic("not found in queue")
  ELSE UNCHANGED panicked
-----------------------------------------------------------------------------
(***************************************************************************)
(* The steps of a thread.                                                  *)
(***************************************************************************)
Running(p) == on[p] # NoCPU /\ panicked = "none"

Goto(p, label) == pc' = [pc EXCEPT ![p] = label]

\* The pushcli() of prior_acquire().  Mutant: there is none.
no_pushcli(c) == UNCHANGED <<ncli, intena, fl_if>>

prior_pushcli(c) == pushcli(c)

\* The calls of sys_aq made so far.
Calls == SumFunctionOnSet(calls, Pids)

\* sys_aq calls prior_acquire: pushcli() and the re-acquisition check.
PriorAcquire(p) ==
  /\ Running(p) /\ pc[p] = "idle" /\ Calls < MaxCalls
  /\ prior_pushcli(on[p])
  /\ IF holding("lock", on[p]) THEN panic("acquire") ELSE UNCHANGED panicked
  /\ Goto(p, "enq")
  /\ calls' = [calls EXCEPT ![p] = @ + 1]
  /\ UNCHANGED <<locked, lkcpu, cont, arg, on, queue, sum, tmp>>

\* acquire(&lk->queue_lock), before the queue is entered and in the loop.
AcquireEnter(p) ==
  /\ Running(p) /\ pc[p] \in {"enq", "loop"}
  /\ acquire_enter("queue_lock", on[p])
  /\ Goto(p, "spin")
  /\ cont' = [cont EXCEPT ![p] = IF pc[p] = "enq" THEN "add" ELSE "try"]
  /\ UNCHANGED <<arg, on, queue, sum, tmp, calls>>

AcquireXchg(p) ==
  /\ Running(p) /\ pc[p] = "spin"
  /\ acquire_xchg("queue_lock")
  /\ Goto(p, "rec")
  /\ UNCHANGED <<cont, arg, on, queue, sum, tmp, calls>>

AcquireRecord(p) ==
  /\ Running(p) /\ pc[p] = "rec"
  /\ acquire_record("queue_lock", on[p])
  /\ Goto(p, cont[p])
  /\ UNCHANGED <<cont, arg, on, queue, sum, tmp, calls>>

\* The call release(lk), with the label at which it returns.
CallRelease(p, lk, label) ==
  /\ Goto(p, "rel")
  /\ arg' = [arg EXCEPT ![p] = lk]
  /\ cont' = [cont EXCEPT ![p] = label]

AddQueue(p) ==
  /\ Running(p) /\ pc[p] = "add"
  /\ queue' = add_queue(queue, p)
  /\ CallRelease(p, "queue_lock", "loop")
  /\ UNCHANGED <<spinVars, on, sum, tmp, calls>>

\* The test of the polling loop: at the head of the queue, and the xchg finds
\* the lock free.  Mutants: one of the two is not looked at.
AtHead(p) == Head(queue) = p

LockFree(p) == locked["lock"] = 0

MayTake(p) == Head(queue) = p /\ locked["lock"] = 0

\* One turn of the polling loop, with queue_lock held.
TryLock(p) ==
  /\ Running(p) /\ pc[p] = "try"
  /\ IF MayTake(p)
       THEN /\ locked' = [locked EXCEPT !["lock"] = 1]
            /\ queue' = rm_queue(queue, p)
            /\ rm_queue_check(queue, p)
            /\ CallRelease(p, "queue_lock", "own")
       ELSE /\ CallRelease(p, "queue_lock", "loop")
            /\ UNCHANGED <<locked, queue, panicked>>
  /\ UNCHANGED <<lkcpu, ncli, intena, fl_if, on, sum, tmp, calls>>

ReleaseClear(p) ==
  /\ Running(p) /\ pc[p] = "rel"
  /\ release_clear(arg[p], on[p])
  /\ Goto(p, "store")
  /\ UNCHANGED <<cont, arg, on, queue, sum, tmp, calls>>

ReleaseStore(p) ==
  /\ Running(p) /\ pc[p] = "store"
  /\ release_store(arg[p], on[p])
  /\ Goto(p, cont[p])
  /\ UNCHANGED <<cont, arg, on, queue, sum, tmp, calls>>

\* The last lines of prior_acquire(): the owner of the inner lock is recorded.
RecordOwner(p) ==
  /\ Running(p) /\ pc[p] = "own"
  /\ acquire_record("lock", on[p])
  /\ Goto(p, "crit")
  /\ UNCHANGED <<cont, arg, on, queue, sum, tmp, calls>>

\* do_temp(): sum += i is a load and a store.
DoTempRead(p) ==
  /\ Running(p) /\ pc[p] = "crit"
  /\ tmp' = [tmp EXCEPT ![p] = sum]
  /\ Goto(p, "upd")
  /\ UNCHANGED <<spinVars, cont, arg, on, queue, sum, calls>>

\* The store, after which sys_aq calls p_release().
DoTempWrite(p) ==
  /\ Running(p) /\ pc[p] = "upd"
  /\ sum' = tmp[p] + 1
  /\ CallRelease(p, "lock", "idle")
  /\ UNCHANGED <<spinVars, on, queue, tmp, calls>>

\* The timer interrupt: trap() yields the CPU.  Only with FL_IF set.
Preempt(p) ==
  /\ Running(p) /\ fl_if[on[p]] = 1
  /\ on' = [on EXCEPT ![p] = NoCPU]
  /\ UNCHANGED <<spinVars, pc, cont, arg, queue, sum, tmp, calls>>

\* scheduler() gives an idle CPU to the thread.
Dispatch(p, c) ==
  /\ panicked = "none"
  /\ on[p] = NoCPU
  /\ \A q \in Pids : on[q] # c
  /\ on' = [on EXCEPT ![p] = c]
  /\ UNCHANGED <<spinVars, pc, cont, arg, queue, sum, tmp, calls>>

\* The steps of the code of prior_acquire, sys_aq and p_release.
ThreadStep(p) ==
  \/ PriorAcquire(p)
  \/ AcquireEnter(p)
  \/ AcquireXchg(p)
  \/ AcquireRecord(p)
  \/ AddQueue(p)
  \/ TryLock(p)
  \/ ReleaseClear(p)
  \/ ReleaseStore(p)
  \/ RecordOwner(p)
  \/ DoTempRead(p)
  \/ DoTempWrite(p)

\* Every call made has returned and there is not another one to make.
Done == Calls = MaxCalls /\ \A p \in Pids : pc[p] = "idle"

Finished == Done /\ UNCHANGED vars

Next ==
  \/ \E p \in Pids : ThreadStep(p) \/ Preempt(p)
  \/ \E p \in Pids, c \in CPUs : Dispatch(p, c)
  \/ Finished

Spec == Init /\ [][Next]_vars

\* A thread inside aq keeps executing, since nothing can take its CPU away
\* (weak fairness of its steps), and the bus does not let it lose every race
\* for queue_lock, which is freed again and again (strong fairness of the
\* winning xchg).  Nothing makes a thread call aq or the scheduler run it.
Fairness ==
  \A p \in Pids :
    /\ WF_vars(pc[p] # "idle" /\ ThreadStep(p))
    /\ SF_vars(AcquireXchg(p))

FairSpec == Spec /\ Fairness
-----------------------------------------------------------------------------
(***************************************************************************)
(* Properties.                                                             *)
(***************************************************************************)
TypeOK ==
  /\ SpinTypeOK
  /\ pc \in [Pids -> Labels]
  /\ cont \in [Pids -> {"idle", "add", "try", "loop", "own"}]
  /\ arg \in [Pids -> Locks]
  /\ on \in [Pids -> CPUs \cup {NoCPU}]
  /\ queue \in Seq(Pids)
  /\ sum \in Nat
  /\ tmp \in [Pids -> Nat]
  /\ calls \in [Pids -> Nat]
  /\ \A c \in CPUs : ncli[c] >= 0

Releasing(p, lk) == pc[p] \in {"rel", "store"} /\ arg[p] = lk

\* p is between the xchg that took the inner lock and the store that frees it.
Owns(p) ==
  \/ pc[p] \in {"own", "crit", "upd"}
  \/ Releasing(p, "lock")
  \/ Releasing(p, "queue_lock") /\ cont[p] = "own"

\* p is between the xchg that took queue_lock and the store that frees it.
OwnsQueue(p) == pc[p] \in {"rec", "add", "try"} \/ Releasing(p, "queue_lock")

\* p has called add_queue() and has not taken the lock.
Waiting(p) ==
  \/ pc[p] \in {"loop", "try"}
  \/ pc[p] \in {"spin", "rec"} /\ cont[p] = "try"
  \/ Releasing(p, "queue_lock") /\ cont[p] = "loop"

\* Between the xchg of prior_acquire() and the store of p_release() a thread
\* is alone: two threads never both own the inner lock, nor both queue_lock.
MutualExclusion ==
  \A p, q \in Pids : p # q => /\ ~(Owns(p) /\ Owns(q))
                             /\ ~(OwnsQueue(p) /\ OwnsQueue(q))

\* The linked list that add_queue() and rm_queue() maintain holds exactly the
\* waiting threads, once each, the highest pid first, whatever the order in
\* which they came and left.
QueueExact ==
  /\ Range(queue) = {p \in Pids : Waiting(p)}
  /\ \A i, j \in DOMAIN queue : i < j => queue[i] > queue[j]

\* None of the panics is reached: no thread re-acquires or releases a lock
\* that is not in the state it expects, pushcli and popcli are matched, and
\* rm_queue() finds the node it is asked to unlink.
NoPanic == panicked = "none"

\* From pushcli() in prior_acquire() to popcli() in p_release() the CPU's
\* nesting depth counts exactly the locks the thread is in, and its
\* interrupts stay off, although queue_lock is released on every poll.
Depth(p) ==
  CASE pc[p] = "idle" -> 0
    [] pc[p] \in {"spin", "rec", "add", "try"} -> 2
    [] pc[p] \in {"rel", "store"} -> IF arg[p] = "lock" THEN 1 ELSE 2
    [] OTHER -> 1

\* A thread inside prior_acquire() or p_release() keeps its CPU, at the depth
\* and with the interrupt flag that Depth says.
PinnedWhileInside ==
  \A p \in Pids :
    /\ pc[p] # "idle" => on[p] # NoCPU
    /\ on[p] # NoCPU => /\ ncli[on[p]] = Depth(p)
                        /\ fl_if[on[p]] = 0 <=> Depth(p) > 0

\* do_temp() loses no update: a thread about to store has read the current
\* value, and outside the critical section sum counts the finished calls.
SumExact ==
  /\ \A p \in Pids : pc[p] = "upd" => tmp[p] = sum
  /\ (\A p \in Pids : pc[p] = "idle") =>
       sum = Calls

\* The critical section of sys_aq is exclusive, and so no update of sum is lost.
UpdatesKept == MutualExclusion /\ SumExact

\* When a thread takes the lock, no thread with a higher pid has been entered
\* in the queue and is still waiting: the loop of prior_acquire() serves the
\* queue by priority and not by the order of arrival.
HighestPidFirst ==
  [][\A p \in Pids : ~Owns(p) /\ Owns(p)' =>
       \A q \in Pids : Waiting(q) => q <= p]_vars

\* Every call of prior_acquire() is served and returns from aq, as long as the
\* threads make finitely many calls (a stream of higher pids may starve it).
EveryCallReturns ==
  \A p \in Pids : pc[p] = "enq" ~> pc[p] = "idle"
=============================================================================
