-------------------------------- MODULE Pipe --------------------------------
(***************************************************************************)
(* The pipes of xv6/pipe.c, with the processes that write, read and close  *)
(* one and the kill() that can reach them while they sleep.                *)
(*                                                                         *)
(* What a process does between taking p->lock and sleeping or giving it    *)
(* up is one step; a process that is about to sleep still holds p->lock    *)
(* after its test of killed, so that kill() can come between the two.      *)
(* sleep() gives p->lock up and sleeps in one step (SleepLock).            *)
(***************************************************************************)
EXTENDS Integers, Sequences, FiniteSets

CONSTANTS
  Writers, Readers,  \* the processes that hold each end
  PIPESIZE,
  WRAP,              \* 2^32: nread and nwrite count modulo WRAP
  Counts,            \* arguments of read() and write()
  MaxBytes, MaxKills \* bounds: bytes written, kills

Holders == Writers \cup Readers

\* Each end has a holder of its own, and a counter that wraps goes on at the
\* same place of the ring.
PipeConstants ==
  /\ Writers # {} /\ Readers # {} /\ Writers \cap Readers = {} /\ "free" \notin Holders
  /\ PIPESIZE \in Nat \ {0} /\ WRAP \in Nat /\ WRAP > PIPESIZE /\ WRAP % PIPESIZE = 0
  /\ Counts \subseteq Nat

VARIABLES
  plock,              \* p->lock is held by a process about to sleep, or "free"
  data, nread, nwrite, readopen, writeopen,
  freed,              \* kfree() of the pipe
  pc,                 \* idle, write, wsleep, wasleep, read, rsleep, rasleep, closed
  left,               \* bytes that the call has still to transfer
  killed,
  sent, received      \* the bytes that have gone in and come out

vars == <<plock, data, nread, nwrite, readopen, writeopen, freed, pc, left, killed, sent, received>>

Init ==
  /\ plock = "free"
  /\ data = [i \in 0..(PIPESIZE - 1) |-> 0]
  /\ nread = 0 /\ nwrite = 0
  /\ readopen = 1 /\ writeopen = 1 /\ freed = 0
  /\ pc = [p \in Holders |-> "idle"]
  /\ left = [p \in Holders |-> 0]
  /\ killed = [p \in Holders |-> 0]
  /\ sent = << >> /\ received = << >>

\* Mutant: one byte late.
full_late(w, r) == w = (r + PIPESIZE + 1) % WRAP

full(w, r) == w = (r + PIPESIZE) % WRAP

\* How many bytes there are.
Held == (nwrite - nread) % WRAP

\* How many of n bytes are written before the pipe is found full.
Rounds(n) ==
  LET ks == {k \in 0..n : k = n \/ full((nwrite + k) % WRAP, nread)}
  IN CHOOSE k \in ks : \A j \in ks : k <= j

\* wakeup(): the processes of q asleep at `from' go on at `to'.  Mutant: the
\* first of them only.
wakeup_one(q, from, to) ==
  LET S == {p \in Holders : q[p] = from} IN
  IF S = {} THEN q ELSE [q EXCEPT ![CHOOSE p \in S : TRUE] = to]

wakeup(q, from, to) == [p \in Holders |-> IF q[p] = from THEN to ELSE q[p]]

wake_readers(q) == wakeup(q, "rasleep", "read")

\* Mutant: the writers are left asleep.
wake_writers_not(q) == q

wake_writers(q) == wakeup(q, "wasleep", "write")
-----------------------------------------------------------------------------
\* write() and read() of n bytes.
CallWrite(p, n) ==
  /\ p \in Writers /\ pc[p] = "idle" /\ killed[p] = 0
  /\ Len(sent) + n <= MaxBytes
  /\ pc' = [pc EXCEPT ![p] = "write"] /\ left' = [left EXCEPT ![p] = n]
  /\ UNCHANGED <<plock, data, nread, nwrite, readopen, writeopen, freed, killed, sent, received>>

CallRead(p, n) ==
  /\ p \in Readers /\ pc[p] = "idle" /\ killed[p] = 0
  /\ pc' = [pc EXCEPT ![p] = "read"] /\ left' = [left EXCEPT ![p] = n]
  /\ UNCHANGED <<plock, data, nread, nwrite, readopen, writeopen, freed, killed, sent, received>>

\* pipewrite() up to the next full pipe or the end.  At a full pipe it returns
\* -1, or wakes the readers and is about to sleep.
pipewrite(p) ==
  LET m == Rounds(left[p])
      w == (nwrite + m) % WRAP
      bytes == [i \in 1..m |-> Len(sent) + i]
  IN
  /\ pc[p] = "write" /\ plock = "free"
  /\ nwrite' = w
  /\ data' = [i \in DOMAIN data |->
       LET k == (i - nwrite) % PIPESIZE IN IF k < m THEN bytes[k + 1] ELSE data[i]]
  /\ sent' = sent \o bytes
  /\ \/ /\ m = left[p]
        /\ pc' = [wake_readers(pc) EXCEPT ![p] = "idle"]
        /\ UNCHANGED plock
     \/ /\ m < left[p] /\ (readopen = 0 \/ killed[p] = 1)
        /\ pc' = [pc EXCEPT ![p] = "idle"]
        /\ UNCHANGED plock
     \/ /\ m < left[p] /\ readopen = 1 /\ killed[p] = 0
        /\ pc' = [wake_readers(pc) EXCEPT ![p] = "wsleep"]
        /\ plock' = p
  /\ left' = [left EXCEPT ![p] = IF pc'[p] = "idle" THEN 0 ELSE @ - m]
  /\ UNCHANGED <<nread, readopen, writeopen, freed, killed, received>>

\* The test at the head of piperead(): with an empty pipe and a write end it
\* returns -1 or is about to sleep.
read_wait(p) ==
  /\ pc[p] = "read" /\ plock = "free"
  /\ nread = nwrite /\ writeopen = 1
  /\ \/ killed[p] = 1 /\ pc' = [pc EXCEPT ![p] = "idle"] /\ UNCHANGED plock
     \/ killed[p] = 0 /\ pc' = [pc EXCEPT ![p] = "rsleep"] /\ plock' = p
  /\ left' = [left EXCEPT ![p] = IF killed[p] = 1 THEN 0 ELSE @]
  /\ UNCHANGED <<data, nread, nwrite, readopen, writeopen, freed, killed, sent, received>>

\* The rest of piperead(): what there is, or nothing at the end of the data.
piperead(p) ==
  LET m == IF left[p] < Held THEN left[p] ELSE Held IN
  /\ pc[p] = "read" /\ plock = "free"
  /\ ~(nread = nwrite /\ writeopen = 1)
  /\ received' = received \o [i \in 1..m |-> data[(nread + i - 1) % PIPESIZE]]
  /\ nread' = (nread + m) % WRAP
  /\ pc' = [wake_writers(pc) EXCEPT ![p] = "idle"]
  /\ left' = [left EXCEPT ![p] = 0]
  /\ UNCHANGED <<plock, data, nwrite, readopen, writeopen, freed, killed, sent>>

\* sleep(): p->lock is given up.
sleep(p) ==
  /\ pc[p] \in {"wsleep", "rsleep"} /\ plock = p
  /\ pc' = [pc EXCEPT ![p] = IF @ = "wsleep" THEN "wasleep" ELSE "rasleep"]
  /\ plock' = "free"
  /\ UNCHANGED <<data, nread, nwrite, readopen, writeopen, freed, left, killed, sent, received>>

\* fileclose() of the last reference calls pipeclose().
last(S, q) == S = {q}

\* Mutant: the pipe is freed when the first end is closed.
both_closed_either(r, w) == r = 0 \/ w = 0

both_closed(r, w) == r = 0 /\ w = 0

\* close() by a process, of itself or when it exits.
pipeclose(p) ==
  LET end == IF p \in Writers THEN Writers ELSE Readers
      final == last({q \in end : pc[q] # "closed"}, p)
      q == [pc EXCEPT ![p] = "closed"]
  IN
  /\ pc[p] = "idle" /\ plock = "free"
  /\ readopen' = IF final /\ p \in Readers THEN 0 ELSE readopen
  /\ writeopen' = IF final /\ p \in Writers THEN 0 ELSE writeopen
  /\ pc' = IF ~final THEN q ELSE IF p \in Writers THEN wake_readers(q) ELSE wake_writers(q)
  /\ freed' = IF final /\ both_closed(readopen', writeopen') THEN 1 ELSE freed
  /\ UNCHANGED <<plock, data, nread, nwrite, left, killed, sent, received>>

\* kill() wakes a sleeping process.
kill(p) ==
  /\ killed[p] = 0 /\ pc[p] # "closed"
  /\ Cardinality({q \in Holders : killed[q] = 1}) < MaxKills
  /\ killed' = [killed EXCEPT ![p] = 1]
  /\ pc' = [pc EXCEPT ![p] = IF @ = "wasleep" THEN "write" ELSE IF @ = "rasleep" THEN "read" ELSE @]
  /\ UNCHANGED <<plock, data, nread, nwrite, readopen, writeopen, freed, left, sent, received>>

Step(p) ==
  \/ pipewrite(p) \/ read_wait(p) \/ piperead(p) \/ sleep(p) \/ pipeclose(p)

\* Nobody has anything left to do.
Finished ==
  /\ \A p \in Holders : pc[p] \in {"closed", "wasleep", "rasleep"}
  /\ UNCHANGED vars

Next ==
  \/ \E p \in Holders, n \in Counts : CallWrite(p, n) \/ CallRead(p, n)
  \/ \E p \in Holders : Step(p) \/ kill(p)
  \/ Finished

Spec == Init /\ [][Next]_vars

\* Each process runs on: it finishes its step of a call, and one that calls
\* nothing more, or is killed, closes its end.
Fairness == \A p \in Holders : WF_vars(Step(p))

FairSpec == Spec /\ Fairness
-----------------------------------------------------------------------------
(***************************************************************************)
(* Properties.                                                             *)
(***************************************************************************)
TypeOK ==
  /\ plock \in Holders \cup {"free"}
  /\ nread \in 0..(WRAP - 1) /\ nwrite \in 0..(WRAP - 1)
  /\ Held \in 0..PIPESIZE
  /\ left \in [Holders -> Nat] /\ killed \in [Holders -> {0, 1}]
  /\ \A p \in Holders : plock = p <=> pc[p] \in {"wsleep", "rsleep"}

\* The bytes that went in are those that came out followed by those still in
\* the pipe, in order, while nread and nwrite wrap and processes sleep in the
\* middle of a write().
Fifo ==
  received \o [i \in 1..Held |-> data[(nread + i - 1) % PIPESIZE]] = sent

\* Wakeups are not lost: a writer sleeps only while the pipe is full and can
\* still be read, a reader only while it is empty and can still be written.
\* One case is excepted, and is the code's: a killed writer returns from a full
\* pipe before it has woken the readers, who sleep on over a full pipe.
SleepersMustWait ==
  \A p \in Holders :
    /\ pc[p] = "wasleep" => Held = PIPESIZE /\ readopen = 1
    /\ pc[p] = "rasleep" =>
         /\ writeopen = 1
         /\ Held = 0 \/ (Held = PIPESIZE /\ \E q \in Writers : killed[q] = 1)

\* The memory of the pipe is given back when, and only when, every process has
\* closed it: none is then inside pipewrite() or piperead().
FreedLast == freed = 1 <=> (\A p \in Holders : pc[p] = "closed")

\* Every write() and read() returns, also that of a process that is killed
\* between its test of killed and sleep().
EveryCallReturns == \A p \in Holders : pc[p] # "idle" ~> pc[p] \in {"idle", "closed"}

\* The pipe keeps its bytes in order and its memory until the last close.
PipeConsistent == TypeOK /\ Fifo /\ FreedLast
=============================================================================
