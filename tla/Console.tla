------------------------------ MODULE Console -------------------------------
(***************************************************************************)
(* The console's input of xv6/console.c: consoleintr(), called by the      *)
(* interrupts of the keyboard and the serial port, puts characters into a  *)
(* ring that consoleread() takes them from.  Both run under cons.lock.     *)
(* The ring implements LineEditor.                                         *)
(***************************************************************************)
EXTENDS Integers, Sequences, FiniteSets

CONSTANTS
  Readers,         \* processes that read the console
  INPUT_BUF, WRAP, \* r, w and e count modulo WRAP, 2^32 in the code
  Counts,          \* arguments of read()
  MaxKeys,         \* bound: keys typed
  MaxKills

\* What the code's constants satisfy: the counters wrap at a multiple of the
\* ring's size, and a call asks for some characters (one that asks for none
\* returns at once).
ConsoleConstants ==
  /\ INPUT_BUF \in Nat \ {0} /\ WRAP \in Nat
  /\ WRAP > INPUT_BUF /\ WRAP % INPUT_BUF = 0
  /\ Counts \subseteq Nat \ {0}
  /\ Readers \cap {"free", "intr"} = {}

\* The keys: a letter, a new line, the carriage return that becomes one, ^D,
\* ^H, ^U, ^P and the 0 that kbdgetc() returns for the release of a key.
Keys == {"a", "nl", "cr", "D", "H", "U", "P", "0"}

VARIABLES
  clock,       \* cons.lock: "free", "intr" or the reader that holds it
  buf, r, w, e,
  pc,          \* idle, reading, sleep, asleep
  n, target,   \* consoleread()'s variables
  got,         \* the characters of the call so far
  killed, keys

vars == <<clock, buf, r, w, e, pc, n, target, got, killed, keys>>

Init ==
  /\ clock = "free"
  /\ buf = [i \in 0..(INPUT_BUF - 1) |-> "0"]
  /\ \E k \in {0, WRAP - 1} : r = k /\ w = k /\ e = k
  /\ pc = [p \in Readers |-> "idle"]
  /\ n = [p \in Readers |-> 0] /\ target = [p \in Readers |-> 0]
  /\ got = [p \in Readers |-> << >>]
  /\ killed = [p \in Readers |-> 0]
  /\ keys = 0

Between(i, j) == (j - i) % WRAP
At(i) == buf[i % INPUT_BUF]
-----------------------------------------------------------------------------
(***************************************************************************)
(* consoleintr().                                                          *)
(***************************************************************************)
intr ==
  /\ clock = "free"
  /\ clock' = "intr"
  /\ UNCHANGED <<buf, r, w, e, pc, n, target, got, killed, keys>>

\* getc() returns -1.
intr_done ==
  /\ clock = "intr"
  /\ clock' = "free"
  /\ UNCHANGED <<buf, r, w, e, pc, n, target, got, killed, keys>>

\* Where ^U stops: at w or after the last new line before e.
\* Mutant: after a new line, or at r.
kill_line_read == r

kill_line ==
  LET ks == {k \in 0..Between(w, e) :
               k = Between(w, e) \/ At((e - k - 1) % WRAP) = "nl"}
  IN (e - (CHOOSE k \in ks : \A j \in ks : k <= j)) % WRAP

\* What has been handed over is not erased.
erasable == e # w

\* Mutant: a full ring does not end the line.
line_ends_char(c, e1) == c \in {"nl", "D"}

line_ends(c, e1) == c \in {"nl", "D"} \/ e1 = (r + INPUT_BUF) % WRAP

\* wakeup(&input.r).  Mutant: not called.
wakeup_not(q) == q

wakeup(q) == [p \in Readers |-> IF q[p] = "asleep" THEN "reading" ELSE q[p]]

intr_key(k) ==
  LET c == IF k = "cr" THEN "nl" ELSE k  e1 == (e + 1) % WRAP IN
  /\ clock = "intr" /\ keys < MaxKeys
  /\ keys' = keys + 1
  /\ \/ k = "P" /\ UNCHANGED <<buf, w, e, pc>>
     \/ k = "U" /\ e' = kill_line /\ UNCHANGED <<buf, w, pc>>
     \/ k = "H" /\ e' = (IF erasable THEN (e - 1) % WRAP ELSE e) /\ UNCHANGED <<buf, w, pc>>
     \/ /\ k \notin {"P", "U", "H"}
        /\ IF k = "0" \/ Between(r, e) >= INPUT_BUF
             THEN UNCHANGED <<buf, w, e, pc>>
             ELSE /\ buf' = [buf EXCEPT ![e % INPUT_BUF] = c]
                  /\ e' = e1
                  /\ w' = IF line_ends(c, e1) THEN e1 ELSE w
                  /\ pc' = IF line_ends(c, e1) THEN wakeup(pc) ELSE pc
  /\ UNCHANGED <<clock, r, n, target, got, killed>>
-----------------------------------------------------------------------------
(***************************************************************************)
(* consoleread().                                                          *)
(***************************************************************************)
Call(p, k) ==
  /\ pc[p] = "idle" /\ killed[p] = 0
  /\ pc' = [pc EXCEPT ![p] = "reading"]
  /\ n' = [n EXCEPT ![p] = k] /\ target' = [target EXCEPT ![p] = k]
  /\ UNCHANGED <<clock, buf, r, w, e, got, killed, keys>>

\* The lock is taken at the start of the call or when sleep() returns.
Lock(p) ==
  /\ pc[p] = "reading" /\ clock = "free"
  /\ clock' = p
  /\ UNCHANGED <<buf, r, w, e, pc, n, target, got, killed, keys>>

\* Mutant: the ^D is not kept.
keep_eof_not(p) == FALSE

\* ^D after other characters is kept for the next call.
keep_eof(p) == n[p] < target[p]

\* One round of the outer loop.  On return the lock is given up.
consoleread(p) ==
  LET c == At(r)
      returns == c = "D" \/ c = "nl" \/ n[p] = 1
  IN
  /\ clock = p /\ pc[p] = "reading" /\ r # w
  /\ r' = IF c = "D" /\ keep_eof(p) THEN r ELSE (r + 1) % WRAP
  /\ got' = [got EXCEPT ![p] = IF returns THEN << >> ELSE Append(@, c)]
  /\ n' = [n EXCEPT ![p] = IF returns THEN 0 ELSE @ - 1]
  /\ target' = [target EXCEPT ![p] = IF returns THEN 0 ELSE @]
  /\ pc' = [pc EXCEPT ![p] = IF returns THEN "idle" ELSE @]
  /\ clock' = IF returns THEN "free" ELSE clock
  /\ UNCHANGED <<buf, w, e, killed, keys>>

\* The inner loop with nothing to read: killed, or about to sleep.
read_wait(p) ==
  /\ clock = p /\ pc[p] = "reading" /\ r = w
  /\ IF killed[p] = 1
       THEN /\ pc' = [pc EXCEPT ![p] = "idle"] /\ clock' = "free"
            /\ n' = [n EXCEPT ![p] = 0] /\ target' = [target EXCEPT ![p] = 0]
            /\ got' = [got EXCEPT ![p] = << >>]
       ELSE pc' = [pc EXCEPT ![p] = "sleep"] /\ UNCHANGED <<clock, n, target, got>>
  /\ UNCHANGED <<buf, r, w, e, killed, keys>>

sleep(p) ==
  /\ clock = p /\ pc[p] = "sleep"
  /\ pc' = [pc EXCEPT ![p] = "asleep"] /\ clock' = "free"
  /\ UNCHANGED <<buf, r, w, e, n, target, got, killed, keys>>

kill(p) ==
  /\ killed[p] = 0 /\ Cardinality({q \in Readers : killed[q] = 1}) < MaxKills
  /\ killed' = [killed EXCEPT ![p] = 1]
  /\ pc' = [pc EXCEPT ![p] = IF @ = "asleep" THEN "reading" ELSE @]
  /\ UNCHANGED <<clock, buf, r, w, e, n, target, got, keys>>

Step(p) == Lock(p) \/ consoleread(p) \/ read_wait(p) \/ sleep(p)

Next ==
  \/ intr \/ intr_done \/ \E k \in Keys : intr_key(k)
  \/ \E p \in Readers, k \in Counts : Call(p, k)
  \/ \E p \in Readers : Step(p) \/ kill(p)

Spec == Init /\ [][Next]_vars
-----------------------------------------------------------------------------
(***************************************************************************)
(* Properties.                                                             *)
(***************************************************************************)
TypeOK ==
  /\ clock \in Readers \cup {"free", "intr"}
  /\ buf \in [0..(INPUT_BUF - 1) -> Keys]
  /\ r \in 0..(WRAP - 1) /\ w \in 0..(WRAP - 1) /\ e \in 0..(WRAP - 1)
  /\ Between(r, w) <= Between(r, e) /\ Between(r, e) <= INPUT_BUF
  /\ n \in [Readers -> Nat] /\ killed \in [Readers -> {0, 1}]

Editor ==
  INSTANCE LineEditor WITH
    Size <- INPUT_BUF, Chars <- {"a", "nl", "D"}, Ends <- {"nl", "D"},
    ready <- [i \in 1..Between(r, w) |-> At(r + i - 1)],
    edit <- [i \in 1..Between(w, e) |-> At(w + i - 1)]

\* The ring with its three counters, which wrap, is a line editor: ^H and ^U
\* reach only the line being typed, ^U all of it, and what has been handed over
\* is read in order and once.
ImplementsLineEditor == Editor!Spec

\* No lost wakeup: a process sleeps only while no line is ready.
SleepersMustWait == \A p \in Readers : pc[p] = "asleep" => r = w \/ clock # "free"

\* A full ring has been handed over, so that typing never stops for good.
FullIsReady == Between(r, e) = INPUT_BUF => w = e

\* A call returns at most one line, and an end of file (^D) is never lost: a
\* call that meets it after other characters leaves it to be met again, so
\* that every ^D handed over makes one call return nothing.
EofKept ==
  [][\A p \in Readers :
       pc[p] = "reading" /\ pc'[p] = "idle" /\ r' # r /\ At(r) = "D" => got[p] = << >>]_vars
=============================================================================
