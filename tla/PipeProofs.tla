----------------------------- MODULE PipeProofs -----------------------------
(***************************************************************************)
(* The pipe for any number of writers and readers, any PIPESIZE and any    *)
(* WRAP that is a multiple of it: the bytes come out in order, sleepers    *)
(* wait for something that is still to come, and the memory is given back  *)
(* at the last close.                                                      *)
(***************************************************************************)
EXTENDS Pipe, TLAPS

Upto(n) == [i \in 1..n |-> i]

PCs == {"idle", "write", "wsleep", "wasleep", "read", "rsleep", "rasleep", "closed"}
Writing == {"write", "wsleep", "wasleep"}
Reading == {"read", "rsleep", "rasleep"}
-----------------------------------------------------------------------------
(***************************************************************************)
(* The inductive invariant.  in and out count the bytes without wrapping.  *)
(***************************************************************************)
in == Len(sent)
out == Len(received)

\* The counters are the true counts modulo WRAP, and the ring holds the bytes
\* between them at their places modulo PIPESIZE.
Ring ==
  /\ sent = Upto(in) /\ in \in Nat
  /\ received = Upto(out) /\ out \in Nat
  /\ out <= in /\ in <= out + PIPESIZE
  /\ nwrite = in % WRAP /\ nread = out % WRAP
  /\ data \in [0..(PIPESIZE - 1) -> Nat]
  /\ \A j \in Nat : out <= j /\ j < in => data[j % PIPESIZE] = j + 1

Control ==
  /\ plock \in Holders \cup {"free"}
  /\ pc \in [Holders -> PCs]
  /\ left \in [Holders -> Nat]
  /\ killed \in [Holders -> {0, 1}]
  /\ \A p \in Holders : (plock = p) <=> (pc[p] \in {"wsleep", "rsleep"})
  /\ \A p \in Holders : pc[p] \in Writing => p \in Writers
  /\ \A p \in Holders : pc[p] \in Reading => p \in Readers

\* An end is open as long as a process has it, and the pipe as long as an end.
Ends ==
  /\ readopen \in {0, 1} /\ writeopen \in {0, 1} /\ freed \in {0, 1}
  /\ (readopen = 0) <=> (\A p \in Readers : pc[p] = "closed")
  /\ (writeopen = 0) <=> (\A p \in Writers : pc[p] = "closed")
  /\ (freed = 1) <=> (readopen = 0 /\ writeopen = 0)

\* A process that sleeps, or has p->lock and is about to, waits for a change.
Sleepers ==
  \A p \in Holders :
    /\ pc[p] \in {"wsleep", "wasleep"} => in = out + PIPESIZE /\ readopen = 1
    /\ pc[p] = "rsleep" => in = out /\ writeopen = 1
    /\ pc[p] = "rasleep" => writeopen = 1 /\ (in = out \/ \E q \in Writers : killed[q] = 1)

IInv == PipeConstants /\ Ring /\ Control /\ Ends /\ Sleepers
-----------------------------------------------------------------------------
(***************************************************************************)
(* Remainders.                                                             *)
(***************************************************************************)

\* The remainder is the only number in range that differs by a multiple.
LEMMA ModUnique ==
  ASSUME NEW n \in Nat \ {0}, NEW q \in Int, NEW r \in 0..(n - 1)
  PROVE  (n * q + r) % n = r
BY SMT

\* Quotient and remainder give the number back.
LEMMA ModRange ==
  ASSUME NEW a \in Int, NEW n \in Nat \ {0}
  PROVE  a % n \in 0..(n - 1) /\ a \div n \in Int /\ a = n * (a \div n) + (a % n)
BY SMT

\* A multiple more does not change the remainder.
LEMMA ModShift ==
  ASSUME NEW a \in Int, NEW n \in Nat \ {0}, NEW q \in Int
  PROVE  (a + n * q) % n = a % n
<1> DEFINE d == a \div n
           r == a % n
<1>1. r \in 0..(n - 1) /\ d \in Int /\ a = n * d + r
  BY ModRange
<1> HIDE DEF d, r
<1>2. n * d + n * q = n * (d + q)
  BY <1>1, SMT
<1>3. a + n * q = n * (d + q) + r
  BY <1>1, <1>2, SMT
<1>4. (n * (d + q) + r) % n = r
  BY <1>1, ModUnique
<1> QED
  BY <1>3, <1>4 DEF r

\* Adding n once changes no remainder by n.
LEMMA ModOnce ==
  ASSUME NEW a \in Int, NEW n \in Nat \ {0}
  PROVE  (a + n) % n = a % n
<1> DEFINE q == 1
<1>1. q \in Int /\ n * q = n
  BY SMT
<1> HIDE DEF q
<1>2. (a + n * q) % n = a % n
  BY ZenonT(60), <1>1, ModShift
<1> QED
  BY <1>1, <1>2

\* A number in range is its own remainder.
LEMMA ModSmall ==
  ASSUME NEW n \in Nat \ {0}, NEW r \in 0..(n - 1)
  PROVE  r % n = r
BY SMT

\* An operand may be reduced first.
LEMMA ModAdd ==
  ASSUME NEW a \in Int, NEW b \in Int, NEW n \in Nat \ {0}
  PROVE  (a + (b % n)) % n = (a + b) % n
<1> DEFINE d == b \div n
           r == b % n
           x == a + r
<1>1. r \in Int /\ d \in Int /\ b = n * d + r
  BY ModRange
<1> HIDE DEF d, r
<1>2. x \in Int /\ a + b = x + n * d
  BY <1>1, SMT
<1> HIDE DEF x
<1>3. (x + n * d) % n = x % n
  BY ZenonT(60), <1>1, <1>2, ModShift
<1> QED
  BY <1>2, <1>3 DEF r, x

\* Subtracting a remainder, or the number it is the remainder of, is the same by n.
LEMMA ModSub ==
  ASSUME NEW a \in Int, NEW b \in Int, NEW n \in Nat \ {0}
  PROVE  (a - (b % n)) % n = (a - b) % n
<1> DEFINE d == b \div n
           r == b % n
           x == a - b
<1>1. r \in Int /\ d \in Int /\ b = n * d + r
  BY ModRange
<1> HIDE DEF d, r
<1>2. x \in Int /\ a - r = x + n * d
  BY <1>1, SMT
<1> HIDE DEF x
<1>3. (x + n * d) % n = x % n
  BY ZenonT(60), <1>1, <1>2, ModShift
<1> QED
  BY <1>2, <1>3 DEF r, x

\* It may be reduced by WRAP, a multiple of PIPESIZE: a counter that wraps at
\* 2^32 finds the same place of a ring of 512.
LEMMA Place ==
  ASSUME PipeConstants, NEW a \in Int, NEW b \in Int
  PROVE  /\ (a + (b % WRAP)) % PIPESIZE = (a + b) % PIPESIZE
         /\ (a - (b % WRAP)) % PIPESIZE = (a - b) % PIPESIZE
<1> DEFINE d == b \div WRAP
           r == b % WRAP
           c == WRAP \div PIPESIZE
           e == c * d
           x == a + r
           y == a - b
<1>1. PIPESIZE \in Nat \ {0} /\ WRAP \in Nat \ {0} /\ WRAP % PIPESIZE = 0
  BY SMT DEF PipeConstants
<1>2. r \in Int /\ d \in Int /\ b = WRAP * d + r
  BY <1>1, ModRange
<1>3. c \in Int /\ WRAP = PIPESIZE * c
  BY <1>1, ModRange, SMT
<1> HIDE DEF d, r, c
<1>4. e \in Int /\ WRAP * d = PIPESIZE * e
  BY <1>1, <1>2, <1>3, SMT
<1> HIDE DEF e
<1>5. x \in Int /\ y \in Int /\ a + b = x + PIPESIZE * e /\ a - r = y + PIPESIZE * e
  BY <1>1, <1>2, <1>4, SMT
<1> HIDE DEF x, y
<1>6. (x + PIPESIZE * e) % PIPESIZE = x % PIPESIZE /\ (y + PIPESIZE * e) % PIPESIZE = y % PIPESIZE
  BY ZenonT(60), <1>1, <1>4, <1>5, ModShift
<1> QED
  BY <1>5, <1>6 DEF r, x, y

\* The difference of two counters that wrap is that of the true counts.
LEMMA Difference ==
  ASSUME NEW w \in Nat \ {0}, NEW a \in Nat, NEW b \in Nat, b <= a, a - b < w
  PROVE  ((a % w) - (b % w)) % w = a - b
<1> DEFINE r == a % w
           s == b % w
<1>2. r \in Int /\ s \in Int /\ a \in Int /\ b \in Int /\ -b \in Int
  BY ModRange, SMT
<1>3. (r - s) % w = (r - b) % w
  BY ZenonT(60), <1>2, ModSub
<1>4. (-b + r) % w = (-b + a) % w
  BY ZenonT(60), <1>2, ModAdd
<1> HIDE DEF r, s
<1>5. (r - s) % w = (a - b) % w
  <2>1. -b + r = r - b /\ -b + a = a - b
    BY <1>2, SMT
  <2> QED
    BY <2>1, <1>3, <1>4
<1>6. (a - b) % w = a - b
  BY ModSmall, SMT
<1> QED
  BY <1>5, <1>6 DEF r, s

\* full() says that the true counts differ by PIPESIZE.
LEMMA FullIs ==
  ASSUME PipeConstants, NEW a \in Nat, NEW b \in Nat, NEW k \in Nat,
         b <= a, a + k <= b + PIPESIZE
  PROVE  full(((a % WRAP) + k) % WRAP, b % WRAP) <=> a + k = b + PIPESIZE
<1> DEFINE x == a + k
           y == b + PIPESIZE
<1>1. /\ WRAP \in Nat \ {0} /\ PIPESIZE \in Nat /\ x \in Nat /\ y \in Nat
      /\ x <= y /\ y - x < WRAP
  BY SMT DEF PipeConstants
<1>3. /\ (k + (a % WRAP)) % WRAP = (k + a) % WRAP
      /\ (PIPESIZE + (b % WRAP)) % WRAP = (PIPESIZE + b) % WRAP
  <2>1. k \in Int /\ a \in Int /\ b \in Int /\ PIPESIZE \in Int
    BY <1>1, SMT
  <2> QED
    BY ZenonT(60), <1>1, <2>1, ModAdd
<1>4. a % WRAP \in Int /\ b % WRAP \in Int
  BY <1>1, ModRange, SMT
<1>5. ((a % WRAP) + k) % WRAP = x % WRAP /\ ((b % WRAP) + PIPESIZE) % WRAP = y % WRAP
  BY <1>1, <1>3, <1>4, SMT
<1> HIDE DEF x, y
<1>6. ((y % WRAP) - (x % WRAP)) % WRAP = y - x
  BY ZenonT(60), <1>1, Difference
<1>7. x % WRAP = y % WRAP => y - x = 0
  <2>1. 0 % WRAP = 0 /\ y % WRAP \in Int
    BY <1>1, ModSmall, ModRange, SMT
  <2>2. (y % WRAP) - (y % WRAP) = 0
    BY <2>1, SMT
  <2> QED
    BY <1>6, <2>1, <2>2
<1>8. x % WRAP = y % WRAP <=> x = y
  BY <1>1, <1>7, SMT
<1> QED
  BY <1>5, <1>8 DEF full, x, y

\* The loop of pipewrite() runs until the bytes or the room are used up.
Room(n) == IF n <= out + PIPESIZE - in THEN n ELSE out + PIPESIZE - in

\* The loop's test with the counters that wrap stops it where Room says.
LEMMA RoundsIs ==
  ASSUME PipeConstants, Ring, NEW n \in Nat
  PROVE  Rounds(n) = Room(n) /\ Room(n) \in Nat /\ Room(n) <= n
<1> DEFINE ks == {k \in 0..n : k = n \/ full((nwrite + k) % WRAP, nread)}
           m == Room(n)
<1>1. PIPESIZE \in Nat /\ in \in Nat /\ out \in Nat /\ m \in 0..n /\ in + m <= out + PIPESIZE
  BY SMT DEF PipeConstants, Ring, Room
<1>2. \A k \in 0..m : full((nwrite + k) % WRAP, nread) <=> in + k = out + PIPESIZE
  BY <1>1, FullIs, SMT, SMTT(40) DEF Ring
<1>3. m \in ks
  <2>1. m = n \/ in + m = out + PIPESIZE
    BY <1>1, SMT DEF Room
  <2> QED
    BY <1>1, <1>2, <2>1, SMT
<1>4. ASSUME NEW j \in ks PROVE m <= j
  <2>1. CASE j >= m
    BY <1>1, <2>1, SMT
  <2>2. CASE j < m
    <3>1. j \in 0..m /\ j # n /\ in + j # out + PIPESIZE
      BY <1>1, <2>2, SMT
    <3> QED
      BY <1>2, <3>1
  <2> QED
    BY <1>1, <2>1, <2>2, SMT
<1>5. ASSUME NEW k \in ks, \A j \in ks : k <= j PROVE k = m
  BY <1>1, <1>3, <1>4, <1>5, SMT
<1> HIDE DEF ks
<1>6. (CHOOSE k \in ks : \A j \in ks : k <= j) = m
  BY <1>3, <1>4, <1>5
<1> QED
  BY <1>1, <1>6, SMT DEF Rounds, ks
-----------------------------------------------------------------------------
(***************************************************************************)
(* The sequences of bytes.                                                 *)
(***************************************************************************)
LEMMA UptoLen ==
  ASSUME NEW n \in Nat
  PROVE  Len(Upto(n)) = n
BY SMT DEF Upto

\* Appending the next m numbers.
LEMMA UptoConcat ==
  ASSUME NEW n \in Nat, NEW m \in Nat
  PROVE  Upto(n) \o [i \in 1..m |-> n + i] = Upto(n + m)
BY SMT DEF Upto
-----------------------------------------------------------------------------
(***************************************************************************)
(* Each step keeps the invariant.                                          *)
(***************************************************************************)
LEMMA InitInv == PipeConstants /\ Init => IInv
<1> SUFFICES ASSUME PipeConstants, Init PROVE IInv
  OBVIOUS
<1>1. in = 0 /\ out = 0 /\ Upto(0) = << >>
  BY SMT DEF Init, in, out, Upto
<1>2. Ring
  <2>1. 0 % WRAP = 0 /\ PIPESIZE \in Nat
    BY ModSmall, SMT DEF PipeConstants
  <2> QED
    BY <1>1, <2>1, SMT DEF Init, Ring
<1>3. Control /\ Ends /\ Sleepers
  BY SMT DEF Init, PipeConstants, Control, Ends, Sleepers, Holders, PCs, Writing, Reading
<1> QED
  BY <1>2, <1>3 DEF IInv

\* A step that leaves the ring and what was sent alone keeps Ring.
LEMMA RingSame ==
  ASSUME Ring, UNCHANGED <<data, nread, nwrite, sent, received>>
  PROVE  Ring'
BY DEF Ring, in, out, Upto

\* A process calls pipewrite().
LEMMA CallWriteInv ==
  ASSUME IInv, NEW p \in Holders, NEW n \in Counts, CallWrite(p, n)
  PROVE  IInv'
<1> USE DEF IInv, CallWrite
<1>1. Ring'
  BY RingSame
<1>2. Control'
  BY SMT DEF Control, PipeConstants, Holders, PCs, Writing, Reading
<1>3. Ends'
  BY SMT DEF Control, Ends, PipeConstants, Holders
<1>4. Sleepers'
  BY SMT DEF Control, Sleepers, Holders, in, out
<1> QED
  BY <1>1, <1>2, <1>3, <1>4 DEF PipeConstants, Holders

\* A process calls piperead().
LEMMA CallReadInv ==
  ASSUME IInv, NEW p \in Holders, NEW n \in Counts, CallRead(p, n)
  PROVE  IInv'
<1> USE DEF IInv, CallRead
<1>1. Ring'
  BY RingSame
<1>2. Control'
  BY SMT DEF Control, PipeConstants, Holders, PCs, Writing, Reading
<1>3. Ends'
  BY SMT DEF Control, Ends, PipeConstants, Holders
<1>4. Sleepers'
  BY SMT DEF Control, Sleepers, Holders, in, out
<1> QED
  BY <1>1, <1>2, <1>3, <1>4 DEF PipeConstants, Holders

\* Equal counters mean an empty pipe.
LEMMA EmptyIs ==
  ASSUME PipeConstants, Ring
  PROVE  Held = in - out /\ (nread = nwrite <=> in = out)
<1>1. /\ in \in Nat /\ out \in Nat /\ out <= in /\ in - out < WRAP
      /\ WRAP \in Nat \ {0}
  BY SMT DEF PipeConstants, Ring
<1>2. Held = in - out
  BY ZenonT(60), <1>1, Difference DEF Held, Ring
<1>3. nread = nwrite => in = out
  <2>1. nread \in Int /\ 0 % WRAP = 0
    BY <1>1, ModRange, ModSmall, SMT DEF Ring
  <2>2. nread - nread = 0
    BY <2>1, SMT
  <2>3. nread = nwrite => Held = 0
    BY <2>1, <2>2 DEF Held
  <2> QED
    BY <1>1, <1>2, <2>3, SMT
<1> QED
  BY <1>2, <1>3 DEF Ring

\* The loop of piperead(): the pipe is empty, or the reader goes on to copy.
LEMMA ReadWaitInv ==
  ASSUME IInv, NEW p \in Holders, read_wait(p)
  PROVE  IInv'
<1> USE DEF IInv
<1>1. Ring'
  BY RingSame DEF read_wait
<1>2. in = out /\ in' = in /\ out' = out /\ writeopen = 1 /\ p \in Readers
  BY EmptyIs DEF read_wait, in, out, Control, Reading
<1>3. /\ UNCHANGED <<readopen, writeopen, freed, killed>>
      /\ pc[p] = "read" /\ plock = "free"
  BY DEF read_wait
<1>4. left' \in [Holders -> Nat]
  BY SMT DEF read_wait, Control
<1>5. CASE pc' = [pc EXCEPT ![p] = "idle"] /\ plock' = plock
  <2>1. Control'
    BY <1>3, <1>4, <1>5, SMT DEF Control, PipeConstants, Holders, PCs, Writing, Reading
  <2>2. Ends'
    BY <1>3, <1>5, SMT DEF Control, Ends, PipeConstants, Holders
  <2>3. Sleepers'
    BY <1>2, <1>3, <1>5, SMT DEF Control, Sleepers, Holders
  <2> QED
    BY <1>1, <2>1, <2>2, <2>3 DEF PipeConstants, Holders
<1>6. CASE pc' = [pc EXCEPT ![p] = "rsleep"] /\ plock' = p
  <2>1. Control'
    BY <1>2, <1>3, <1>4, <1>6, SMT DEF Control, PipeConstants, Holders, PCs, Writing, Reading
  <2>2. Ends'
    BY <1>3, <1>6, SMT DEF Control, Ends, PipeConstants, Holders
  <2>3. Sleepers'
    BY <1>2, <1>3, <1>6, SMT DEF Control, Sleepers, Holders
  <2> QED
    BY <1>1, <2>1, <2>2, <2>3 DEF PipeConstants, Holders
<1> QED
  BY <1>5, <1>6 DEF read_wait

\* A process on its way to sleep is asleep: what it tested still holds.
LEMMA SleepInv ==
  ASSUME IInv, NEW p \in Holders, sleep(p)
  PROVE  IInv'
<1> USE DEF IInv, sleep
<1>1. Ring'
  BY RingSame
<1>2. Control'
  BY SMT DEF Control, PipeConstants, Holders, PCs, Writing, Reading
<1>3. Ends'
  BY SMT DEF Control, Ends, PipeConstants, Holders
<1>4. Sleepers'
  BY SMT DEF Control, Sleepers, Holders, in, out
<1> QED
  BY <1>1, <1>2, <1>3, <1>4 DEF PipeConstants, Holders

\* kill() of a process that may be asleep.
LEMMA KillInv ==
  ASSUME IInv, NEW p \in Holders, kill(p)
  PROVE  IInv'
<1> USE DEF IInv, kill
<1>1. Ring'
  BY RingSame
<1>2. Control'
  BY SMT DEF Control, PipeConstants, Holders, PCs, Writing, Reading
<1>3. Ends'
  BY SMT DEF Control, Ends, PipeConstants, Holders
<1>4. Sleepers'
  BY SMT DEF Control, Sleepers, Holders, in, out
<1> QED
  BY <1>1, <1>2, <1>3, <1>4 DEF PipeConstants, Holders

\* pipeclose(): the last close of an end, and the last of both.
LEMMA CloseInv ==
  ASSUME IInv, NEW p \in Holders, pipeclose(p)
  PROVE  IInv'
<1> USE DEF IInv
<1> DEFINE end == IF p \in Writers THEN Writers ELSE Readers
           final == \A q \in end : q # p => pc[q] = "closed"
<1>1. last({q \in end : pc[q] # "closed"}, p) <=> final
  BY Zenon DEF last, pipeclose, Holders
<1>2. /\ pc[p] = "idle" /\ plock = "free"
      /\ readopen' = IF final /\ p \in Readers THEN 0 ELSE readopen
      /\ writeopen' = IF final /\ p \in Writers THEN 0 ELSE writeopen
      /\ freed' = IF final /\ readopen' = 0 /\ writeopen' = 0 THEN 1 ELSE freed
      /\ UNCHANGED <<plock, data, nread, nwrite, left, killed, sent, received>>
  BY <1>1 DEF pipeclose, both_closed
<1>3. pc' \in [Holders -> PCs] /\ pc'[p] = "closed"
  BY <1>1, SMT DEF pipeclose, wake_readers, wake_writers, wakeup, Control, PCs
<1>4. \A q \in Holders : q # p =>
        pc'[q] = IF final /\ p \in Writers /\ pc[q] = "rasleep" THEN "read"
                 ELSE IF final /\ p \notin Writers /\ pc[q] = "wasleep" THEN "write"
                 ELSE pc[q]
  BY <1>1, SMT DEF pipeclose, wake_readers, wake_writers, wakeup, Control
<1> HIDE DEF final
<1>5. Ring'
  BY <1>2, RingSame
<1>6. Control'
  BY <1>2, <1>3, <1>4, SMT DEF Control, PipeConstants, Holders, PCs, Writing, Reading
<1>7. Ends'
  <2>1. CASE p \in Writers
    <3>1. p \notin Readers /\ writeopen = 1
      BY <1>2, <2>1, SMT DEF PipeConstants, Ends
    <3>2. \A q \in Readers : pc'[q] = "closed" <=> pc[q] = "closed"
      BY <1>4, <3>1, SMT DEF Holders
    <3>3. (\A q \in Writers : pc'[q] = "closed") <=> final
      BY <1>3, <1>4, <2>1, SMT DEF Holders, final
    <3> QED
      BY <1>2, <2>1, <3>1, <3>2, <3>3, SMT DEF Ends
  <2>2. CASE p \notin Writers
    <3>1. p \in Readers /\ readopen = 1
      BY <1>2, <2>2, SMT DEF PipeConstants, Ends, Holders
    <3>2. \A q \in Writers : pc'[q] = "closed" <=> pc[q] = "closed"
      BY <1>4, <2>2, SMT DEF Holders
    <3>3. (\A q \in Readers : pc'[q] = "closed") <=> final
      BY <1>3, <1>4, <2>2, <3>1, SMT, SMTT(40) DEF Holders, final
    <3> QED
      BY <1>2, <2>2, <3>1, <3>2, <3>3, SMT DEF Ends
  <2> QED
    BY <2>1, <2>2
<1>8. Sleepers'
  <2>1. in' = in /\ out' = out
    BY <1>2 DEF in, out
  <2>2. \A q \in Holders : pc[q] \notin {"wsleep", "rsleep"}
    BY <1>2, SMT DEF Control, PipeConstants
  <2>3. \A q \in Holders : pc[q] = "wasleep" => q \in Writers
    BY SMT DEF Control, Writing
  <2>4. \A q \in Holders : pc[q] = "rasleep" => q \in Readers
    BY SMT DEF Control, Reading
  <2>5. p \notin Writers => p \in Readers
    BY DEF Holders
  <2>6. p \in Writers => p \notin Readers
    BY DEF PipeConstants
  <2> QED
    BY <1>2, <1>3, <1>4, <2>1, <2>2, <2>3, <2>4, <2>5, <2>6, SMT DEF Sleepers
<1> QED
  BY <1>5, <1>6, <1>7, <1>8 DEF PipeConstants, Holders

\* piperead() takes the oldest m bytes, in order.
LEMMA ReadInv ==
  ASSUME IInv, NEW p \in Holders, piperead(p)
  PROVE  IInv'
<1> USE DEF IInv
<1> DEFINE m == IF left[p] < Held THEN left[p] ELSE Held
           got == [i \in 1..m |-> data[(nread + i - 1) % PIPESIZE]]
<1>1. /\ pc[p] = "read" /\ plock = "free"
      /\ received' = received \o got
      /\ nread' = (nread + m) % WRAP
      /\ pc' = [wake_writers(pc) EXCEPT ![p] = "idle"]
      /\ left' = [left EXCEPT ![p] = 0]
      /\ UNCHANGED <<plock, data, nwrite, readopen, writeopen, freed, killed, sent>>
  BY DEF piperead
<1>2. /\ in \in Nat /\ out \in Nat /\ m \in Nat /\ out + m <= in
      /\ in = out => m = 0
  BY EmptyIs, SMT, SMTT(40) DEF Ring, Control
<1>3. /\ PIPESIZE \in Nat \ {0} /\ WRAP \in Nat \ {0} /\ WRAP % PIPESIZE = 0
  BY SMT DEF PipeConstants
<1> HIDE DEF m
<1>4. got = [i \in 1..m |-> out + i]
  <2> SUFFICES ASSUME NEW i \in 1..m
               PROVE  data[(nread + i - 1) % PIPESIZE] = out + i
    OBVIOUS
  <2> DEFINE a == i - 1
  <2>1. a \in Int /\ out \in Int /\ out + a \in Nat /\ out <= out + a /\ out + a < in
    BY <1>2, SMT
  <2> HIDE DEF a
  <2>2. (a + (out % WRAP)) % PIPESIZE = (a + out) % PIPESIZE
    BY <2>1, Place
  <2>3. nread = out % WRAP /\ nread \in Int
    BY <1>2, <1>3, ModRange, SMT DEF Ring
  <2>4. (nread + i - 1) % PIPESIZE = (out + a) % PIPESIZE
    BY <2>1, <2>2, <2>3, SMT DEF a
  <2>5. data[(out + a) % PIPESIZE] = (out + a) + 1
    BY <2>1 DEF Ring
  <2> QED
    BY <1>2, <2>4, <2>5, SMT DEF a
<1>5. received' = Upto(out + m) /\ out' = out + m /\ in' = in
  <2>1. out + m \in Nat
    BY <1>2, SMT
  <2>2. received' = Upto(out + m)
    BY <1>1, <1>2, <1>4, UptoConcat, Zenon DEF Ring
  <2> QED
    BY ZenonT(60), <1>1, <2>1, <2>2, UptoLen DEF out, in
<1>6. nread' = (out + m) % WRAP
  <2>1. m \in Int /\ out \in Int /\ out % WRAP \in Int
    BY <1>2, <1>3, ModRange, SMT
  <2>2. (m + (out % WRAP)) % WRAP = (m + out) % WRAP
    BY ZenonT(60), <1>3, <2>1, ModAdd
  <2> QED
    BY <1>1, <2>1, <2>2, SMT DEF Ring
<1>7. Ring'
  <2>1. /\ sent' = Upto(in') /\ received' = Upto(out') /\ nwrite' = in' % WRAP /\ nread' = out' % WRAP
        /\ data' \in [0..(PIPESIZE - 1) -> Nat]
    BY ZenonT(60), <1>1, <1>5, <1>6 DEF Ring
  <2>2. in' \in Nat /\ out' \in Nat /\ out' <= in' /\ in' <= out' + PIPESIZE
    BY <1>2, <1>3, <1>5, SMT, SMTT(40) DEF Ring
  <2>3. \A k \in Nat : out' <= k /\ k < in' => data'[k % PIPESIZE] = k + 1
    BY <1>1, <1>2, <1>5, SMT, SMTT(40) DEF Ring
  <2> QED
    BY SMT, SMTT(40), <2>1, <2>2, <2>3 DEF Ring
<1>8. /\ pc' \in [Holders -> PCs] /\ pc'[p] = "idle"
      /\ \A q \in Holders : q # p => pc'[q] = IF pc[q] = "wasleep" THEN "write" ELSE pc[q]
  BY <1>1, SMT DEF wake_writers, wakeup, Control, PCs
<1>9. Control'
  <2>1. left' \in [Holders -> Nat] /\ killed' \in [Holders -> {0, 1}]
    BY <1>1, SMT DEF Control
  <2>2. \A q \in Holders : (plock' = q) <=> (pc'[q] \in {"wsleep", "rsleep"})
    BY <1>1, <1>8, SMT DEF Control, PipeConstants
  <2>3. \A q \in Holders : /\ pc'[q] \in Writing => q \in Writers
                           /\ pc'[q] \in Reading => q \in Readers
    BY <1>8, SMT DEF Control, Writing, Reading
  <2> QED
    BY <1>1, <1>8, <2>1, <2>2, <2>3 DEF Control, Holders
<1>10. Ends'
  <2>1. \A q \in Holders : pc'[q] = "closed" <=> pc[q] = "closed"
    BY <1>1, <1>8, SMT
  <2> QED
    BY <1>1, <2>1, SMT DEF Ends, Holders
<1>11. Sleepers'
  <2>1. \A q \in Holders : pc[q] \notin {"wsleep", "rsleep"}
    BY <1>1, SMT DEF Control, PipeConstants
  <2> QED
    BY <1>1, <1>2, <1>5, <1>8, <2>1, SMT DEF Sleepers
<1> QED
  BY <1>7, <1>9, <1>10, <1>11 DEF PipeConstants, Holders

\* pipewrite() fills the places that the reader has left, and no other.
LEMMA WriteRing ==
  ASSUME IInv, NEW p \in Holders, pipewrite(p)
  PROVE  Ring' /\ in' = in + Room(left[p]) /\ out' = out
<1> USE DEF IInv
<1> DEFINE m == Room(left[p])
           bytes == [i \in 1..m |-> in + i]
<1>1. left[p] \in Nat
  BY SMT DEF Control
<1>2. Rounds(left[p]) = m /\ m \in Nat /\ m <= left[p]
  BY <1>1, RoundsIs, Zenon
<1>3. /\ nwrite' = (nwrite + m) % WRAP
      /\ data' = [i \in DOMAIN data |->
           IF (i - nwrite) % PIPESIZE < m THEN bytes[((i - nwrite) % PIPESIZE) + 1] ELSE data[i]]
      /\ sent' = sent \o bytes
      /\ UNCHANGED <<nread, received>>
  BY <1>2 DEF pipewrite, in
<1>4. /\ PIPESIZE \in Nat \ {0} /\ WRAP \in Nat \ {0}
      /\ in \in Nat /\ out \in Nat /\ out <= in /\ in + m <= out + PIPESIZE /\ m <= PIPESIZE
  BY <1>1, <1>2, SMT DEF PipeConstants, Ring, Room
<1> HIDE DEF m
<1>5. sent' = Upto(in + m) /\ in' = in + m /\ out' = out
  <2>1. in + m \in Nat
    BY <1>2, <1>4, SMT
  <2>2. sent' = Upto(in + m)
    BY <1>2, <1>3, <1>4, UptoConcat, Zenon DEF Ring
  <2> QED
    BY ZenonT(60), <1>3, <2>1, <2>2, UptoLen DEF out, in
<1>6. nwrite' = (in + m) % WRAP
  <2>1. m \in Int /\ in \in Int /\ in % WRAP \in Int
    BY <1>2, <1>4, ModRange, SMT
  <2>2. (m + (in % WRAP)) % WRAP = (m + in) % WRAP
    BY ZenonT(60), <1>4, <2>1, ModAdd
  <2> QED
    BY <1>3, <2>1, <2>2, SMT DEF Ring
<1>7. \A k \in Nat : out <= k /\ k < in + m =>
        /\ k % PIPESIZE \in 0..(PIPESIZE - 1)
        /\ ((k % PIPESIZE) - nwrite) % PIPESIZE = IF k < in THEN k - in + PIPESIZE ELSE k - in
  <2> SUFFICES ASSUME NEW k \in Nat, out <= k, k < in + m
               PROVE  /\ k % PIPESIZE \in 0..(PIPESIZE - 1)
                      /\ ((k % PIPESIZE) - nwrite) % PIPESIZE
                           = IF k < in THEN k - in + PIPESIZE ELSE k - in
    OBVIOUS
  <2> DEFINE r == k % PIPESIZE
             d == k - in
  <2>1. r \in 0..(PIPESIZE - 1) /\ r \in Int /\ k \in Int /\ in \in Int /\ -in \in Int /\ d \in Int
    BY <1>4, ModRange, SMT
  <2>2. (-in + r) % PIPESIZE = (-in + k) % PIPESIZE
    BY ZenonT(60), <1>4, <2>1, ModAdd
  <2> HIDE DEF r
  <2>3. (r - nwrite) % PIPESIZE = (r - in) % PIPESIZE
    BY <2>1, Place DEF Ring
  <2>4. (r - nwrite) % PIPESIZE = d % PIPESIZE
    <3>1. -in + r = r - in /\ -in + k = d
      BY <2>1, SMT
    <3> QED
      BY <2>2, <2>3, <3>1
  <2>5. CASE k < in
    <3> DEFINE f == d + PIPESIZE
    <3>1. f \in 0..(PIPESIZE - 1)
      BY <1>2, <1>4, <2>5, SMT
    <3>2. f % PIPESIZE = f
      BY <1>4, <3>1, ModSmall
    <3> HIDE DEF d
    <3>3. f % PIPESIZE = d % PIPESIZE
      BY ZenonT(60), <1>4, <2>1, ModOnce
    <3> QED
      BY <2>1, <2>4, <2>5, <3>2, <3>3 DEF r, d
  <2>6. CASE ~(k < in)
    <3>1. d \in 0..(PIPESIZE - 1)
      BY <1>2, <1>4, <2>6, SMT
    <3>2. d % PIPESIZE = d
      BY <1>4, <3>1, ModSmall
    <3> QED
      BY <2>1, <2>4, <2>6, <3>2 DEF r
  <2> QED
    BY <2>5, <2>6
<1>8. ASSUME NEW k \in Nat, out <= k, k < in + m
      PROVE  data'[k % PIPESIZE] = k + 1
  <2> DEFINE r == k % PIPESIZE
             g == (r - nwrite) % PIPESIZE
  <2>1. r \in 0..(PIPESIZE - 1) /\ g = IF k < in THEN k - in + PIPESIZE ELSE k - in
    BY SMT, SMTT(40), <1>7, <1>8
  <2>2. data'[r] = IF g < m THEN bytes[g + 1] ELSE data[r]
    BY <1>3, <2>1 DEF Ring
  <2>3. CASE k < in
    <3>1. data[r] = k + 1
      BY <1>8, <2>3 DEF Ring
    <3>2. ~(g < m)
      BY <1>2, <1>4, <1>8, <2>1, <2>3, SMT
    <3> QED
      BY <2>2, <3>1, <3>2
  <2>4. CASE ~(k < in)
    <3> HIDE DEF g
    <3>1. g < m /\ g + 1 \in 1..m /\ in + (g + 1) = k + 1
      BY <1>2, <1>4, <1>8, <2>1, <2>4, SMT
    <3> QED
      BY <2>2, <3>1
  <2> QED
    BY <2>3, <2>4
<1>9. data' \in [0..(PIPESIZE - 1) -> Nat]
  <2>1. data' = [i \in 0..(PIPESIZE - 1) |->
          IF (i - nwrite) % PIPESIZE < m THEN bytes[((i - nwrite) % PIPESIZE) + 1] ELSE data[i]]
    BY <1>3 DEF Ring
  <2>2. ASSUME NEW i \in 0..(PIPESIZE - 1) PROVE data'[i] \in Nat
    <3> DEFINE x == i - nwrite
               g == x % PIPESIZE
    <3>1. x \in Int
      BY <1>4, ModRange, SMT DEF Ring
    <3> HIDE DEF x
    <3>2. g \in Nat
      BY <1>4, <3>1, ModRange, SMT
    <3>3. data'[i] = IF g < m THEN bytes[g + 1] ELSE data[i]
      BY <2>1 DEF x
    <3> HIDE DEF g
    <3>4. g < m => bytes[g + 1] = in + (g + 1) /\ in + (g + 1) \in Nat
      BY <1>2, <1>4, <3>2, SMT
    <3>5. data[i] \in Nat
      BY DEF Ring
    <3> QED
      BY <3>3, <3>4, <3>5
  <2> HIDE DEF bytes
  <2> QED
    BY SMT, SMTT(40), <2>1, <2>2
<1>10. Ring'
  <2>1. /\ sent' = Upto(in') /\ received' = Upto(out')
        /\ nwrite' = in' % WRAP /\ nread' = out' % WRAP
    BY ZenonT(60), <1>3, <1>5, <1>6 DEF Ring
  <2>2. in' \in Nat /\ out' \in Nat /\ out' <= in' /\ in' <= out' + PIPESIZE
    BY <1>2, <1>4, <1>5, SMT
  <2>3. \A k \in Nat : out' <= k /\ k < in' => data'[k % PIPESIZE] = k + 1
    BY <1>5, <1>8
  <2> QED
    BY SMT, SMTT(40), <1>9, <2>1, <2>2, <2>3 DEF Ring
<1> QED
  BY <1>5, <1>10 DEF m

\* A write() that stops early has found the pipe full.
LEMMA WriteInv ==
  ASSUME IInv, NEW p \in Holders, pipewrite(p)
  PROVE  IInv'
<1> USE DEF IInv
<1> DEFINE m == Room(left[p])
           n == left[p]
<1>1. Ring' /\ in' = in + m /\ out' = out
  BY WriteRing
<1>2. n \in Nat /\ Rounds(n) = m /\ m \in Nat /\ m <= n
  <2>1. n \in Nat
    BY SMT, SMTT(40) DEF Control
  <2> QED
    BY <2>1, RoundsIs, Zenon
<1>3. /\ in \in Nat /\ out \in Nat /\ PIPESIZE \in Nat
      /\ in + m <= out + PIPESIZE
      /\ m < n => in + m = out + PIPESIZE
  BY <1>2, SMT, SMTT(40) DEF PipeConstants, Ring, Room
<1>4. /\ pc[p] = "write" /\ plock = "free" /\ p \in Writers /\ p \notin Readers
      /\ UNCHANGED <<readopen, writeopen, freed, killed>>
  BY SMT DEF pipewrite, Control, Writing, PipeConstants
<1>5. left' \in [Holders -> Nat]
  <2>1. left' = [left EXCEPT ![p] = IF pc'[p] = "idle" THEN 0 ELSE n - m]
    BY <1>2 DEF pipewrite
  <2>2. n - m \in Nat
    BY <1>2, SMT, SMTT(40)
  <2> QED
    BY <2>1, <2>2, SMT, SMTT(40) DEF Control
<1> HIDE DEF m, n
<1>6. \/ pc' = [wake_readers(pc) EXCEPT ![p] = "idle"] /\ plock' = plock
      \/ pc' = [pc EXCEPT ![p] = "idle"] /\ plock' = plock /\ (readopen = 0 \/ killed[p] = 1)
      \/ /\ pc' = [wake_readers(pc) EXCEPT ![p] = "wsleep"] /\ plock' = p
         /\ m < n /\ readopen = 1
  BY SMT, SMTT(40), <1>2 DEF pipewrite, m, n
<1>7. /\ pc' \in [Holders -> PCs]
      /\ \A q \in Holders : q # p => pc'[q] \in {pc[q], "read"} /\ (pc'[q] # pc[q] => pc[q] = "rasleep")
      /\ \/ pc'[p] = "idle" /\ plock' = plock
         \/ pc'[p] = "wsleep" /\ plock' = p /\ m < n /\ readopen = 1
      /\ \A q \in Holders : pc'[q] = "rasleep" => pc[q] = "rasleep" /\ (readopen = 0 \/ killed[p] = 1)
  <2>1. CASE pc' = [wake_readers(pc) EXCEPT ![p] = "idle"] /\ plock' = plock
    BY <2>1, SMT DEF wake_readers, wakeup, Control, PCs
  <2>2. CASE pc' = [pc EXCEPT ![p] = "idle"] /\ plock' = plock /\ (readopen = 0 \/ killed[p] = 1)
    BY <2>2, SMT, SMTT(40) DEF Control, PCs
  <2>3. CASE /\ pc' = [wake_readers(pc) EXCEPT ![p] = "wsleep"] /\ plock' = p
             /\ m < n /\ readopen = 1
    BY <2>3, SMT DEF wake_readers, wakeup, Control, PCs
  <2> QED
    BY <1>6, <2>1, <2>2, <2>3
<1>8. \A q \in Holders : pc[q] \notin {"wsleep", "rsleep"}
  BY <1>4, SMT, SMTT(40) DEF Control, PipeConstants
<1>9. Control'
  <2>1. killed' \in [Holders -> {0, 1}] /\ plock' \in Holders \cup {"free"}
    BY <1>4, <1>7, SMT DEF Control
  <2>2. \A q \in Holders : (plock' = q) <=> (pc'[q] \in {"wsleep", "rsleep"})
    BY <1>4, <1>7, <1>8, SMT, SMTT(40) DEF PipeConstants
  <2>3. \A q \in Holders : /\ pc'[q] \in Writing => q \in Writers
                           /\ pc'[q] \in Reading => q \in Readers
    BY <1>4, <1>7, SMT, SMTT(40) DEF Control, Writing, Reading
  <2> QED
    BY SMT, SMTT(40), <1>5, <1>7, <2>1, <2>2, <2>3 DEF Control, Holders
<1>10. Ends'
  <2>1. \A q \in Holders : pc'[q] = "closed" <=> pc[q] = "closed"
    BY <1>4, <1>7, SMT, SMTT(40)
  <2> QED
    BY <1>4, <2>1, SMT DEF Ends, Holders
<1>11. Sleepers'
  <2> SUFFICES ASSUME NEW q \in Holders
               PROVE  /\ pc'[q] \in {"wsleep", "wasleep"} => in' = out' + PIPESIZE /\ readopen' = 1
                      /\ pc'[q] = "rsleep" => in' = out' /\ writeopen' = 1
                      /\ pc'[q] = "rasleep" =>
                           writeopen' = 1 /\ (in' = out' \/ \E w \in Writers : killed'[w] = 1)
    BY SMT, SMTT(40) DEF Sleepers
  <2>1. pc'[q] \in {"wsleep", "wasleep"} => in' = out' + PIPESIZE /\ readopen' = 1
    BY <1>1, <1>2, <1>3, <1>4, <1>7, <1>8, SMT, SMTT(40) DEF Sleepers
  <2>2. pc'[q] # "rsleep"
    BY <1>7, <1>8, SMT
  <2>3. pc'[q] = "rasleep" => writeopen' = 1 /\ killed'[p] = 1
    <3>1. pc[q] = "rasleep" => q \in Readers /\ readopen # 0
      BY SMT DEF Control, Reading, Ends
    <3> QED
      BY <1>4, <1>7, <3>1, SMT DEF Sleepers
  <2> QED
    BY SMT, SMTT(40), <1>4, <2>1, <2>2, <2>3
<1> QED
  BY <1>1, <1>9, <1>10, <1>11 DEF PipeConstants, Holders

\* Every step keeps the invariant.
LEMMA StepInv == IInv /\ [Next]_vars => IInv'
<1> SUFFICES ASSUME IInv, [Next]_vars PROVE IInv'
  OBVIOUS
<1>1. ASSUME NEW p \in Holders, NEW n \in Counts, CallWrite(p, n) \/ CallRead(p, n) PROVE IInv'
  BY <1>1, CallWriteInv, CallReadInv
<1>2. ASSUME NEW p \in Holders, Step(p) \/ kill(p) PROVE IInv'
  BY SMT, SMTT(40), <1>2, WriteInv, ReadWaitInv, ReadInv, SleepInv, CloseInv, KillInv DEF Step
<1>3. CASE UNCHANGED vars
  BY <1>3, RingSame DEF vars, IInv, PipeConstants, Holders, Control, Ends, Sleepers, in, out
<1> QED
  BY <1>1, <1>2, <1>3 DEF Next, Finished
-----------------------------------------------------------------------------
(***************************************************************************)
(* The theorems.                                                           *)
(***************************************************************************)
LEMMA Invariance == PipeConstants /\ Spec => []IInv
BY InitInv, StepInv, PTL DEF Spec

\* pipewrite() and piperead() lose, repeat and reorder no byte, while nread and
\* nwrite wrap and any number of writers sleep in the middle of their writes;
\* pipeclose() gives the memory back at the last close, and not before.
THEOREM BytesInOrder == PipeConstants /\ Spec => []PipeConsistent
<1>1. IInv => Fifo
  <2> SUFFICES ASSUME IInv PROVE Fifo
    OBVIOUS
  <2> USE DEF IInv
  <2> DEFINE m == in - out
  <2>1. /\ in \in Nat /\ out \in Nat /\ m \in Nat /\ out + m = in
        /\ PIPESIZE \in Nat \ {0} /\ WRAP \in Nat \ {0}
    BY SMT DEF Ring, PipeConstants
  <2>2. Held = m
    BY EmptyIs
  <2> HIDE DEF m
  <2>3. [i \in 1..m |-> data[(nread + i - 1) % PIPESIZE]] = [i \in 1..m |-> out + i]
    <3> SUFFICES ASSUME NEW i \in 1..m
                 PROVE  data[(nread + i - 1) % PIPESIZE] = out + i
      OBVIOUS
    <3> DEFINE a == i - 1
    <3>1. a \in Int /\ out \in Int /\ out + a \in Nat /\ out <= out + a /\ out + a < in
      BY <2>1, SMT
    <3> HIDE DEF a
    <3>2. (a + (out % WRAP)) % PIPESIZE = (a + out) % PIPESIZE
      BY <3>1, Place
    <3>3. nread = out % WRAP /\ nread \in Int
      BY <2>1, ModRange, SMT DEF Ring
    <3>4. (nread + i - 1) % PIPESIZE = (out + a) % PIPESIZE
      BY <3>1, <3>2, <3>3, SMT DEF a
    <3>5. data[(out + a) % PIPESIZE] = (out + a) + 1
      BY <3>1 DEF Ring
    <3> QED
      BY <2>1, <3>4, <3>5, SMT DEF a
  <2>4. Upto(out) \o [i \in 1..m |-> out + i] = Upto(in)
    BY ZenonT(60), <2>1, UptoConcat
  <2> QED
    BY ZenonT(60), <2>2, <2>3, <2>4 DEF Fifo, Ring
<1>2. IInv => FreedLast
  BY SMT DEF IInv, Ends, FreedLast, Holders
<1>3. IInv => TypeOK
  <2> SUFFICES ASSUME IInv PROVE TypeOK
    OBVIOUS
  <2>1. /\ in \in Nat /\ out \in Nat /\ out <= in /\ in <= out + PIPESIZE
        /\ WRAP \in Nat \ {0} /\ PIPESIZE \in Nat
    BY SMT DEF IInv, Ring, PipeConstants
  <2>2. nread \in 0..(WRAP - 1) /\ nwrite \in 0..(WRAP - 1)
    BY <2>1, ModRange, SMT DEF IInv, Ring
  <2>3. Held \in 0..PIPESIZE
    BY <2>1, EmptyIs, SMT DEF IInv
  <2> QED
    BY <2>2, <2>3 DEF IInv, Control, TypeOK
<1>4. IInv => PipeConsistent
  BY <1>1, <1>2, <1>3 DEF PipeConsistent
<1> QED
  BY <1>4, Invariance, PTL

\* No wakeup() is lost in pipewrite(), piperead() or pipeclose(): a writer
\* sleeps only on a full pipe that can still be read, a reader only on a pipe
\* that can still be written and is empty, unless a writer has been killed.
SleepersWait ==
  \A p \in Holders :
    /\ pc[p] = "wasleep" => Held = PIPESIZE /\ readopen = 1
    /\ pc[p] = "rasleep" => writeopen = 1 /\ (Held = 0 \/ \E q \in Writers : killed[q] = 1)

\* A pipe's sleepers wait for something that is still to come.
THEOREM NoWakeupLost == PipeConstants /\ Spec => []SleepersWait
<1>1. IInv => SleepersWait
  <2> SUFFICES ASSUME IInv PROVE SleepersWait
    BY SMT, SMTT(40)
  <2>1. Held = in - out /\ in \in Nat /\ out \in Nat /\ PIPESIZE \in Nat
    BY EmptyIs DEF IInv, Ring, PipeConstants
  <2> QED
    BY <2>1, SMT DEF IInv, Sleepers, SleepersWait
<1> QED
  BY <1>1, Invariance, PTL
=============================================================================
