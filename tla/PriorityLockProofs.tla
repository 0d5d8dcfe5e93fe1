------------------------- MODULE PriorityLockProofs -------------------------
(***************************************************************************)
(* Proofs about PriorityLock, for every set of CPUs, every set of pids and *)
(* every number of calls: nobody panics, the lock and the queue lock are   *)
(* exclusive, a waiter keeps its CPU, the queue holds exactly the waiting  *)
(* threads in order, and the lock goes to the highest pid in it.  The      *)
(* lemmas about add_queue() and rm_queue() come first.                     *)
(***************************************************************************)
EXTENDS PriorityLock, WellFoundedInduction, SequenceTheorems, TLAPS

\* The order add_queue() keeps the list in.
Descending(q) == \A i, j \in DOMAIN q : i < j => q[i] > q[j]

\* r is the list q with pid entered behind its first n nodes.
Entered(q, n, pid, r) ==
  /\ Len(r) = Len(q) + 1
  /\ \A k \in 1..n : r[k] = q[k]
  /\ r[n + 1] = pid
  /\ \A k \in (n + 1)..Len(q) : r[k + 1] = q[k]

\* The elements of a list of pids are natural numbers.
LEMMA PidSeq ==
  ASSUME NEW q \in Seq(Pids)
  PROVE  /\ Len(q) \in Nat /\ DOMAIN q = 1..Len(q)
         /\ \A i \in 1..Len(q) : q[i] \in Pids /\ q[i] \in Nat
<1>1. Len(q) \in Nat /\ DOMAIN q = 1..Len(q) /\ \A i \in 1..Len(q) : q[i] \in Pids
  OBVIOUS
<1> QED
  BY Zenon, <1>1, PidsAssumption

-----------------------------------------------------------------------------
(***************************************************************************)
(* add_queue().                                                            *)
(***************************************************************************)

\* A nonempty set of naturals has a least element.
LEMMA LeastNat ==
  ASSUME NEW T, T \subseteq Nat, T # {}
  PROVE  \E x \in T : \A y \in T : x <= y
<1> DEFINE R == OpToRel(<, Nat)
<1>1. \E x \in T : \A y \in T : ~ (<<y, x>> \in R)
  <2> HIDE DEF R
  <2>1. IsWellFoundedOn(R, Nat)
    BY Zenon, NatLessThanWellFounded DEF R
  <2> QED
    BY Zenon, <2>1, WFMin
<1>2. \A x, y \in Nat : <<y, x>> \in R <=> y < x
  BY DEF OpToRel
<1> HIDE DEF R
<1>3. PICK x \in T : \A y \in T : ~ (<<y, x>> \in R)
  BY SMT, SMTT(40), <1>1
<1>4. x \in Nat /\ \A y \in T : y \in Nat
  OBVIOUS
<1>5. \A y \in T : ~(y < x)
  BY Zenon, <1>2, <1>3, <1>4
<1> QED
  BY SMT, SMTT(40), <1>4, <1>5

\* The walk of add_queue() stops at a node of the list: all nodes after the
\* head and up to it have greater pids, the next one, if any, has not.
LEMMA LastGreaterExists ==
  ASSUME NEW q \in Seq(Pids), q # << >>, NEW pid \in Pids
  PROVE  /\ LastGreater(q, pid) \in 1..Len(q)
         /\ \A k \in 2..LastGreater(q, pid) : q[k] > pid
         /\ \/ LastGreater(q, pid) = Len(q)
            \/ q[LastGreater(q, pid) + 1] <= pid
<1> DEFINE Stops == {i \in 1..Len(q) : i = Len(q) \/ q[i + 1] <= pid}
<1>1. Len(q) \in Nat \ {0} /\ pid \in Nat /\ \A k \in 1..Len(q) : q[k] \in Nat
  BY SMT, SMTT(40), PidSeq, PidsAssumption
<1>2. Len(q) \in Stops /\ Stops \subseteq Nat
  BY SMT, SMTT(40), <1>1
<1>3. PICK i \in Stops : \A j \in Stops : i <= j
  <2> HIDE DEF Stops
  <2> QED
    BY Zenon, <1>2, LeastNat
<1>4. i \in 1..Len(q) /\ (i = Len(q) \/ q[i + 1] <= pid)
  BY SMT, SMTT(40)
<1>5. ASSUME NEW k \in 2..i PROVE q[k] > pid
  <2>1. k - 1 \in 1..Len(q) /\ k \in 1..Len(q) /\ (k - 1) + 1 = k /\ ~(i <= k - 1)
    BY SMT, SMTT(40), <1>1, <1>4
  <2>2. k - 1 \notin Stops
    <3> HIDE DEF Stops
    <3> QED
      BY Zenon, SMTT(40), <1>3, <2>1
  <2>3. ~(q[k] <= pid)
    BY Zenon, SMTT(40), <2>1, <2>2
  <2> QED
    BY SMT, SMTT(40), <1>1, <2>1, <2>3
<1>6. \E n \in 1..Len(q) : /\ \A k \in 2..n : q[k] > pid
                           /\ n = Len(q) \/ q[n + 1] <= pid
  BY SMT, SMTT(40), <1>4, <1>5
<1> QED
  BY Zenon, <1>6 DEF LastGreater

\* Its elements are those of the list and the new pid.
LEMMA EnteredRange ==
  ASSUME NEW q \in Seq(Pids), NEW r \in Seq(Pids), NEW pid \in Pids,
         NEW n \in 0..Len(q), Entered(q, n, pid, r)
  PROVE  Range(r) = Range(q) \cup {pid}
<1>0. DOMAIN q = 1..Len(q) /\ DOMAIN r = 1..Len(r) /\ Len(q) \in Nat /\ n \in Nat
  BY SMT, SMTT(40)
<1> USE DEF Entered
<1>1. ASSUME NEW k \in 1..Len(q) PROVE q[k] \in Range(r)
  <2>1. CASE k <= n
    <3>1. k \in 1..Len(r) /\ r[k] = q[k]
      BY SMT, SMTT(40), <2>1, <1>0
    <3> QED
      BY SMT, SMTT(40), <1>0, <3>1 DEF Range
  <2>2. CASE k > n
    <3>1. k + 1 \in 1..Len(r) /\ r[k + 1] = q[k]
      BY SMT, SMTT(40), <2>2, <1>0
    <3> QED
      BY Zenon, SMTT(40), <1>0, <3>1 DEF Range
  <2> QED
    BY SMT, SMTT(40), <2>1, <2>2, <1>0
<1>2. pid \in Range(r)
  <2>1. n + 1 \in 1..Len(r)
    BY SMT, SMTT(40), <1>0
  <2> QED
    BY Zenon, SMTT(40), <1>0, <2>1 DEF Range
<1>3. ASSUME NEW j \in 1..Len(r) PROVE r[j] \in Range(q) \cup {pid}
  <2>1. CASE j <= n
    <3>1. j \in 1..Len(q) /\ r[j] = q[j]
      BY SMT, SMTT(40), <2>1, <1>0
    <3> QED
      BY Zenon, SMTT(40), <1>0, <3>1 DEF Range
  <2>2. CASE j = n + 1
    BY SMT, SMTT(40), <2>2
  <2>3. CASE j > n + 1
    <3>1. j - 1 \in (n + 1)..Len(q) /\ (j - 1) + 1 = j /\ j - 1 \in 1..Len(q)
      BY SMT, SMTT(40), <2>3, <1>0
    <3>2. r[j] = q[j - 1]
      BY SMT, SMTT(40), <3>1
    <3> QED
      BY Zenon, <1>0, <3>1, <3>2 DEF Range
  <2> QED
    BY SMT, SMTT(40), <1>0, <2>1, <2>2, <2>3
<1>4. Range(q) \subseteq Range(r)
  BY Zenon, SMTT(40), <1>0, <1>1 DEF Range
<1>5. Range(r) \subseteq Range(q) \cup {pid}
  BY SMT, SMTT(40), <1>0, <1>3 DEF Range
<1> QED
  BY SMT, SMTT(40), <1>2, <1>4, <1>5

\* If the first n pids are greater and the others are less, the order is kept.
LEMMA EnteredDescending ==
  ASSUME NEW q \in Seq(Pids), NEW r \in Seq(Pids), NEW pid \in Pids,
         NEW n \in 0..Len(q), Entered(q, n, pid, r), Descending(q),
         \A k \in 1..n : q[k] > pid, \A k \in (n + 1)..Len(q) : q[k] < pid
  PROVE  Descending(r)
<1>0. DOMAIN q = 1..Len(q) /\ DOMAIN r = 1..Len(r) /\ Len(q) \in Nat /\ n \in Nat /\ Len(r) = Len(q) + 1
  BY SMT, SMTT(40) DEF Entered
<1>1. pid \in Nat /\ \A k \in 1..Len(q) : q[k] \in Nat
  BY SMT, SMTT(40), PidSeq, PidsAssumption
<1>2. \A i, j \in 1..Len(q) : i < j => q[i] > q[j]
  BY SMT, SMTT(40), <1>0 DEF Descending
<1>3. ASSUME NEW j \in 1..Len(r), j > n + 1
      PROVE  j - 1 \in (n + 1)..Len(q) /\ j - 1 \in 1..Len(q) /\ r[j] = q[j - 1]
  <2>1. j - 1 \in (n + 1)..Len(q) /\ (j - 1) + 1 = j /\ j - 1 \in 1..Len(q)
    BY SMT, SMTT(40), <1>0, <1>3
  <2> QED
    BY SMT, SMTT(40), <2>1 DEF Entered
<1>4. ASSUME NEW i \in 1..Len(r), i <= n PROVE i \in 1..n /\ i \in 1..Len(q) /\ r[i] = q[i]
  BY SMT, SMTT(40), <1>0, <1>4 DEF Entered
<1>5. r[n + 1] = pid
  BY SMT, SMTT(40) DEF Entered
<1>6. ASSUME NEW i \in 1..Len(r), NEW j \in 1..Len(r), i < j PROVE r[i] > r[j]
  <2>1. CASE j <= n
    <3>1. i <= n
      BY SMT, SMTT(40), <1>0, <1>6, <2>1
    <3> QED
      BY Zenon, <1>2, <1>4, <1>6, <2>1, <3>1
  <2>2. CASE j = n + 1
    <3>1. i <= n
      BY SMT, SMTT(40), <1>0, <1>6, <2>2
    <3> QED
      BY Zenon, <1>4, <1>5, <2>2, <3>1
  <2>3. CASE j > n + 1 /\ i <= n
    <3>1. r[i] = q[i] /\ r[j] = q[j - 1] /\ i < j - 1 /\ i \in 1..Len(q) /\ j - 1 \in 1..Len(q)
      BY SMT, SMTT(40), <1>0, <1>3, <1>4, <1>6, <2>3
    <3> QED
      BY SMT, SMTT(40), <1>2, <3>1
  <2>4. CASE j > n + 1 /\ i = n + 1
    BY Zenon, <1>1, <1>3, <1>5, <1>6, <2>4
  <2>5. CASE j > n + 1 /\ i > n + 1
    <3>1. r[i] = q[i - 1] /\ r[j] = q[j - 1] /\ i - 1 < j - 1 /\ i - 1 \in 1..Len(q) /\ j - 1 \in 1..Len(q)
      BY SMT, SMTT(40), <1>0, <1>3, <1>6, <2>5
    <3> QED
      BY Zenon, <1>2, <3>1
  <2> QED
    BY SMT, SMTT(40), <1>0, <2>1, <2>2, <2>3, <2>4, <2>5
<1> QED
  BY SMT, SMTT(40), <1>0, <1>6 DEF Descending

\* Front part, new node and rest, linked one behind the other.
LEMMA PartsEnter ==
  ASSUME NEW q \in Seq(Pids), NEW pid \in Pids, NEW n \in 0..Len(q),
         NEW a \in Seq(Pids), Len(a) = n, \A k \in 1..n : a[k] = q[k],
         NEW b \in Seq(Pids), Len(b) = Len(q) - n,
         \A k \in 1..(Len(q) - n) : b[k] = q[n + k],
         NEW c \in Seq(Pids), c = a \o <<pid>>, NEW r \in Seq(Pids), r = c \o b
  PROVE  Entered(q, n, pid, r)
<1>0. Len(q) \in Nat /\ n \in Nat
  BY SMT, SMTT(40)
<1>1. Len(c) = n + 1 /\ c[n + 1] = pid /\ \A k \in 1..n : c[k] = a[k]
  <2>1. c = Append(a, pid)
    BY SMT, SMTT(40), AppendIsConcat
  <2>2. /\ Len(Append(a, pid)) = Len(a) + 1 /\ Append(a, pid)[Len(a) + 1] = pid
        /\ \A k \in 1..Len(a) : Append(a, pid)[k] = a[k]
    BY SMT, SMTT(40), AppendProperties
  <2> QED
    BY Zenon, <2>1, <2>2
<1>2. /\ Len(r) = Len(q) + 1
      /\ \A k \in 1..(n + 1) : r[k] = c[k]
  <2>1. Len(r) = Len(c) + Len(b)
    BY Zenon, SMTT(40), ConcatProperties
  <2>2. \A k \in 1..(Len(c) + Len(b)) : r[k] = IF k <= Len(c) THEN c[k] ELSE b[k - Len(c)]
    BY SMT, SMTT(40), ConcatProperties
  <2>3. Len(c) = n + 1 /\ Len(b) = Len(q) - n
    BY <1>1, Zenon
  <2>4. n <= Len(q)
    BY SMT, SMTT(40)
  <2>5. /\ Len(c) + Len(b) = Len(q) + 1
        /\ \A k \in 1..(n + 1) : k \in 1..(Len(q) + 1) /\ k <= Len(c)
    BY ONLY SMT, SMTT(40), <1>0, <2>3, <2>4
  <2> QED
    BY <2>1, <2>2, <2>5, Zenon
<1>3. ASSUME NEW k \in (n + 1)..Len(q) PROVE r[k + 1] = q[k]
  <2>1. k - n \in 1..(Len(q) - n) /\ (k + 1) - (n + 1) = k - n /\ n + (k - n) = k
    BY SMT, SMTT(40), <1>0
  <2>2. k + 1 \in 1..(Len(c) + Len(b)) /\ ~(k + 1 <= Len(c))
    BY SMT, SMTT(40), <1>0, <1>1
  <2>3. \A i \in 1..(Len(c) + Len(b)) : r[i] = IF i <= Len(c) THEN c[i] ELSE b[i - Len(c)]
    BY SMT, SMTT(40), ConcatProperties
  <2>4. r[k + 1] = b[(k + 1) - Len(c)]
    BY Zenon, <2>2, <2>3
  <2>5. (k + 1) - Len(c) = k - n
    BY Zenon, <1>1, <2>1
  <2>6. b[k - n] = q[n + (k - n)]
    BY Zenon, <2>1
  <2> QED
    BY Zenon, SMTT(40), <2>1, <2>4, <2>5, <2>6
<1>4. (\A k \in 1..n : r[k] = q[k]) /\ r[n + 1] = pid
  BY SMT, SMTT(40), <1>0, <1>1, <1>2
<1> QED
  BY Zenon, <1>2, <1>3, <1>4 DEF Entered

\* Linking a node between temp and temp->next enters it behind temp.
LEMMA InsertAtEnters ==
  ASSUME NEW q \in Seq(Pids), NEW pid \in Pids, NEW n \in 0..Len(q)
  PROVE  InsertAt(q, n + 1, pid) \in Seq(Pids) /\ Entered(q, n, pid, InsertAt(q, n + 1, pid))
<1> DEFINE a == SubSeq(q, 1, n)
           b == SubSeq(q, n + 1, Len(q))
           c == a \o <<pid>>
           r == c \o b
<1>0. Len(q) \in Nat /\ n \in Nat /\ (n + 1) - 1 = n
  BY SMT, SMTT(40)
<1>1. a \in Seq(Pids) /\ Len(a) = n /\ \A k \in 1..n : a[k] = q[k]
  <2>1. \A k \in 1..n : q[k] \in Pids
    BY SMT, SMTT(40), <1>0
  <2>2. n - 1 + 1 = n /\ \A k \in 1..n : 1 + k - 1 = k
    BY SMT, SMTT(40), <1>0
  <2>3. /\ SubSeq(q, 1, n) \in Seq(Pids)
        /\ Len(SubSeq(q, 1, n)) = IF 1 <= n THEN n - 1 + 1 ELSE 0
        /\ \A k \in 1..(n - 1 + 1) : SubSeq(q, 1, n)[k] = q[1 + k - 1]
    BY SMT, SMTT(40), <1>0, <2>1, SubSeqProperties
  <2> QED
    BY SMT, SMTT(40), <1>0, <2>2, <2>3
<1>2. /\ b \in Seq(Pids) /\ Len(b) = Len(q) - n
      /\ \A k \in 1..(Len(q) - n) : b[k] = q[n + k]
  <2>1. \A k \in (n + 1)..Len(q) : q[k] \in Pids
    BY SMT, SMTT(40), <1>0
  <2>2. Len(q) - (n + 1) + 1 = Len(q) - n /\ \A k \in 1..(Len(q) - n) : (n + 1) + k - 1 = n + k
    BY SMT, SMTT(40), <1>0
  <2>3. /\ SubSeq(q, n + 1, Len(q)) \in Seq(Pids)
        /\ Len(SubSeq(q, n + 1, Len(q))) = IF n + 1 <= Len(q) THEN Len(q) - (n + 1) + 1 ELSE 0
        /\ \A k \in 1..(Len(q) - (n + 1) + 1) :
              SubSeq(q, n + 1, Len(q))[k] = q[(n + 1) + k - 1]
    BY SMT, SMTT(40), <1>0, <2>1, SubSeqProperties
  <2>4. Len(b) = Len(q) - n
    <3>1. CASE n + 1 <= Len(q)
      BY Zenon, <2>2, <2>3, <3>1
    <3>2. CASE ~(n + 1 <= Len(q))
      <4>1. Len(q) - n = 0
        BY SMT, SMTT(40), <1>0, <3>2
      <4> QED
        BY Zenon, <2>3, <3>2, <4>1
    <3> QED
      BY Zenon, <3>1, <3>2
  <2>5. ASSUME NEW k \in 1..(Len(q) - n) PROVE b[k] = q[n + k]
    <3>0. k \in 1..(Len(q) - (n + 1) + 1)
      BY SMT, SMTT(40), <1>0
    <3>1. b[k] = q[(n + 1) + k - 1]
      BY Zenon, SMTT(40), <2>3, <3>0
    <3>2. (n + 1) + k - 1 = n + k
      BY SMT, SMTT(40), <1>0
    <3> QED
      BY Zenon, <3>1, <3>2
  <2> QED
    BY Zenon, <2>3, <2>4, <2>5
<1>3. c \in Seq(Pids)
  BY SMT, SMTT(40), <1>1
<1>4. r \in Seq(Pids)
  <2> HIDE DEF c, b
  <2> QED
    BY SMT, SMTT(40), <1>2, <1>3
<1>5. InsertAt(q, n + 1, pid) = r
  BY Zenon, <1>0 DEF InsertAt
<1>6. Entered(q, n, pid, r)
  <2>1. c = a \o <<pid>> /\ r = c \o b
    BY SMT, SMTT(40)
  <2> HIDE DEF a, b, c, r
  <2> QED
    BY ZenonT(60), <1>1, <1>2, <1>3, <1>4, <2>1, PartsEnter
<1> HIDE DEF r
<1> QED
  BY Zenon, <1>4, <1>5, <1>6

\* add_queue() enters the pid once and keeps the list in descending order.
THEOREM AddQueueCorrect ==
  ASSUME NEW q \in Seq(Pids), NEW pid \in Pids, Descending(q), pid \notin Range(q)
  PROVE  /\ add_queue(q, pid) \in Seq(Pids)
         /\ Range(add_queue(q, pid)) = Range(q) \cup {pid}
         /\ Descending(add_queue(q, pid))
<1>1. /\ Len(q) \in Nat /\ DOMAIN q = 1..Len(q) /\ pid \in Nat
      /\ \A i \in 1..Len(q) : q[i] \in Nat /\ q[i] \in Pids
  BY Zenon, PidSeq, PidsAssumption
<1>2. \A i \in 1..Len(q) : q[i] # pid
  BY SMT, SMTT(40), <1>1 DEF Range
<1>3. \A i, j \in 1..Len(q) : i < j => q[i] > q[j]
  BY SMT, SMTT(40), <1>1 DEF Descending
<1>4. SUFFICES \E r \in Seq(Pids), n \in 0..Len(q) :
                 /\ r = add_queue(q, pid) /\ Entered(q, n, pid, r)
                 /\ \A k \in 1..n : q[k] > pid
                 /\ \A k \in (n + 1)..Len(q) : q[k] < pid
  BY Zenon, EnteredRange, EnteredDescending
<1>5. CASE q = << >>
  <2>1. add_queue(q, pid) = <<pid>> /\ <<pid>> \in Seq(Pids) /\ Len(q) = 0
    BY SMT, SMTT(40), <1>5 DEF add_queue
  <2>2. Entered(q, 0, pid, <<pid>>)
    BY SMT, SMTT(40), <2>1 DEF Entered
  <2>3. (\A k \in 1..0 : q[k] > pid) /\ (\A k \in (0 + 1)..Len(q) : q[k] < pid) /\ 0 \in 0..Len(q)
    BY SMT, SMTT(40), <2>1
  <2> QED
    BY Zenon, <2>1, <2>2, <2>3
<1>6. CASE q # << >> /\ Head(q) < pid
  <2>1. add_queue(q, pid) = <<pid>> \o q
    BY SMT, SMTT(40), <1>6 DEF add_queue
  <2>2. <<pid>> \o q \in Seq(Pids) /\ Entered(q, 0, pid, <<pid>> \o q)
    BY SMT, SMTT(40), <1>1 DEF Entered
  <2>3. 1 \in 1..Len(q) /\ q[1] < pid
    BY SMT, SMTT(40), <1>1, <1>6
  <2>4. \A k \in 1..Len(q) : q[k] < pid
    BY SMT, SMTT(40), <1>1, <1>3, <2>3
  <2>5. (\A k \in 1..0 : q[k] > pid) /\ (\A k \in (0 + 1)..Len(q) : q[k] < pid) /\ 0 \in 0..Len(q)
    BY SMT, SMTT(40), <1>1, <2>4
  <2> QED
    BY Zenon, <2>1, <2>2, <2>5
<1>7. CASE q # << >> /\ ~(Head(q) < pid)
  <2>1. PICK n \in 1..Len(q) : /\ n = LastGreater(q, pid)
                               /\ \A k \in 2..n : q[k] > pid
                               /\ n = Len(q) \/ q[n + 1] <= pid
    BY Zenon, <1>7, LastGreaterExists
  <2>2. add_queue(q, pid) = InsertAt(q, n + 1, pid)
    BY Zenon, SMTT(40), <1>7, <2>1 DEF add_queue
  <2>3. n \in 0..Len(q)
    BY SMT, SMTT(40), <1>1
  <2>4. InsertAt(q, n + 1, pid) \in Seq(Pids) /\ Entered(q, n, pid, InsertAt(q, n + 1, pid))
    BY Zenon, SMTT(40), <2>3, InsertAtEnters
  <2>5. ASSUME NEW k \in 1..n PROVE q[k] > pid
    <3>1. 1 \in 1..Len(q) /\ q[1] = Head(q)
      BY SMT, SMTT(40), <1>1, <1>7
    <3>2. q[1] > pid
      BY SMT, SMTT(40), <1>1, <1>2, <1>7, <3>1
    <3>3. k = 1 \/ k \in 2..n
      BY SMT, SMTT(40), <1>1
    <3> QED
      BY Zenon, SMTT(40), <2>1, <3>2, <3>3
  <2>6. ASSUME NEW k \in (n + 1)..Len(q) PROVE q[k] < pid
    <3>1. n + 1 \in 1..Len(q) /\ k \in 1..Len(q) /\ (k = n + 1 \/ n + 1 < k) /\ n # Len(q)
      <4>1. Len(q) \in Nat /\ n \in Nat /\ k \in Nat /\ 1 <= n /\ n + 1 <= k /\ k <= Len(q)
        BY SMT, SMTT(40), <1>1, <2>3
      <4> QED
        BY SMT, SMTT(40), <4>1
    <3>2. q[n + 1] < pid
      <4>1. q[n + 1] <= pid
        BY Zenon, <2>1, <3>1
      <4>2. q[n + 1] \in Nat /\ q[n + 1] # pid
        BY Zenon, <1>1, <1>2, <3>1
      <4> QED
        BY SMT, SMTT(40), <1>1, <4>1, <4>2
    <3>3. CASE n + 1 < k
      <4>1. q[n + 1] > q[k]
        BY Zenon, <1>3, <3>1, <3>3
      <4>2. q[n + 1] \in Nat /\ q[k] \in Nat
        BY Zenon, <1>1, <3>1
      <4> QED
        BY SMT, SMTT(40), <1>1, <3>2, <4>1, <4>2
    <3> QED
      BY Zenon, <3>1, <3>2, <3>3
  <2> QED
    BY Zenon, SMTT(40), <2>2, <2>3, <2>4, <2>5, <2>6
<1> QED
  BY Zenon, <1>5, <1>6, <1>7
-----------------------------------------------------------------------------
(***************************************************************************)
(* rm_queue().                                                             *)
(***************************************************************************)

\* rm_queue() of the pid at the head unlinks the head and nothing else.
THEOREM RmQueueCorrect ==
  ASSUME NEW q \in Seq(Pids), NEW pid \in Pids, Descending(q), q # << >>, Head(q) = pid
  PROVE  /\ rm_queue(q, pid) \in Seq(Pids)
         /\ Range(rm_queue(q, pid)) = Range(q) \ {pid}
         /\ Descending(rm_queue(q, pid))
<1>1. /\ Len(q) \in Nat \ {0} /\ DOMAIN q = 1..Len(q)
      /\ \A i \in 1..Len(q) : q[i] \in Nat
      /\ 1 \in 1..Len(q) /\ q[1] = pid
  BY SMT, SMTT(40), PidSeq
<1>2. \A i, j \in 1..Len(q) : i < j => q[i] > q[j]
  BY Zenon, SMTT(40), <1>1 DEF Descending
<1>3. rm_queue(q, pid) = RemoveAt(q, 1)
  <2> DEFINE I == {i \in 1..Len(q) : q[i] = pid}
  <2>1. 1 \in I /\ \A y \in I : 1 <= y /\ y \in Nat
    BY SMT, SMTT(40), <1>1
  <2>2. I # {} /\ Min(I) = 1
    <3> HIDE DEF I
    <3> QED
      BY SMT, SMTT(40), <2>1 DEF Min
  <2>3. SelectInSeq(q, LAMBDA v : v = pid) = IF I # {} THEN Min(I) ELSE 0
    BY Zenon DEF SelectInSeq
  <2>4. RemoveFirst(q, pid) = RemoveAt(q, SelectInSeq(q, LAMBDA v : v = pid))
    BY <1>1, Zenon DEF RemoveFirst
  <2> QED
    BY <2>2, <2>3, <2>4, Zenon DEF rm_queue
<1>4. RemoveAt(q, 1) = Tail(q)
  <2>1. SubSeq(q, 1, 0) = << >> /\ 1 - 1 = 0 /\ 1 + 1 = 2
    BY SMT, SMTT(40), SubSeqEmpty
  <2>2. SubSeq(q, 2, Len(q)) = Tail(q) /\ Tail(q) \in Seq(Pids)
    BY Zenon, SMTT(40), TailIsSubSeq, HeadTailProperties
  <2>3. << >> \o Tail(q) = Tail(q)
    BY Zenon, <2>2, ConcatEmptySeq
  <2> QED
    BY Zenon, <2>1, <2>2, <2>3 DEF RemoveAt
<1>5. PICK r \in Seq(Pids) : /\ r = Tail(q) /\ Len(r) = Len(q) - 1
                             /\ \A i \in 1..Len(r) : r[i] = q[i + 1]
  BY Zenon, HeadTailProperties
<1>6. DOMAIN r = 1..Len(r)
  BY SMT, SMTT(40)
<1>7. \A i \in 1..Len(r) : i + 1 \in 1..Len(q) /\ r[i] = q[i + 1] /\ r[i] # pid
  BY SMT, SMTT(40), <1>1, <1>2, <1>5
<1>8. ASSUME NEW i \in 1..Len(q), q[i] # pid PROVE q[i] \in Range(r)
  <2>1. i - 1 \in 1..Len(r) /\ (i - 1) + 1 = i
    BY SMT, SMTT(40), <1>1, <1>5, <1>8
  <2>2. r[i - 1] = q[i]
    BY Zenon, <1>7, <2>1
  <2> QED
    BY Zenon, SMTT(40), <1>6, <2>1, <2>2 DEF Range
<1>9. Range(r) = Range(q) \ {pid}
  <2>1. Range(q) \ {pid} \subseteq Range(r)
    BY Zenon, <1>1, <1>8 DEF Range
  <2>2. Range(r) \subseteq Range(q) \ {pid}
    BY SMT, SMTT(40), <1>1, <1>6, <1>7 DEF Range
  <2> QED
    BY Zenon, <2>1, <2>2
<1>10. Descending(r)
  <2>1. ASSUME NEW i \in 1..Len(r), NEW j \in 1..Len(r), i < j PROVE r[i] > r[j]
    BY SMT, SMTT(40), <1>1, <1>2, <1>5, <1>7, <2>1
  <2> QED
    BY Zenon, <1>6, <2>1 DEF Descending
<1> QED
  BY ZenonT(60), <1>3, <1>4, <1>5, <1>9, <1>10
-----------------------------------------------------------------------------
(***************************************************************************)
(* The inductive invariant.                                                *)
(***************************************************************************)

\* p is recorded in lk->cpu as the holder of the lock l.
Recorded(p, l) ==
  \/ l = "lock" /\ pc[p] \in {"crit", "upd"}
  \/ l = "queue_lock" /\ pc[p] \in {"add", "try"}
  \/ pc[p] = "rel" /\ arg[p] = l

\* What a thread has called, and where it will return to.
ContOK(p) ==
  /\ pc[p] \in {"spin", "rec"} => cont[p] \in {"add", "try"}
  /\ Releasing(p, "lock") => cont[p] = "idle"
  /\ Releasing(p, "queue_lock") => cont[p] \in {"loop", "own"}

\* The CPUs: a CPU runs at most one thread; an idle CPU has interrupts on; the
\* nesting depth is that of the running thread, which had interrupts on before.
CpuInv ==
  /\ \A p, q \in Pids : p # q /\ on[p] = on[q] => on[p] = NoCPU
  /\ PinnedWhileInside
  /\ \A c \in CPUs : (\A p \in Pids : on[p] # c) => ncli[c] = 0 /\ fl_if[c] = 1
  /\ \A p \in Pids : on[p] # NoCPU /\ Depth(p) > 0 => intena[on[p]] = 1

\* The locks: locked is set exactly while somebody is between the xchg and the
\* store, and cpu names the CPU of the holder exactly while it is recorded.
LockInv ==
  /\ MutualExclusion
  /\ locked["lock"] = 1 <=> \E p \in Pids : Owns(p)
  /\ locked["queue_lock"] = 1 <=> \E p \in Pids : OwnsQueue(p)
  /\ \A p \in Pids, l \in Locks : Recorded(p, l) => lkcpu[l] = on[p]
  /\ \A l \in Locks : lkcpu[l] # NoCPU => \E p \in Pids : Recorded(p, l)
  /\ \A p \in Pids : ContOK(p)

\* The inductive invariant.
IInv ==
  /\ TypeOK
  /\ NoPanic
  /\ CpuInv
  /\ LockInv
  /\ QueueExact
  /\ \A p \in Pids : pc[p] = "upd" => tmp[p] = sum

USE DEF Labels

\* The list stays exact while nobody begins or ceases to wait.
LEMMA QueueFrame ==
  ASSUME QueueExact, queue' = queue, \A q \in Pids : Waiting(q)' <=> Waiting(q)
  PROVE  QueueExact'
BY SMT, SMTT(40) DEF QueueExact

\* The state after p_initlock(), with every thread outside aq, satisfies it.
LEMMA InitIInv == Init => IInv
<1> SUFFICES ASSUME Init PROVE IInv
  BY Zenon
<1> USE NoCPUAssumption, LocksAssumption DEF Init, SpinInit
<1>1. TypeOK
  <2>1. SpinTypeOK
    BY SMT, SMTT(40) DEF SpinTypeOK
  <2>2. arg \in [Pids -> Locks]
    BY SMT, SMTT(40)
  <2> QED
    BY SMT, SMTT(40), <2>1, <2>2 DEF TypeOK
<1>2. CpuInv
  BY Zenon, SMTT(40) DEF CpuInv, PinnedWhileInside, Depth
<1>3. LockInv
  BY SMT, SMTT(40) DEF LockInv, MutualExclusion, Owns, OwnsQueue, Releasing, Recorded, ContOK
<1>4. QueueExact
  BY SMT, SMTT(40) DEF QueueExact, Range, Waiting, Releasing
<1> QED
  BY Zenon, <1>1, <1>2, <1>3, <1>4 DEF IInv, NoPanic

\* Clearing lk->cpu in release() keeps the part of the invariant about the locks.
LEMMA ClearedLockInv ==
  ASSUME NEW p \in Pids, LockInv,
         pc \in [Pids -> Labels], arg \in [Pids -> Locks],
         lkcpu \in [Locks -> CPUs \cup {NoCPU}],
         pc[p] = "rel", pc' = [pc EXCEPT ![p] = "store"],
         lkcpu' = [lkcpu EXCEPT ![arg[p]] = NoCPU],
         UNCHANGED <<locked, on, cont, arg>>
  PROVE  LockInv'
<1>1. \A q \in Pids : pc'[q] = IF q = p THEN "store" ELSE pc[q]
  BY SMT, SMTT(40)
<1>2. \A l \in Locks : ~Recorded(p, l)'
  BY Zenon, SMTT(40) DEF Recorded
<1>3. \A q \in Pids, l \in Locks : q # p => (Recorded(q, l)' <=> Recorded(q, l))
  BY DEF Recorded
<1>4. \A q \in Pids : q # p => ~Recorded(q, arg[p])
  <2>1. CASE arg[p] = "lock"
    BY SMT, SMTT(40), <2>1 DEF LockInv, MutualExclusion, Owns, Releasing, Recorded
  <2>2. CASE arg[p] = "queue_lock"
    BY SMT, SMTT(40), <2>2 DEF LockInv, MutualExclusion, OwnsQueue, Releasing, Recorded
  <2> QED
    BY ZenonT(60), <2>1, <2>2, LocksAssumption
<1>5. MutualExclusion'
  BY SMT, SMTT(40), <1>1 DEF LockInv, MutualExclusion, Owns, OwnsQueue, Releasing
<1>6. /\ (locked["lock"] = 1 <=> \E q \in Pids : Owns(q))'
      /\ (locked["queue_lock"] = 1 <=> \E q \in Pids : OwnsQueue(q))'
  <2>1. (locked["lock"] = 1 <=> \E q \in Pids : Owns(q))'
    BY Zenon, <1>1 DEF LockInv, Owns, Releasing
  <2>2. (locked["queue_lock"] = 1 <=> \E q \in Pids : OwnsQueue(q))'
    BY Zenon, <1>1 DEF LockInv, OwnsQueue, Releasing
  <2> QED
    BY Zenon, <2>1, <2>2
<1>7. (\A q \in Pids : ContOK(q))'
  BY Zenon, <1>1 DEF LockInv, ContOK, Releasing
<1>8. (\A q \in Pids, l \in Locks : Recorded(q, l) => lkcpu[l] = on[q])'
  BY SMT, SMTT(40), <1>2, <1>3, <1>4 DEF LockInv
<1>9. ASSUME NEW l \in Locks, lkcpu'[l] # NoCPU PROVE \E q \in Pids : Recorded(q, l)'
  <2>1. l # arg[p] /\ lkcpu[l] # NoCPU
    BY Zenon, <1>9
  <2>2. PICK q \in Pids : Recorded(q, l)
    BY Zenon, <2>1 DEF LockInv
  <2>3. q # p
    BY ZenonT(60), <2>1, <2>2 DEF Recorded
  <2> QED
    BY Zenon, <1>3, <2>2, <2>3
<1> QED
  BY ZenonT(60), <1>5, <1>6, <1>7, <1>8, <1>9 DEF LockInv

\* Every step of prior_acquire(), p_release(), add_queue(), rm_queue(), of the
\* timer and of the scheduler preserves it.
LEMMA NextIInv == IInv /\ [Next]_vars => IInv'
<1> SUFFICES ASSUME IInv, [Next]_vars PROVE IInv'
  BY Zenon, SMTT(40)
<1> USE NoCPUAssumption, LocksAssumption DEF IInv, Running, Goto
<1>1. ASSUME NEW p \in Pids, PriorAcquire(p) PROVE IInv'
  <2> USE <1>1 DEF PriorAcquire, prior_pushcli, pushcli, holding, panic
  <2>1. TypeOK'
    <3>1. on[p] \in CPUs /\ ncli[on[p]] \in Nat /\ fl_if[on[p]] \in {0, 1}
      BY SMT, SMTT(40) DEF TypeOK, SpinTypeOK
    <3>2. ncli' \in [CPUs -> Int] /\ \A c \in CPUs : ncli'[c] >= 0
      BY SMT, SMTT(40), <3>1 DEF TypeOK, SpinTypeOK
    <3>3. intena' \in [CPUs -> {0, 1}]
      BY Zenon, <3>1 DEF TypeOK, SpinTypeOK
    <3>4. fl_if' \in [CPUs -> {0, 1}]
      BY Zenon, <3>1 DEF TypeOK, SpinTypeOK
    <3>5. panicked' \in Panics \cup {"none"}
      BY Zenon DEF TypeOK, SpinTypeOK, Panics
    <3> QED
      BY SMT, SMTT(40), <3>2, <3>3, <3>4, <3>5 DEF TypeOK, SpinTypeOK
  <2>2. NoPanic'
    BY SMT, SMTT(40) DEF NoPanic, TypeOK, SpinTypeOK, CpuInv, PinnedWhileInside, Depth, LockInv,
       Recorded, Releasing, ContOK
  <2>3. CpuInv'
    BY SMT, SMTT(40) DEF TypeOK, SpinTypeOK, CpuInv, PinnedWhileInside, Depth, LockInv, ContOK, Releasing
  <2>4. LockInv'
    <3> USE DEF TypeOK, LockInv, Recorded, Releasing, ContOK, MutualExclusion, Owns, OwnsQueue
    <3>1. MutualExclusion'
      BY SMT, SMTT(40)
    <3>2. (locked["lock"] = 1 <=> \E q \in Pids : Owns(q))'
      BY SMT, SMTT(40)
    <3>3. (locked["queue_lock"] = 1 <=> \E q \in Pids : OwnsQueue(q))'
      BY SMT, SMTT(40)
    <3>4. (\A q \in Pids, l \in Locks : Recorded(q, l) => lkcpu[l] = on[q])'
      BY SMT, SMTT(40)
    <3>5. (\A l \in Locks : lkcpu[l] # NoCPU => \E q \in Pids : Recorded(q, l))'
      BY SMT, SMTT(40)
    <3>6. (\A q \in Pids : ContOK(q))'
      BY SMT, SMTT(40)
    <3> QED
      BY Zenon, SMTT(40), <3>1, <3>2, <3>3, <3>4, <3>5, <3>6
  <2>5. QueueExact'
    <3>1. \A q \in Pids : Waiting(q)' <=> Waiting(q)
      BY Zenon, SMTT(40) DEF TypeOK, Waiting, Releasing, LockInv, ContOK
    <3>2. queue' = queue
      BY Zenon, SMTT(40)
    <3> QED
      BY Zenon, <3>1, <3>2, QueueFrame
  <2>6. \A q \in Pids : pc'[q] = "upd" => tmp'[q] = sum'
    BY SMT, SMTT(40) DEF TypeOK, LockInv, MutualExclusion, Owns
  <2> QED
    BY ZenonT(60), <2>1, <2>2, <2>3, <2>4, <2>5, <2>6
<1>2. ASSUME NEW p \in Pids, AcquireEnter(p) PROVE IInv'
  <2> USE <1>2 DEF AcquireEnter, acquire_enter, pushcli, holding, panic
  <2>1. TypeOK'
    <3>1. on[p] \in CPUs /\ ncli[on[p]] \in Nat /\ fl_if[on[p]] \in {0, 1}
      BY SMT, SMTT(40) DEF TypeOK, SpinTypeOK
    <3>2. ncli' \in [CPUs -> Int] /\ \A c \in CPUs : ncli'[c] >= 0
      BY SMT, SMTT(40), <3>1 DEF TypeOK, SpinTypeOK
    <3>3. intena' \in [CPUs -> {0, 1}]
      BY Zenon, <3>1 DEF TypeOK, SpinTypeOK
    <3>4. fl_if' \in [CPUs -> {0, 1}]
      BY Zenon, <3>1 DEF TypeOK, SpinTypeOK
    <3>5. panicked' \in Panics \cup {"none"}
      BY Zenon DEF TypeOK, SpinTypeOK, Panics
    <3> QED
      BY ZenonT(60), <3>2, <3>3, <3>4, <3>5 DEF TypeOK, SpinTypeOK
  <2>2. NoPanic'
    BY SMT, SMTT(40) DEF NoPanic, TypeOK, SpinTypeOK, CpuInv, PinnedWhileInside, Depth, LockInv,
       Recorded, Releasing, ContOK
  <2>3. CpuInv'
    BY SMT, SMTT(40) DEF TypeOK, SpinTypeOK, CpuInv, PinnedWhileInside, Depth, LockInv, ContOK, Releasing
  <2>4. LockInv'
    <3> USE DEF TypeOK, LockInv, Recorded, Releasing, ContOK, MutualExclusion, Owns, OwnsQueue
    <3>1. MutualExclusion'
      BY SMT, SMTT(40)
    <3>2. (locked["lock"] = 1 <=> \E q \in Pids : Owns(q))'
      BY SMT, SMTT(40)
    <3>3. (locked["queue_lock"] = 1 <=> \E q \in Pids : OwnsQueue(q))'
      BY SMT, SMTT(40)
    <3>4. (\A q \in Pids, l \in Locks : Recorded(q, l) => lkcpu[l] = on[q])'
      BY SMT, SMTT(40)
    <3>5. (\A l \in Locks : lkcpu[l] # NoCPU => \E q \in Pids : Recorded(q, l))'
      BY SMT, SMTT(40)
    <3>6. (\A q \in Pids : ContOK(q))'
      BY SMT, SMTT(40)
    <3> QED
      BY Zenon, SMTT(40), <3>1, <3>2, <3>3, <3>4, <3>5, <3>6
  <2>5. QueueExact'
    <3>1. \A q \in Pids : Waiting(q)' <=> Waiting(q)
      BY Zenon DEF TypeOK, Waiting, Releasing, LockInv, ContOK
    <3>2. queue' = queue
      BY Zenon, SMTT(40)
    <3> QED
      BY Zenon, <3>1, <3>2, QueueFrame
  <2>6. \A q \in Pids : pc'[q] = "upd" => tmp'[q] = sum'
    BY SMT, SMTT(40) DEF TypeOK, LockInv, MutualExclusion, Owns
  <2> QED
    BY ZenonT(60), <2>1, <2>2, <2>3, <2>4, <2>5, <2>6
<1>3. ASSUME NEW p \in Pids, AcquireXchg(p) PROVE IInv'
  <2> USE <1>3 DEF AcquireXchg, acquire_xchg
  <2>1. TypeOK'
    BY Zenon DEF TypeOK, SpinTypeOK, Panics
  <2>2. NoPanic'
    BY Zenon DEF NoPanic, TypeOK, SpinTypeOK, CpuInv, PinnedWhileInside, Depth, LockInv,
       Recorded, Releasing, ContOK
  <2>3. CpuInv'
    BY SMT, SMTT(40) DEF TypeOK, SpinTypeOK, CpuInv, PinnedWhileInside, Depth, LockInv, ContOK, Releasing
  <2>4. LockInv'
    BY SMT, SMTT(40) DEF TypeOK, SpinTypeOK, CpuInv, PinnedWhileInside, Depth, LockInv,
       Recorded, Releasing, ContOK, MutualExclusion, Owns, OwnsQueue
  <2>5. QueueExact'
    <3>1. \A q \in Pids : Waiting(q)' <=> Waiting(q)
      BY DEF TypeOK, Waiting, Releasing, LockInv, ContOK
    <3>2. queue' = queue
      BY Zenon
    <3> QED
      BY Zenon, <3>1, <3>2, QueueFrame
  <2>6. \A q \in Pids : pc'[q] = "upd" => tmp'[q] = sum'
    BY SMT, SMTT(40) DEF TypeOK, LockInv, MutualExclusion, Owns
  <2> QED
    BY ZenonT(60), <2>1, <2>2, <2>3, <2>4, <2>5, <2>6
<1>4. ASSUME NEW p \in Pids, AcquireRecord(p) PROVE IInv'
  <2> USE <1>4 DEF AcquireRecord, acquire_record
  <2>1. TypeOK'
    BY SMT, SMTT(40) DEF TypeOK, SpinTypeOK, Panics
  <2>2. NoPanic'
    BY Zenon DEF NoPanic, TypeOK, SpinTypeOK, CpuInv, PinnedWhileInside, Depth, LockInv,
       Recorded, Releasing, ContOK
  <2>3. CpuInv'
    BY SMT, SMTT(40) DEF TypeOK, SpinTypeOK, CpuInv, PinnedWhileInside, Depth, LockInv, ContOK, Releasing
  <2>4. LockInv'
    <3> USE DEF TypeOK, LockInv, Recorded, Releasing, ContOK, MutualExclusion, Owns, OwnsQueue
    <3>1. MutualExclusion'
      BY SMT, SMTT(40)
    <3>2. (locked["lock"] = 1 <=> \E q \in Pids : Owns(q))'
      BY ZenonT(60)
    <3>3. (locked["queue_lock"] = 1 <=> \E q \in Pids : OwnsQueue(q))'
      OBVIOUS
    <3>4. (\A q \in Pids, l \in Locks : Recorded(q, l) => lkcpu[l] = on[q])'
      <4>1. ASSUME NEW q \in Pids, q # p PROVE ~Recorded(q, "queue_lock")'
        BY <4>1
      <4>2. lkcpu'["queue_lock"] = on'[p] /\ lkcpu'["lock"] = lkcpu["lock"]
        BY DEF SpinTypeOK
      <4>3. \A q \in Pids : Recorded(q, "lock")' => Recorded(q, "lock")
        BY ZenonT(60)
      <4> QED
        BY <4>1, <4>2, <4>3
    <3>5. (\A l \in Locks : lkcpu[l] # NoCPU => \E q \in Pids : Recorded(q, l))'
      BY SMT, SMTT(40)
    <3>6. (\A q \in Pids : ContOK(q))'
      BY SMTT(40)
    <3> QED
      BY Zenon, SMTT(40), <3>1, <3>2, <3>3, <3>4, <3>5, <3>6
  <2>5. QueueExact'
    <3>1. \A q \in Pids : Waiting(q)' <=> Waiting(q)
      BY Zenon DEF TypeOK, Waiting, Releasing, LockInv, ContOK
    <3>2. queue' = queue
      OBVIOUS
    <3> QED
      BY Zenon, <3>1, <3>2, QueueFrame
  <2>6. \A q \in Pids : pc'[q] = "upd" => tmp'[q] = sum'
    BY ZenonT(60) DEF TypeOK, LockInv, MutualExclusion, Owns
  <2> QED
    BY ZenonT(60), <2>1, <2>2, <2>3, <2>4, <2>5, <2>6
<1>5. ASSUME NEW p \in Pids, AddQueue(p) PROVE IInv'
  <2> USE <1>5 DEF AddQueue, CallRelease, spinVars
  <2>1. p \notin Range(queue) /\ Descending(queue) /\ queue \in Seq(Pids)
    BY Zenon DEF QueueExact, Waiting, Releasing, Descending, TypeOK
  <2>2. /\ queue' \in Seq(Pids) /\ Descending(queue')
        /\ Range(queue') = Range(queue) \cup {p}
    BY Zenon, <2>1, AddQueueCorrect
  <2>3. TypeOK'
    BY Zenon, <2>2 DEF TypeOK, SpinTypeOK
  <2>4. NoPanic'
    BY SMT, SMTT(40) DEF NoPanic
  <2>5. CpuInv'
    BY SMTT(40) DEF TypeOK, SpinTypeOK, CpuInv, PinnedWhileInside, Depth
  <2>6. LockInv'
    BY SMT, SMTT(40) DEF TypeOK, SpinTypeOK, LockInv, Recorded, Releasing, ContOK, MutualExclusion,
       Owns, OwnsQueue
  <2>7. QueueExact'
    <3>1. Waiting(p)' /\ \A q \in Pids : q # p => (Waiting(q)' <=> Waiting(q))
      BY Zenon, SMTT(40) DEF TypeOK, Waiting, Releasing
    <3>2. \A i, j \in DOMAIN queue' : i < j => queue'[i] > queue'[j]
      BY <2>2, Zenon DEF Descending
    <3> QED
      BY Zenon, SMTT(40), <2>2, <3>1, <3>2 DEF QueueExact
  <2>8. \A q \in Pids : pc'[q] = "upd" => tmp'[q] = sum'
    BY Zenon DEF TypeOK
  <2> QED
    BY ZenonT(60), <2>3, <2>4, <2>5, <2>6, <2>7, <2>8
<1>6. ASSUME NEW p \in Pids, TryLock(p) PROVE IInv'
  <2>1. p \in Range(queue) /\ Descending(queue) /\ queue \in Seq(Pids) /\ queue # << >>
    BY SMT, SMTT(40), <1>6 DEF TryLock, QueueExact, Waiting, Descending, TypeOK, Range
  <2>2. CASE ~MayTake(p)
    <3>0. /\ pc[p] = "try" /\ on[p] # NoCPU /\ panicked = "none"
          /\ pc' = [pc EXCEPT ![p] = "rel"]
          /\ arg' = [arg EXCEPT ![p] = "queue_lock"]
          /\ cont' = [cont EXCEPT ![p] = "loop"]
          /\ UNCHANGED <<spinVars, queue, on, sum, tmp, calls>>
      BY Zenon, <1>6, <2>2 DEF TryLock, CallRelease, spinVars
    <3> USE <3>0 DEF spinVars, TypeOK, SpinTypeOK
    <3>1. TypeOK'
      BY Zenon
    <3>2. NoPanic'
      BY SMT, SMTT(40) DEF NoPanic
    <3>3. CpuInv'
      BY SMT, SMTT(40) DEF CpuInv, PinnedWhileInside, Depth
    <3>4. LockInv'
      BY SMT, SMTT(40) DEF LockInv, Recorded, Releasing, ContOK, MutualExclusion, Owns, OwnsQueue
    <3>5. QueueExact'
      BY ZenonT(60) DEF QueueExact, Waiting, Releasing
    <3>6. \A q \in Pids : pc'[q] = "upd" => tmp'[q] = sum'
      BY Zenon
    <3> QED
      BY Zenon, SMTT(40), <3>1, <3>2, <3>3, <3>4, <3>5, <3>6
  <2>3. CASE MayTake(p)
    <3>0. /\ pc[p] = "try" /\ on[p] # NoCPU /\ panicked = "none"
          /\ pc' = [pc EXCEPT ![p] = "rel"]
          /\ arg' = [arg EXCEPT ![p] = "queue_lock"]
          /\ cont' = [cont EXCEPT ![p] = "own"]
          /\ locked["lock"] = 0 /\ locked' = [locked EXCEPT !["lock"] = 1]
          /\ UNCHANGED <<lkcpu, ncli, intena, fl_if, on, sum, tmp, calls>>
      BY Zenon, SMTT(40), <1>6, <2>3 DEF TryLock, CallRelease, MayTake
    <3>1. Head(queue) = p /\ queue' = rm_queue(queue, p)
      BY Zenon, <1>6, <2>3 DEF TryLock, MayTake
    <3>2. /\ queue' \in Seq(Pids) /\ Descending(queue')
          /\ Range(queue') = Range(queue) \ {p}
      BY Zenon, <2>1, <3>1, RmQueueCorrect
    <3>3. NoPanic'
      BY ZenonT(60), <1>6, <2>1, <2>3, <3>0 DEF TryLock, rm_queue_check, NoPanic
    <3> USE <3>0 DEF TypeOK, SpinTypeOK
    <3>4. TypeOK'
      BY Zenon, <3>2, <3>3 DEF NoPanic
    <3>5. CpuInv'
      BY SMT, SMTT(40) DEF CpuInv, PinnedWhileInside, Depth
    <3>6. LockInv'
      BY SMT, SMTT(40) DEF LockInv, Recorded, Releasing, ContOK, MutualExclusion, Owns, OwnsQueue
    <3>7. QueueExact'
      <4>1. ~Waiting(p)' /\ \A q \in Pids : q # p => (Waiting(q)' <=> Waiting(q))
        BY SMT, SMTT(40) DEF Waiting, Releasing
      <4> QED
        BY SMT, SMTT(40), <3>2, <4>1 DEF QueueExact, Descending
    <3>8. \A q \in Pids : pc'[q] = "upd" => tmp'[q] = sum'
      BY SMT, SMTT(40)
    <3> QED
      BY Zenon, SMTT(40), <3>3, <3>4, <3>5, <3>6, <3>7, <3>8
  <2> QED
    BY Zenon, SMTT(40), <2>2, <2>3
<1>7. ASSUME NEW p \in Pids, ReleaseClear(p) PROVE IInv'
  <2> USE <1>7 DEF ReleaseClear, release_clear, holding, panic
  <2>1. TypeOK'
    BY Zenon DEF TypeOK, SpinTypeOK, Panics
  <2>2. NoPanic'
    <3>1. lkcpu[arg[p]] = on[p]
      BY SMT, SMTT(40) DEF TypeOK, LockInv, Recorded
    <3>2. locked[arg[p]] = 1
      BY ZenonT(60) DEF TypeOK, LockInv, Owns, OwnsQueue, Releasing
    <3> QED
      BY ZenonT(60), <3>1, <3>2 DEF NoPanic
  <2>3. CpuInv'
    BY SMT, SMTT(40) DEF TypeOK, SpinTypeOK, CpuInv, PinnedWhileInside, Depth, LockInv, ContOK, Releasing
  <2>4. LockInv'
    <3>1. /\ pc[p] = "rel" /\ pc' = [pc EXCEPT ![p] = "store"]
          /\ lkcpu' = [lkcpu EXCEPT ![arg[p]] = NoCPU]
          /\ UNCHANGED <<locked, on, cont, arg>>
      BY Zenon, <2>2 DEF Goto, NoPanic
    <3>2. /\ pc \in [Pids -> Labels] /\ arg \in [Pids -> Locks]
          /\ lkcpu \in [Locks -> CPUs \cup {NoCPU}]
      BY Zenon DEF TypeOK, SpinTypeOK
    <3>3. LockInv
      BY Zenon, SMTT(40)
    <3> QED
      BY ONLY ZenonT(60), <3>1, <3>2, <3>3, ClearedLockInv
  <2>5. QueueExact'
    <3>1. \A q \in Pids : Waiting(q)' <=> Waiting(q)
      BY Zenon DEF TypeOK, Waiting, Releasing, LockInv, ContOK
    <3>2. queue' = queue
      BY Zenon
    <3> QED
      BY Zenon, <3>1, <3>2, QueueFrame
  <2>6. \A q \in Pids : pc'[q] = "upd" => tmp'[q] = sum'
    BY Zenon DEF TypeOK, LockInv, MutualExclusion, Owns
  <2> QED
    BY ZenonT(60), <2>1, <2>2, <2>3, <2>4, <2>5, <2>6
<1>8. ASSUME NEW p \in Pids, ReleaseStore(p) PROVE IInv'
  <2> USE <1>8 DEF ReleaseStore, release_store, popcli
  <2> DEFINE c == on[p]
  <2>1. c \in CPUs /\ ncli[c] \in {1, 2} /\ fl_if[c] = 0 /\ intena[c] = 1 /\ ncli[c] = Depth(p)
    BY SMT, SMTT(40) DEF TypeOK, SpinTypeOK, CpuInv, PinnedWhileInside, Depth
  <2>2. NoPanic'
    BY SMT, SMTT(40), <2>1 DEF popcli_check, NoPanic
  <2>3. /\ ncli' = [ncli EXCEPT ![c] = Depth(p) - 1]
        /\ fl_if' = [fl_if EXCEPT ![c] = IF Depth(p) = 1 THEN 1 ELSE 0]
        /\ intena' = intena
    BY Zenon, SMTT(40), <2>1 DEF TypeOK, SpinTypeOK
  <2>4. Depth(p)' = Depth(p) - 1
    <3> USE DEF TypeOK
    <3>1. CASE arg[p] = "lock"
      <4>1. pc'[p] = "idle"
        BY Zenon, SMTT(40), <3>1 DEF LockInv, ContOK, Releasing
      <4> QED
        BY SMT, SMTT(40), <3>1, <4>1 DEF Depth
    <3>2. CASE arg[p] = "queue_lock"
      <4>1. pc'[p] \in {"loop", "own"}
        BY Zenon, SMTT(40), <3>2 DEF LockInv, ContOK, Releasing
      <4>2. Depth(p)' = 1
        BY SMT, SMTT(40), <4>1 DEF Depth
      <4> QED
        BY SMT, SMTT(40), <3>2, <4>2 DEF Depth
    <3> QED
      BY Zenon, <3>1, <3>2
  <2>5. Depth(p) \in {1, 2} /\ \A q \in Pids : q # p => Depth(q)' = Depth(q) /\ on[q] # c
    BY Zenon, <2>1 DEF TypeOK, CpuInv, Depth
  <2>6. TypeOK'
    <3>1. pc' \in [Pids -> Labels]
      BY Zenon DEF TypeOK
    <3>2. SpinTypeOK'
      BY SMT, SMTT(40), <2>1, <2>2, <2>3, <2>5 DEF TypeOK, SpinTypeOK, NoPanic
    <3>3. \A d \in CPUs : ncli'[d] >= 0
      BY SMT, SMTT(40), <2>1, <2>3, <2>5 DEF TypeOK, SpinTypeOK
    <3> QED
      BY Zenon, SMTT(40), <3>1, <3>2, <3>3 DEF TypeOK
  <2>7. CpuInv'
    <3> USE DEF TypeOK, SpinTypeOK
    <3>1. ncli'[c] = Depth(p)' /\ (fl_if'[c] = 0 <=> Depth(p)' > 0)
      BY SMT, SMTT(40), <2>1, <2>3, <2>4, <2>5
    <3>2. \A d \in CPUs : d # c => ncli'[d] = ncli[d] /\ fl_if'[d] = fl_if[d]
      BY Zenon, <2>3
    <3>3. on' = on /\ intena' = intena /\ pc[p] # "idle" /\ \A q \in Pids : q # p => pc'[q] = pc[q]
      BY Zenon, SMTT(40), <2>3
    <3>4. PinnedWhileInside'
      BY SMT, SMTT(40), <2>1, <2>5, <3>1, <3>2, <3>3 DEF CpuInv, PinnedWhileInside
    <3>5. (\A d \in CPUs : (\A q \in Pids : on[q] # d) => ncli[d] = 0 /\ fl_if[d] = 1)'
      BY SMT, SMTT(40), <3>2, <3>3 DEF CpuInv
    <3>6. (\A q \in Pids : on[q] # NoCPU /\ Depth(q) > 0 => intena[on[q]] = 1)'
      <4>1. ASSUME NEW q \in Pids, on[q] # NoCPU, Depth(q)' > 0 PROVE intena[on[q]] = 1
        <5>1. CASE q = p
          BY Zenon, SMTT(40), <2>1, <5>1
        <5>2. CASE q # p
          <6>1. Depth(q) > 0
            BY ZenonT(60), <2>5, <4>1, <5>2
          <6> QED
            BY Zenon, SMTT(40), <4>1, <6>1 DEF CpuInv
        <5> QED
          BY ZenonT(60), <5>1, <5>2
      <4> QED
        BY ZenonT(60), <3>3, <4>1
    <3> QED
      BY SMT, SMTT(40), <3>3, <3>4, <3>5, <3>6 DEF CpuInv
  <2>8. LockInv'
    <3> USE DEF TypeOK, SpinTypeOK
    <3>1. CASE arg[p] = "lock"
      <4>1. MutualExclusion'
        BY SMT, SMTT(40), <3>1 DEF LockInv, Releasing, ContOK, MutualExclusion, Owns, OwnsQueue
      <4>2. locked'["lock"] = 1 <=> \E q \in Pids : Owns(q)'
        BY SMT, SMTT(40), <3>1 DEF LockInv, Releasing, ContOK, MutualExclusion, Owns
      <4>3. locked'["queue_lock"] = 1 <=> \E q \in Pids : OwnsQueue(q)'
        BY SMT, SMTT(40), <3>1 DEF LockInv, Releasing, ContOK, MutualExclusion, OwnsQueue
      <4>4. ASSUME NEW q \in Pids, NEW m \in Locks, Recorded(q, m)' PROVE lkcpu'[m] = on'[q]
        <5>1. pc'[p] \in {"idle"}
          BY Zenon, SMTT(40), <3>1 DEF LockInv, Releasing, ContOK
        <5>2. q # p
          BY Zenon, SMTT(40), <4>4, <5>1 DEF Recorded
        <5>3. Recorded(q, m)
          BY Zenon, SMTT(40), <4>4, <5>2 DEF Recorded
        <5> QED
          BY <5>3, Zenon DEF LockInv
      <4>5. \A m \in Locks : lkcpu'[m] # NoCPU => \E q \in Pids : Recorded(q, m)'
        BY SMT, SMTT(40), <3>1 DEF LockInv, Recorded
      <4>6. \A q \in Pids : ContOK(q)'
        BY Zenon, SMTT(40), <3>1 DEF LockInv, Releasing, ContOK
      <4> QED
        BY <4>1, <4>2, <4>3, <4>4, <4>5, <4>6, Zenon DEF LockInv
    <3>2. CASE arg[p] = "queue_lock"
      <4>1. MutualExclusion'
        BY SMT, SMTT(40), <3>2 DEF LockInv, Releasing, ContOK, MutualExclusion, Owns, OwnsQueue
      <4>2. locked'["lock"] = 1 <=> \E q \in Pids : Owns(q)'
        BY SMT, SMTT(40), <3>2 DEF LockInv, Releasing, ContOK, MutualExclusion, Owns
      <4>3. locked'["queue_lock"] = 1 <=> \E q \in Pids : OwnsQueue(q)'
        <5>1. pc'[p] \in {"loop", "own"} /\ OwnsQueue(p)
          BY Zenon, SMTT(40), <3>2 DEF LockInv, Releasing, ContOK, OwnsQueue
        <5>2. ~OwnsQueue(p)'
          BY Zenon, SMTT(40), <5>1 DEF OwnsQueue, Releasing
        <5>3. ASSUME NEW q \in Pids, q # p PROVE ~OwnsQueue(q)'
          <6>1. ~OwnsQueue(q)
            BY <5>1, <5>3, Zenon DEF LockInv, MutualExclusion
          <6> QED
            BY Zenon, SMTT(40), <5>3, <6>1 DEF OwnsQueue, Releasing
        <5>4. locked'["queue_lock"] = 0
          BY SMT, SMTT(40), <3>2
        <5> QED
          BY SMT, SMTT(40), <5>2, <5>3, <5>4
      <4>4. ASSUME NEW q \in Pids, NEW m \in Locks, Recorded(q, m)' PROVE lkcpu'[m] = on'[q]
        <5>1. pc'[p] \in {"loop", "own"}
          BY Zenon, SMTT(40), <3>2 DEF LockInv, Releasing, ContOK
        <5>2. q # p
          BY SMT, SMTT(40), <4>4, <5>1 DEF Recorded
        <5>3. Recorded(q, m)
          BY SMT, SMTT(40), <4>4, <5>2 DEF Recorded
        <5> QED
          BY <5>3, Zenon DEF LockInv
      <4>5. \A m \in Locks : lkcpu'[m] # NoCPU => \E q \in Pids : Recorded(q, m)'
        BY Zenon, SMTT(40), <3>2 DEF LockInv, Recorded
      <4>6. \A q \in Pids : ContOK(q)'
        BY SMT, SMTT(40), <3>2 DEF LockInv, Releasing, ContOK
      <4> QED
        BY <4>1, <4>2, <4>3, <4>4, <4>5, <4>6, Zenon DEF LockInv
    <3> QED
      BY ZenonT(60), <3>1, <3>2
  <2>9. QueueExact'
    <3>1. \A q \in Pids : Waiting(q)' <=> Waiting(q)
      BY Zenon DEF TypeOK, Waiting, Releasing, LockInv, ContOK
    <3>2. queue' = queue
      BY SMT, SMTT(40)
    <3> QED
      BY Zenon, <3>1, <3>2, QueueFrame
  <2>10. \A q \in Pids : pc'[q] = "upd" => tmp'[q] = sum'
    BY ZenonT(60) DEF TypeOK
  <2> QED
    BY Zenon, SMTT(40), <2>2, <2>6, <2>7, <2>8, <2>9, <2>10
<1>9. ASSUME NEW p \in Pids, RecordOwner(p) PROVE IInv'
  <2> USE <1>9 DEF RecordOwner, acquire_record
  <2>1. TypeOK'
    BY SMT, SMTT(40) DEF TypeOK, SpinTypeOK, Panics
  <2>2. NoPanic'
    BY Zenon, SMTT(40) DEF NoPanic, TypeOK, SpinTypeOK, CpuInv, PinnedWhileInside, Depth, LockInv,
       Recorded, Releasing, ContOK
  <2>3. CpuInv'
    BY SMT, SMTT(40) DEF TypeOK, SpinTypeOK, CpuInv, PinnedWhileInside, Depth, LockInv, ContOK, Releasing
  <2>4. LockInv'
    BY SMT, SMTT(40) DEF TypeOK, SpinTypeOK, CpuInv, PinnedWhileInside, Depth, LockInv,
       Recorded, Releasing, ContOK, MutualExclusion, Owns, OwnsQueue
  <2>5. QueueExact'
    <3>1. \A q \in Pids : Waiting(q)' <=> Waiting(q)
      BY Zenon DEF TypeOK, Waiting, Releasing, LockInv, ContOK
    <3>2. queue' = queue
      BY Zenon, SMTT(40)
    <3> QED
      BY Zenon, <3>1, <3>2, QueueFrame
  <2>6. \A q \in Pids : pc'[q] = "upd" => tmp'[q] = sum'
    BY SMT, SMTT(40) DEF TypeOK, LockInv, MutualExclusion, Owns
  <2> QED
    BY ZenonT(60), <2>1, <2>2, <2>3, <2>4, <2>5, <2>6
<1>10. ASSUME NEW p \in Pids, DoTempRead(p) PROVE IInv'
  <2> USE <1>10 DEF DoTempRead, spinVars
  <2>1. TypeOK'
    BY Zenon DEF TypeOK, SpinTypeOK, Panics
  <2>2. NoPanic'
    BY Zenon DEF NoPanic, TypeOK, SpinTypeOK, CpuInv, PinnedWhileInside, Depth, LockInv,
       Recorded, Releasing, ContOK
  <2>3. CpuInv'
    BY SMT, SMTT(40) DEF TypeOK, SpinTypeOK, CpuInv, PinnedWhileInside, Depth, LockInv, ContOK, Releasing
  <2>4. LockInv'
    BY SMT, SMTT(40) DEF TypeOK, SpinTypeOK, CpuInv, PinnedWhileInside, Depth, LockInv,
       Recorded, Releasing, ContOK, MutualExclusion, Owns, OwnsQueue
  <2>5. QueueExact'
    <3>1. \A q \in Pids : Waiting(q)' <=> Waiting(q)
      BY Zenon DEF TypeOK, Waiting, Releasing, LockInv, ContOK
    <3>2. queue' = queue
      BY Zenon
    <3> QED
      BY Zenon, <3>1, <3>2, QueueFrame
  <2>6. \A q \in Pids : pc'[q] = "upd" => tmp'[q] = sum'
    BY SMT, SMTT(40) DEF TypeOK, LockInv, MutualExclusion, Owns
  <2> QED
    BY ZenonT(60), <2>1, <2>2, <2>3, <2>4, <2>5, <2>6
<1>11. ASSUME NEW p \in Pids, DoTempWrite(p) PROVE IInv'
  <2> USE <1>11 DEF DoTempWrite, CallRelease, spinVars
  <2>1. TypeOK'
    BY SMT, SMTT(40) DEF TypeOK, SpinTypeOK, Panics
  <2>2. NoPanic'
    BY Zenon, SMTT(40) DEF NoPanic, TypeOK, SpinTypeOK, CpuInv, PinnedWhileInside, Depth, LockInv,
       Recorded, Releasing, ContOK
  <2>3. CpuInv'
    BY SMT, SMTT(40) DEF TypeOK, SpinTypeOK, CpuInv, PinnedWhileInside, Depth, LockInv, ContOK, Releasing
  <2>4. LockInv'
    BY SMT, SMTT(40) DEF TypeOK, SpinTypeOK, CpuInv, PinnedWhileInside, Depth, LockInv,
       Recorded, Releasing, ContOK, MutualExclusion, Owns, OwnsQueue
  <2>5. QueueExact'
    <3>1. \A q \in Pids : Waiting(q)' <=> Waiting(q)
      BY Zenon DEF TypeOK, Waiting, Releasing, LockInv, ContOK
    <3>2. queue' = queue
      BY Zenon
    <3> QED
      BY Zenon, <3>1, <3>2, QueueFrame
  <2>6. \A q \in Pids : pc'[q] = "upd" => tmp'[q] = sum'
    BY Zenon, SMTT(40) DEF TypeOK, LockInv, MutualExclusion, Owns
  <2> QED
    BY ZenonT(60), <2>1, <2>2, <2>3, <2>4, <2>5, <2>6
<1>12. ASSUME NEW p \in Pids, Preempt(p) PROVE IInv'
  <2> USE <1>12 DEF Preempt, spinVars
  <2>1. TypeOK'
    BY SMT, SMTT(40) DEF TypeOK, SpinTypeOK, Panics
  <2>2. NoPanic'
    BY Zenon DEF NoPanic, TypeOK, SpinTypeOK, CpuInv, PinnedWhileInside, Depth, LockInv,
       Recorded, Releasing, ContOK
  <2>3. CpuInv'
    BY SMT, SMTT(40) DEF TypeOK, SpinTypeOK, CpuInv, PinnedWhileInside, Depth, LockInv, ContOK, Releasing
  <2>4. LockInv'
    BY SMT, SMTT(40) DEF TypeOK, SpinTypeOK, CpuInv, PinnedWhileInside, Depth, LockInv,
       Recorded, Releasing, ContOK, MutualExclusion, Owns, OwnsQueue
  <2>5. QueueExact'
    <3>1. \A q \in Pids : Waiting(q)' <=> Waiting(q)
      BY Zenon DEF TypeOK, Waiting, Releasing, LockInv, ContOK
    <3>2. queue' = queue
      BY Zenon
    <3> QED
      BY Zenon, <3>1, <3>2, QueueFrame
  <2>6. \A q \in Pids : pc'[q] = "upd" => tmp'[q] = sum'
    BY SMT, SMTT(40) DEF TypeOK, LockInv, MutualExclusion, Owns
  <2> QED
    BY ZenonT(60), <2>1, <2>2, <2>3, <2>4, <2>5, <2>6
<1>13. ASSUME NEW p \in Pids, NEW c \in CPUs, Dispatch(p, c) PROVE IInv'
  <2> USE <1>13 DEF Dispatch, spinVars
  <2>1. TypeOK'
    BY SMT, SMTT(40) DEF TypeOK, SpinTypeOK, Panics
  <2>2. NoPanic'
    BY SMT, SMTT(40) DEF NoPanic, TypeOK, SpinTypeOK, CpuInv, PinnedWhileInside, Depth, LockInv,
       Recorded, Releasing, ContOK
  <2>3. CpuInv'
    BY SMT, SMTT(40) DEF TypeOK, SpinTypeOK, CpuInv, PinnedWhileInside, Depth, LockInv, ContOK, Releasing
  <2>4. LockInv'
    BY SMT, SMTT(40) DEF TypeOK, SpinTypeOK, CpuInv, PinnedWhileInside, Depth, LockInv,
       Recorded, Releasing, ContOK, MutualExclusion, Owns, OwnsQueue
  <2>5. QueueExact'
    <3>1. \A q \in Pids : Waiting(q)' <=> Waiting(q)
      BY Zenon DEF TypeOK, Waiting, Releasing, LockInv, ContOK
    <3>2. queue' = queue
      BY Zenon
    <3> QED
      BY Zenon, <3>1, <3>2, QueueFrame
  <2>6. \A q \in Pids : pc'[q] = "upd" => tmp'[q] = sum'
    BY Zenon DEF TypeOK, LockInv, MutualExclusion, Owns
  <2> QED
    BY ZenonT(60), <2>1, <2>2, <2>3, <2>4, <2>5, <2>6
<1>14. CASE UNCHANGED vars
  BY SMT, SMTT(40), <1>14 DEF vars, spinVars, threadVars, TypeOK, SpinTypeOK, NoPanic, CpuInv,
     PinnedWhileInside, Depth, LockInv, MutualExclusion, Owns, OwnsQueue, Releasing,
     Recorded, ContOK, QueueExact, Waiting
<1> QED
  BY SMT, SMTT(40), <1>1, <1>2, <1>3, <1>4, <1>5, <1>6, <1>7, <1>8, <1>9, <1>10, <1>11, <1>12,
     <1>13, <1>14 DEF Next, ThreadStep, Finished

\* So it holds in every reachable state of the priority lock.
LEMMA SpecIInv == Spec => []IInv
BY InitIInv, NextIInv, PTL DEF Spec
-----------------------------------------------------------------------------
(***************************************************************************)
(* The theorems.                                                           *)
(***************************************************************************)

\* The variables always have their types; in particular no CPU's count of
\* pushcli() calls goes below zero and the list holds pids only.
THEOREM TypeCorrect == Spec => []TypeOK
<1>1. IInv => TypeOK
  BY Zenon, SMTT(40) DEF IInv
<1> QED
  BY <1>1, SpecIInv, PTL

\* With any number of CPUs and threads, at most one thread is between the xchg
\* in prior_acquire() and the store in p_release(), and at most one holds
\* queue_lock.
THEOREM Exclusion == Spec => []MutualExclusion
<1>1. IInv => MutualExclusion
  BY Zenon DEF IInv, LockInv
<1> QED
  BY <1>1, SpecIInv, PTL

\* No panic of acquire(), release(), popcli() or rm_queue() is reachable from
\* the aq system call.
THEOREM PanicFree == Spec => []NoPanic
<1>1. IInv => NoPanic
  BY Zenon, SMTT(40) DEF IInv
<1> QED
  BY <1>1, SpecIInv, PTL

\* A thread that polls for the lock, or holds it, keeps its CPU, with the
\* nesting depth and the interrupt flag that its place in the code calls for.
THEOREM Pinned == Spec => []PinnedWhileInside
<1>1. IInv => PinnedWhileInside
  BY Zenon, SMTT(40) DEF IInv, CpuInv
<1> QED
  BY <1>1, SpecIInv, PTL

\* However threads come and go, the linked list is exactly the set of waiting
\* threads in descending order of their pids.
THEOREM QueueCorrect == Spec => []QueueExact
<1>1. IInv => QueueExact
  BY SMT, SMTT(40) DEF IInv
<1> QED
  BY <1>1, SpecIInv, PTL

\* The lock always goes to the highest pid in the queue: only the test of the
\* loop makes a thread the owner, it asks for the head, and the list descends.
THEOREM ServedByPriority == Spec => HighestPidFirst
<1> DEFINE Served == \A p \in Pids : ~Owns(p) /\ Owns(p)' =>
                       \A q \in Pids : Waiting(q) => q <= p
<1>1. IInv /\ [Next]_vars => [Served]_vars
  <2> SUFFICES ASSUME IInv, [Next]_vars, NEW p \in Pids, ~Owns(p), Owns(p)',
                      NEW q \in Pids, Waiting(q)
               PROVE  q <= p
    BY Zenon DEF vars
  <2>1. TryLock(p) /\ MayTake(p)
    <3>0. /\ pc \in [Pids -> Labels] /\ arg \in [Pids -> {"lock", "queue_lock"}]
          /\ cont \in [Pids -> {"idle", "add", "try", "loop", "own"}]
          /\ \A r \in Pids : ContOK(r)
      <4>1. /\ pc \in [Pids -> Labels] /\ arg \in [Pids -> Locks]
            /\ cont \in [Pids -> {"idle", "add", "try", "loop", "own"}]
            /\ \A r \in Pids : ContOK(r)
        BY ZenonT(60) DEF IInv, TypeOK, LockInv
      <4> QED
        BY Zenon, <4>1, LocksAssumption
    <3>1. ASSUME NEW r \in Pids, ThreadStep(r), ~(TryLock(r) /\ MayTake(r)) PROVE FALSE
      <4> USE <3>0 DEF Owns, Releasing, ContOK, Goto
      <4>1. CASE PriorAcquire(r)
        BY Zenon, <4>1 DEF PriorAcquire
      <4>2. CASE AcquireEnter(r)
        BY Zenon, <4>2 DEF AcquireEnter
      <4>3. CASE AcquireXchg(r)
        BY Zenon, <4>3 DEF AcquireXchg
      <4>4. CASE AcquireRecord(r)
        BY Zenon, <4>4 DEF AcquireRecord
      <4>5. CASE AddQueue(r)
        BY Zenon, <4>5 DEF AddQueue, CallRelease
      <4>6. CASE TryLock(r)
        <5>1. /\ pc[r] = "try" /\ pc' = [pc EXCEPT ![r] = "rel"]
              /\ arg' = [arg EXCEPT ![r] = "queue_lock"]
              /\ cont' = [cont EXCEPT ![r] = "loop"]
          BY Zenon, <3>1, <4>6 DEF TryLock, CallRelease
        <5> QED
          BY Zenon, SMTT(40), <5>1
      <4>7. CASE ReleaseClear(r)
        BY Zenon, <4>7 DEF ReleaseClear
      <4>8. CASE ReleaseStore(r)
        BY Zenon, <4>8 DEF ReleaseStore
      <4>9. CASE RecordOwner(r)
        BY Zenon, <4>9 DEF RecordOwner
      <4>10. CASE DoTempRead(r)
        BY Zenon, <4>10 DEF DoTempRead
      <4>11. CASE DoTempWrite(r)
        BY Zenon, <4>11 DEF DoTempWrite, CallRelease
      <4> QED
        BY ZenonT(60), <3>1, <4>1, <4>2, <4>3, <4>4, <4>5, <4>6, <4>7, <4>8, <4>9, <4>10, <4>11
           DEF ThreadStep
    <3>2. ASSUME NEW r \in Pids, TryLock(r), MayTake(r), r # p PROVE FALSE
      <4>1. /\ pc' = [pc EXCEPT ![r] = "rel"]
            /\ arg' = [arg EXCEPT ![r] = "queue_lock"]
            /\ cont' = [cont EXCEPT ![r] = "own"]
        BY Zenon, <3>2 DEF TryLock, CallRelease, Goto
      <4> QED
        BY Zenon, <3>0, <3>2, <4>1 DEF Owns, Releasing
    <3>3. ASSUME NEW r \in Pids, Preempt(r) PROVE FALSE
      BY Zenon, SMTT(40), <3>3 DEF Preempt, Owns, Releasing
    <3>4. ASSUME NEW r \in Pids, NEW c \in CPUs, Dispatch(r, c) PROVE FALSE
      BY Zenon, <3>4 DEF Dispatch, Owns, Releasing
    <3>5. CASE UNCHANGED vars
      BY SMT, SMTT(40), <3>5 DEF vars, threadVars, Owns, Releasing
    <3> QED
      BY Zenon, SMTT(40), <3>1, <3>2, <3>3, <3>4, <3>5 DEF Next, Finished
  <2> USE DEF IInv, TypeOK
  <2>2. q \in Range(queue) /\ Head(queue) = p /\ Descending(queue)
    BY Zenon, SMTT(40), <2>1 DEF MayTake, QueueExact, Descending
  <2>3. PICK i \in 1..Len(queue) : queue[i] = q
    BY SMT, SMTT(40), <2>2 DEF Range
  <2>4. 1 \in 1..Len(queue) /\ queue[1] = p /\ DOMAIN queue = 1..Len(queue)
    BY SMT, SMTT(40), <2>2, <2>3
  <2>5. i = 1 \/ 1 < i
    BY SMT, SMTT(40)
  <2>6. q = p \/ p > q
    BY ZenonT(60), <2>2, <2>3, <2>4, <2>5 DEF Descending
  <2> QED
    BY SMT, SMTT(40), <2>6, PidsAssumption
<1> QED
  BY <1>1, SpecIInv, PTL DEF Spec, HighestPidFirst
=============================================================================
