---------------------------- MODULE ConsoleProofs ----------------------------
(***************************************************************************)
(* Proofs about Console, for any readers, any size of the ring and any     *)
(* WRAP that is a larger multiple of it, any keys and any number of them:  *)
(* the ring implements the line editor, nobody sleeps over a line that is  *)
(* ready, a full ring has been handed over, and an end of file is kept.    *)
(***************************************************************************)
EXTENDS Console, SequenceTheorems, TLAPS

\* The k characters of the ring b from the one that counter x stands for.
Seg(b, x, k) == [i \in 1..k |-> b[(x + i - 1) % INPUT_BUF]]

\* The lines that can be read and the line being typed, and their lengths.
R == Between(r, w)
L == Between(w, e)
Ready == Seg(buf, r, R)
Line == Seg(buf, w, L)

Chars == {"a", "nl", "D"}
PCs == {"idle", "reading", "sleep", "asleep"}
-----------------------------------------------------------------------------
(***************************************************************************)
(* The inductive invariant.                                                *)
(***************************************************************************)
Types ==
  /\ clock \in Readers \cup {"free", "intr"}
  /\ buf \in [0..(INPUT_BUF - 1) -> Keys]
  /\ r \in 0..(WRAP - 1) /\ w \in 0..(WRAP - 1) /\ e \in 0..(WRAP - 1)
  /\ pc \in [Readers -> PCs]
  /\ n \in [Readers -> Nat] /\ target \in [Readers -> Nat]
  /\ got \in [Readers -> Seq(Keys)]
  /\ killed \in [Readers -> {0, 1}]

\* r, w and e follow each other within a ring, and a full ring ends the line.
Ring == R + L <= INPUT_BUF /\ (R + L = INPUT_BUF => L = 0)

\* The line being typed has no character yet that ends it.
Contents == Ready \in Seq(Chars) /\ Line \in Seq({"a"})

\* Who has cons.lock, and what a process that sleeps has found.
Control ==
  \A p \in Readers :
    /\ clock = p => pc[p] \in {"reading", "sleep"}
    /\ pc[p] = "sleep" => clock = p /\ r = w
    /\ pc[p] = "asleep" => r = w

\* n counts down from target what got counts up.
CallOf(p) ==
  IF pc[p] = "idle" THEN got[p] = << >> ELSE n[p] >= 1 /\ Len(got[p]) + n[p] = target[p]

Calls == \A p \in Readers : CallOf(p)

IInv == ConsoleConstants /\ Types /\ Ring /\ Contents /\ Control /\ Calls
-----------------------------------------------------------------------------
(***************************************************************************)
(* Counters that wrap.                                                     *)
(***************************************************************************)

\* Quotient and remainder give the number back.
LEMMA Division ==
  ASSUME NEW x \in Int, NEW m \in Nat \ {0}
  PROVE  x % m \in 0..(m - 1) /\ x \div m \in Int /\ x = m * (x \div m) + (x % m)
BY SMT

\* The remainder is the only number in range that differs by a multiple.
LEMMA Remainder ==
  ASSUME NEW m \in Nat \ {0}, NEW q \in Int, NEW s \in 0..(m - 1)
  PROVE  (m * q + s) % m = s
BY SMT

\* A multiple more does not change the remainder.
LEMMA Multiple ==
  ASSUME NEW x \in Int, NEW m \in Nat \ {0}, NEW q \in Int
  PROVE  (x + m * q) % m = x % m
<1>. DEFINE d == x \div m  s == x % m
<1>1. s \in 0..(m - 1) /\ d \in Int /\ x = m * d + s
  BY Division
<1>. HIDE DEF d, s
<1>2. x + m * q = m * (d + q) + s
  <2>1. m * d + m * q = m * (d + q)
    BY <1>1, SMT
  <2>. QED BY <1>1, <2>1, SMT
<1>3. (m * (d + q) + s) % m = s
  BY <1>1, Remainder
<1>. QED BY <1>2, <1>3 DEF s

\* One more round, or one less, does not change the remainder.
LEMMA Round ==
  ASSUME NEW x \in Int, NEW m \in Nat \ {0}
  PROVE  (x + m) % m = x % m /\ (x - m) % m = x % m
<1>. DEFINE i == 1  j == -1
<1>1. i \in Int /\ j \in Int /\ x + m = x + m * i /\ x - m = x + m * j
  BY SMT
<1>. HIDE DEF i, j
<1>2. (x + m * i) % m = x % m /\ (x + m * j) % m = x % m
  BY <1>1, Multiple, Zenon
<1>. QED BY <1>1, <1>2, Zenon

\* What a counter is after it has been moved by less than WRAP.
LEMMA WrapIs ==
  ASSUME ConsoleConstants, NEW z \in Int, -WRAP <= z, z < 2 * WRAP
  PROVE  z % WRAP = IF z < 0 THEN z + WRAP ELSE IF z < WRAP THEN z ELSE z - WRAP
<1>1. WRAP \in Nat \ {0}
  BY DEF ConsoleConstants
<1>2. \A y \in 0..(WRAP - 1) : y % WRAP = y
  BY <1>1, SMT
<1>3. CASE z < 0
  <2>1. z + WRAP \in 0..(WRAP - 1)
    BY <1>1, <1>3
  <2>2. (z + WRAP) % WRAP = z % WRAP /\ (z + WRAP) % WRAP = z + WRAP
    BY <1>1, <1>2, <2>1, Round, Zenon
  <2>. QED BY <1>3, <2>2, Zenon
<1>4. CASE 0 <= z /\ z < WRAP
  <2>1. z \in 0..(WRAP - 1) /\ ~(z < 0)
    BY <1>1, <1>4
  <2>. QED BY <1>2, <1>4, <2>1, Zenon
<1>5. CASE WRAP <= z
  <2>1. z - WRAP \in 0..(WRAP - 1) /\ ~(z < 0) /\ ~(z < WRAP)
    BY <1>1, <1>5
  <2>2. (z - WRAP) % WRAP = z % WRAP /\ (z - WRAP) % WRAP = z - WRAP
    BY <1>1, <1>2, <2>1, Round, Zenon
  <2>. QED BY <2>1, <2>2, Zenon
<1>6. z < 0 \/ (0 <= z /\ z < WRAP) \/ WRAP <= z
  BY <1>1
<1>. QED BY <1>3, <1>4, <1>5, <1>6, Zenon

\* How far two counters are apart.
LEMMA BetweenIs ==
  ASSUME ConsoleConstants, NEW x \in 0..(WRAP - 1), NEW y \in 0..(WRAP - 1)
  PROVE  /\ Between(x, y) = IF x <= y THEN y - x ELSE y - x + WRAP
         /\ Between(x, y) \in 0..(WRAP - 1)
<1>1. WRAP \in Nat \ {0}
  BY DEF ConsoleConstants
<1>2. /\ y - x \in Int /\ -WRAP <= y - x /\ y - x < 2 * WRAP /\ y - x < WRAP
      /\ (y - x < 0 <=> ~(x <= y))
  BY <1>1
<1>3. (y - x) % WRAP = IF y - x < 0 THEN y - x + WRAP ELSE IF y - x < WRAP THEN y - x ELSE y - x - WRAP
  BY <1>2, WrapIs
<1>4. Between(x, y) = IF x <= y THEN y - x ELSE y - x + WRAP
  BY <1>2, <1>3, Zenon DEF Between
<1>. QED BY <1>1, <1>4

\* A counter that has wrapped finds the same place of the ring.
LEMMA SamePlace ==
  ASSUME ConsoleConstants, NEW z \in Int
  PROVE  (z + WRAP) % INPUT_BUF = z % INPUT_BUF /\ (z % WRAP) % INPUT_BUF = z % INPUT_BUF
<1>. DEFINE c == WRAP \div INPUT_BUF  d == z \div WRAP  s == z % WRAP  g == -(c * d)
<1>1. INPUT_BUF \in Nat \ {0} /\ WRAP \in Nat \ {0} /\ WRAP % INPUT_BUF = 0
  BY DEF ConsoleConstants
<1>2. c \in Int /\ WRAP = INPUT_BUF * c
  BY <1>1, Division, SMT
<1>3. s \in Int /\ d \in Int /\ z = WRAP * d + s
  BY <1>1, Division, SMT
<1>. HIDE DEF c, d, s
<1>4. g \in Int /\ s = z + INPUT_BUF * g
  <2>1. c * d \in Int /\ INPUT_BUF * c * d = INPUT_BUF * (c * d)
    BY <1>1, <1>2, <1>3, SMT
  <2>2. INPUT_BUF * g = -(INPUT_BUF * (c * d))
    BY <1>1, <2>1, SMT
  <2>. QED BY <1>1, <1>2, <1>3, <2>1, <2>2, SMT
<1>. HIDE DEF g
<1>5. (z + INPUT_BUF * c) % INPUT_BUF = z % INPUT_BUF /\ (z + INPUT_BUF * g) % INPUT_BUF = z % INPUT_BUF
  BY <1>1, <1>2, <1>4, Multiple, Zenon
<1>. QED BY <1>2, <1>4, <1>5, Zenon DEF s

\* Counters less than the size of the ring apart have different places.
LEMMA OtherPlace ==
  ASSUME ConsoleConstants, NEW x \in Int, NEW d \in 1..(INPUT_BUF - 1)
  PROVE  (x + d) % INPUT_BUF # x % INPUT_BUF
<1>. DEFINE m == INPUT_BUF  q == x \div m  s == x % m
<1>1. m \in Nat \ {0}
  BY DEF ConsoleConstants
<1>. HIDE DEF m
<1>2. s \in 0..(m - 1) /\ q \in Int /\ x = m * q + s
  BY SMT, SMTT(40), <1>1, Division
<1>. HIDE DEF q, s
<1>3. d \in 1..(m - 1)
  BY DEF m
<1>4. CASE s + d < m
  <2>1. s + d \in 0..(m - 1) /\ x + d = m * q + (s + d)
    BY <1>1, <1>2, <1>3, <1>4, SMT
  <2>2. (m * q + (s + d)) % m = s + d
    BY <1>1, <1>2, <2>1, Remainder
  <2>. QED BY <1>2, <1>3, <2>1, <2>2, SMT DEF s, m
<1>5. CASE s + d >= m
  <2>1. s + d - m \in 0..(m - 1) /\ x + d = m * (q + 1) + (s + d - m) /\ q + 1 \in Int
    <3>1. m * (q + 1) = m * q + m
      BY <1>1, <1>2, SMT
    <3>. QED BY <1>1, <1>2, <1>3, <1>5, <3>1, SMT
  <2>2. (m * (q + 1) + (s + d - m)) % m = s + d - m
    BY Zenon, <1>1, <2>1, Remainder
  <2>. QED BY <1>1, <1>2, <1>3, <2>1, <2>2, SMT DEF s, m
<1>. QED BY <1>1, <1>2, <1>3, <1>4, <1>5
-----------------------------------------------------------------------------
(***************************************************************************)
(* Parts of the ring.                                                      *)
(***************************************************************************)
Rings == [0..(INPUT_BUF - 1) -> Keys]

\* The places of the ring.
LEMMA PlaceType ==
  ASSUME ConsoleConstants, NEW b \in Rings, NEW x \in Int
  PROVE  x % INPUT_BUF \in 0..(INPUT_BUF - 1) /\ b[x % INPUT_BUF] \in Keys
<1>1. INPUT_BUF \in Nat \ {0}
  BY DEF ConsoleConstants
<1>2. x % INPUT_BUF \in 0..(INPUT_BUF - 1)
  BY <1>1, Division
<1>. QED BY <1>2, Zenon DEF Rings

\* A part of the ring is a sequence of as many characters.
LEMMA SegIs ==
  ASSUME ConsoleConstants, NEW b \in Rings, NEW x \in Int, NEW k \in Nat
  PROVE  /\ Seg(b, x, k) \in Seq(Keys) /\ Len(Seg(b, x, k)) = k
         /\ \A i \in 1..k : Seg(b, x, k)[i] = b[(x + i - 1) % INPUT_BUF]
<1>. DEFINE s == Seg(b, x, k)
<1>1. ASSUME NEW i \in 1..k PROVE b[(x + i - 1) % INPUT_BUF] \in Keys
  BY PlaceType
<1>2. s \in [1..k -> Keys] /\ \A i \in 1..k : s[i] = b[(x + i - 1) % INPUT_BUF]
  BY <1>1, Zenon DEF Seg
<1>. HIDE DEF s
<1>3. s \in Seq(Keys) /\ Len(s) = k
  BY <1>2, SMT
<1>. QED BY <1>2, <1>3, Zenon DEF s

\* Two sequences with the same elements are the same.
LEMMA SameSeq ==
  ASSUME NEW S, NEW T, NEW s \in Seq(S), NEW t \in Seq(T), Len(s) = Len(t),
         \A i \in 1..Len(s) : s[i] = t[i]
  PROVE  s = t
BY SeqEqual

\* The empty part.
LEMMA SegEmpty ==
  ASSUME ConsoleConstants, NEW b \in Rings, NEW x \in Int
  PROVE  Seg(b, x, 0) = << >>
BY SegIs, EmptySeq

\* A part from a counter that has wrapped.
LEMMA SegWrap ==
  ASSUME ConsoleConstants, NEW b \in Rings, NEW x \in Int, NEW k \in Nat
  PROVE  Seg(b, x + WRAP, k) = Seg(b, x, k) /\ Seg(b, x - WRAP, k) = Seg(b, x, k)
<1>1. WRAP \in Int
  BY DEF ConsoleConstants
<1>2. ASSUME NEW y \in Int PROVE Seg(b, y + WRAP, k) = Seg(b, y, k)
  <2>1. ASSUME NEW i \in 1..k PROVE (y + WRAP + i - 1) % INPUT_BUF = (y + i - 1) % INPUT_BUF
    <3>1. y + i - 1 \in Int /\ y + WRAP + i - 1 = (y + i - 1) + WRAP
      BY <1>1
    <3>. QED BY <3>1, SamePlace, Zenon
  <2>. QED BY <2>1, Zenon DEF Seg
<1>3. x - WRAP \in Int /\ (x - WRAP) + WRAP = x
  BY <1>1
<1>. QED BY <1>2, <1>3, Zenon

\* The part without its first character.
LEMMA SegTail ==
  ASSUME ConsoleConstants, NEW b \in Rings, NEW x \in Int, NEW k \in Nat, k # 0
  PROVE  Seg(b, x, k) # << >> /\ Tail(Seg(b, x, k)) = Seg(b, x + 1, k - 1)
<1>. DEFINE s == Seg(b, x, k)  t == Seg(b, x + 1, k - 1)
<1>1. s \in Seq(Keys) /\ Len(s) = k /\ \A i \in 1..k : s[i] = b[(x + i - 1) % INPUT_BUF]
  BY SegIs
<1>2. k - 1 \in Nat /\ x + 1 \in Int
  OBVIOUS
<1>3. /\ t \in Seq(Keys) /\ Len(t) = k - 1
      /\ \A i \in 1..(k - 1) : t[i] = b[(x + 1 + i - 1) % INPUT_BUF]
  BY <1>2, SegIs
<1>. HIDE DEF s, t
<1>4. /\ s # << >> /\ Tail(s) \in Seq(Keys) /\ Len(Tail(s)) = k - 1
      /\ \A i \in 1..(k - 1) : Tail(s)[i] = s[i + 1]
  BY <1>1
<1>5. ASSUME NEW i \in 1..(k - 1) PROVE Tail(s)[i] = t[i]
  <2>1. i + 1 \in 1..k /\ x + 1 + i - 1 = x + (i + 1) - 1
    BY <1>2
  <2>. QED BY Zenon, <1>1, <1>3, <1>4, <2>1
<1>6. Tail(s) = t
  <2>1. Len(Tail(s)) = Len(t) /\ \A i \in 1..Len(Tail(s)) : Tail(s)[i] = t[i]
    BY <1>3, <1>4, <1>5, Zenon
  <2>. QED BY <1>3, <1>4, <2>1, SameSeq, Zenon
<1>. QED BY <1>4, <1>6, Zenon DEF s, t

\* The part without its last character.
LEMMA SegFront ==
  ASSUME ConsoleConstants, NEW b \in Rings, NEW x \in Int, NEW k \in Nat, k # 0
  PROVE  Seg(b, x, k) # << >> /\ SubSeq(Seg(b, x, k), 1, k - 1) = Seg(b, x, k - 1)
<1>. DEFINE s == Seg(b, x, k)  t == Seg(b, x, k - 1)
<1>1. s \in Seq(Keys) /\ Len(s) = k /\ \A i \in 1..k : s[i] = b[(x + i - 1) % INPUT_BUF]
  BY SegIs
<1>2. k - 1 \in Nat
  OBVIOUS
<1>3. /\ t \in Seq(Keys) /\ Len(t) = k - 1
      /\ \A i \in 1..(k - 1) : t[i] = b[(x + i - 1) % INPUT_BUF]
  BY <1>2, SegIs
<1>. HIDE DEF s, t
<1>4. /\ s # << >> /\ SubSeq(s, 1, k - 1) \in Seq(Keys) /\ Len(SubSeq(s, 1, k - 1)) = k - 1
      /\ \A i \in 1..(k - 1) : SubSeq(s, 1, k - 1)[i] = s[i]
  BY <1>1
<1>5. ASSUME NEW i \in 1..(k - 1) PROVE SubSeq(s, 1, k - 1)[i] = t[i]
  <2>1. i \in 1..k
    BY <1>2
  <2>. QED BY <1>1, <1>3, <1>4, <2>1, Zenon
<1>. QED BY <1>3, <1>4, <1>5, SameSeq, Zenon DEF s, t

\* Two parts, one after the other.
LEMMA SegConcat ==
  ASSUME ConsoleConstants, NEW b \in Rings, NEW x \in Int, NEW j \in Nat, NEW k \in Nat
  PROVE  Seg(b, x, j) \o Seg(b, x + j, k) = Seg(b, x, j + k)
<1>. DEFINE s == Seg(b, x, j)  t == Seg(b, x + j, k)  u == Seg(b, x, j + k)
<1>1. s \in Seq(Keys) /\ Len(s) = j /\ \A i \in 1..j : s[i] = b[(x + i - 1) % INPUT_BUF]
  BY SegIs
<1>2. j + k \in Nat /\ x + j \in Int
  OBVIOUS
<1>3. t \in Seq(Keys) /\ Len(t) = k /\ \A i \in 1..k : t[i] = b[(x + j + i - 1) % INPUT_BUF]
  BY <1>2, SegIs
<1>4. u \in Seq(Keys) /\ Len(u) = j + k /\ \A i \in 1..(j + k) : u[i] = b[(x + i - 1) % INPUT_BUF]
  BY <1>2, SegIs
<1>. HIDE DEF s, t, u
<1>5. /\ s \o t \in Seq(Keys) /\ Len(s \o t) = j + k
      /\ \A i \in 1..(j + k) : (s \o t)[i] = IF i <= j THEN s[i] ELSE t[i - j]
  BY ZenonT(60), <1>1, <1>3, ConcatProperties
<1>6. ASSUME NEW i \in 1..(j + k) PROVE (s \o t)[i] = u[i]
  <2>1. CASE i <= j
    <3>1. i \in 1..j
      BY <2>1
    <3>. QED BY <1>1, <1>4, <1>5, <2>1, <3>1, Zenon
  <2>2. CASE ~(i <= j)
    <3>1. i - j \in 1..k /\ x + j + (i - j) - 1 = x + i - 1
      BY <2>2
    <3>. QED BY <1>3, <1>4, <1>5, <2>2, <3>1, Zenon
  <2>. QED BY <2>1, <2>2, Zenon
<1>. QED BY ZenonT(60), <1>4, <1>5, <1>6, SameSeq DEF s, t, u

\* The ring b with c in place i.
Put(b, i, c) == [b EXCEPT ![i] = c]

\* A character is put behind a part that does not fill the ring.
LEMMA SegPut ==
  ASSUME ConsoleConstants, NEW b \in Rings, NEW x \in Int, NEW k \in Nat, k < INPUT_BUF,
         NEW c \in Keys, NEW d, d = Put(b, (x + k) % INPUT_BUF, c)
  PROVE  /\ d \in Rings /\ Seg(d, x, k + 1) = Append(Seg(b, x, k), c)
         /\ \A j \in 0..k : Seg(d, x, j) = Seg(b, x, j)
<1>1. INPUT_BUF \in Nat \ {0} /\ x + k \in Int
  BY DEF ConsoleConstants
<1>2. (x + k) % INPUT_BUF \in 0..(INPUT_BUF - 1)
  BY SMT, SMTT(40), <1>1, PlaceType
<1>3. d \in Rings /\ d[(x + k) % INPUT_BUF] = c
  BY <1>2, Zenon DEF Rings, Put
<1>4. ASSUME NEW i \in 0..(k - 1) PROVE d[(x + i) % INPUT_BUF] = b[(x + i) % INPUT_BUF]
  <2>1. x + i \in Int /\ k - i \in 1..(INPUT_BUF - 1) /\ (x + i) + (k - i) = x + k
    BY <1>1
  <2>2. (x + k) % INPUT_BUF # (x + i) % INPUT_BUF
    BY <2>1, OtherPlace
  <2>3. (x + i) % INPUT_BUF \in 0..(INPUT_BUF - 1)
    BY <2>1, PlaceType
  <2>. QED BY <2>2, <2>3, Zenon DEF Rings, Put
<1>5. ASSUME NEW j \in 0..k PROVE Seg(d, x, j) = Seg(b, x, j)
  <2>1. ASSUME NEW i \in 1..j PROVE d[(x + i - 1) % INPUT_BUF] = b[(x + i - 1) % INPUT_BUF]
    <3>1. i - 1 \in 0..(k - 1) /\ x + i - 1 = x + (i - 1)
      OBVIOUS
    <3>. QED BY <1>4, <3>1, Zenon
  <2>. QED BY <2>1, Zenon DEF Seg
<1>6. Seg(d, x, k + 1) = Append(Seg(b, x, k), c)
  <2>1. Seg(d, x, k) = Seg(b, x, k) /\ Seg(b, x, k) \in Seq(Keys)
    <3>1. k \in 0..k
      OBVIOUS
    <3>. QED BY <1>5, <3>1, SegIs, Zenon
  <2>2. Seg(d, x, k) \o Seg(d, x + k, 1) = Seg(d, x, k + 1)
    BY Zenon, <1>3, SegConcat
  <2>3. Seg(d, x + k, 1) = <<c>>
    <3>1. /\ Seg(d, x + k, 1) \in Seq(Keys) /\ Len(Seg(d, x + k, 1)) = 1
          /\ \A i \in 1..1 : Seg(d, x + k, 1)[i] = d[(x + k + i - 1) % INPUT_BUF]
      <4>1. 1 \in Nat
        OBVIOUS
      <4>. QED BY <1>1, <1>3, <4>1, SegIs, Zenon
    <3>2. 1 \in 1..1 /\ x + k + 1 - 1 = x + k
      BY <1>1
    <3>3. Seg(d, x + k, 1)[1] = c
      BY <1>3, <3>1, <3>2, Zenon
    <3>. QED BY <3>1, <3>3
  <2>. QED BY Zenon, <2>1, <2>2, <2>3, AppendIsConcat
<1>. QED BY <1>3, <1>5, <1>6, Zenon
-----------------------------------------------------------------------------
(***************************************************************************)
(* The counters of the ring.                                               *)
(***************************************************************************)

\* Counter x moved on by d.
Plus(x, d) == IF x + d < WRAP THEN x + d ELSE x + d - WRAP

\* The lengths, and w and e from r.
LEMMA Counters ==
  ASSUME IInv
  PROVE  /\ R \in Nat /\ L \in Nat /\ R < WRAP /\ L < WRAP
         /\ w = Plus(r, R)
         /\ e = Plus(w, L)
         /\ (R = 0 <=> r = w) /\ (L = 0 <=> w = e)
         /\ Between(r, e) = R + L /\ e = Plus(r, R + L)
<1>1. /\ WRAP \in Nat /\ INPUT_BUF \in Nat /\ WRAP > INPUT_BUF /\ R + L <= INPUT_BUF
      /\ r \in 0..(WRAP - 1) /\ w \in 0..(WRAP - 1) /\ e \in 0..(WRAP - 1) /\ ConsoleConstants
  BY DEF IInv, ConsoleConstants, Types, Ring
<1>2. R = (IF r <= w THEN w - r ELSE w - r + WRAP) /\ R \in 0..(WRAP - 1)
  BY <1>1, BetweenIs, Zenon DEF R
<1>3. L = (IF w <= e THEN e - w ELSE e - w + WRAP) /\ L \in 0..(WRAP - 1)
  BY <1>1, BetweenIs, Zenon DEF L
<1>4. Between(r, e) = IF r <= e THEN e - r ELSE e - r + WRAP
  BY <1>1, BetweenIs, Zenon
<1>. HIDE DEF R, L
<1>5. /\ R \in Nat /\ L \in Nat /\ R < WRAP /\ L < WRAP
      /\ w = Plus(r, R)
      /\ (R = 0 <=> r = w)
  BY SMT, SMTT(40), <1>1, <1>2, <1>3 DEF Plus
<1>6. /\ e = Plus(w, L)
      /\ (L = 0 <=> w = e)
  BY <1>1, <1>3 DEF Plus
<1>7. (IF r <= e THEN e - r ELSE e - r + WRAP) = R + L
  BY <1>1, <1>2, <1>3
<1>8. e = Plus(r, R + L)
  BY <1>1, <1>2, <1>3 DEF Plus
<1>9. Between(r, e) = R + L
  BY <1>4, <1>7
<1>. QED BY <1>5, <1>6, <1>8, <1>9, Zenon

\* A counter moved on by d, less than WRAP, and the place it stands for.
LEMMA MovedOn ==
  ASSUME ConsoleConstants, NEW b \in Rings, NEW x \in 0..(WRAP - 1), NEW d \in 0..(WRAP - 1),
         NEW y, y = Plus(x, d)
  PROVE  /\ y \in 0..(WRAP - 1) /\ Between(x, y) = d /\ y = (x + d) % WRAP
         /\ y % INPUT_BUF = (x + d) % INPUT_BUF
         /\ \A k \in Nat : Seg(b, y, k) = Seg(b, x + d, k)
<1>1. WRAP \in Nat \ {0}
  BY DEF ConsoleConstants
<1>2. y \in 0..(WRAP - 1) /\ x + d \in Int /\ -WRAP <= x + d /\ x + d < 2 * WRAP /\ ~(x + d < 0)
  BY <1>1 DEF Plus
<1>3. y = (x + d) % WRAP
  <2>1. (x + d) % WRAP = IF x + d < 0 THEN x + d + WRAP ELSE IF x + d < WRAP THEN x + d ELSE x + d - WRAP
    BY SMT, SMTT(40), <1>1, <1>2, WrapIs
  <2>. QED BY <1>1, <1>2, <2>1 DEF Plus
<1>4. Between(x, y) = d
  <2>1. Between(x, y) = IF x <= y THEN y - x ELSE y - x + WRAP
    BY Zenon, <1>2, BetweenIs
  <2>. QED BY <1>1, <2>1 DEF Plus
<1>5. y % INPUT_BUF = (x + d) % INPUT_BUF
  BY <1>2, <1>3, SamePlace
<1>6. ASSUME NEW k \in Nat PROVE Seg(b, y, k) = Seg(b, x + d, k)
  <2>1. CASE x + d < WRAP
    BY <2>1, Zenon DEF Plus
  <2>2. CASE ~(x + d < WRAP)
    <3>1. Seg(b, (x + d) - WRAP, k) = Seg(b, x + d, k)
      BY <1>2, SegWrap, Zenon
    <3>2. y = (x + d) - WRAP
      BY <1>1, <2>2 DEF Plus
    <3>. QED BY <3>1, <3>2, Zenon
  <2>. QED BY <2>1, <2>2, Zenon
<1>. QED BY <1>2, <1>3, <1>4, <1>5, <1>6, Zenon

\* The ring from r on is what can be read and the line being typed, and a new
\* character goes behind it.
LEMMA Whole ==
  ASSUME IInv
  PROVE  /\ Seg(buf, r, R + L) = Ready \o Line
         /\ e % INPUT_BUF = (r + (R + L)) % INPUT_BUF /\ e % INPUT_BUF = (w + L) % INPUT_BUF
<1>1. /\ ConsoleConstants /\ buf \in Rings /\ r \in 0..(WRAP - 1) /\ w \in 0..(WRAP - 1)
      /\ e \in 0..(WRAP - 1) /\ WRAP \in Nat /\ R + L <= INPUT_BUF /\ INPUT_BUF \in Nat
      /\ INPUT_BUF < WRAP
  BY SMT, SMTT(40) DEF IInv, Types, Rings, ConsoleConstants, Ring
<1>2. /\ R \in Nat /\ L \in Nat /\ R < WRAP /\ L < WRAP
      /\ w = Plus(r, R)
      /\ e = Plus(w, L)
  BY Counters, Zenon
<1>. HIDE DEF R, L
<1>3. R \in 0..(WRAP - 1) /\ L \in 0..(WRAP - 1) /\ R + L \in 0..(WRAP - 1) /\ r \in Int
  BY <1>1, <1>2
<1>4. Seg(buf, w, L) = Seg(buf, r + R, L)
  <2>1. /\ ConsoleConstants /\ buf \in Rings /\ r \in 0..(WRAP - 1) /\ R \in 0..(WRAP - 1)
        /\ w = Plus(r, R) /\ L \in Nat
    BY <1>1, <1>2, <1>3, Zenon
  <2>. QED BY ONLY <2>1, MovedOn, ZenonT(60)
<1>5. Seg(buf, r, R + L) = Ready \o Line
  <2>1. Seg(buf, r, R) \o Seg(buf, r + R, L) = Seg(buf, r, R + L)
    <3>1. ConsoleConstants /\ buf \in Rings /\ r \in Int /\ R \in Nat /\ L \in Nat
      BY <1>1, <1>2, <1>3, Zenon
    <3>. QED BY ONLY <3>1, SegConcat, Zenon
  <2>. QED BY <1>4, <2>1, Zenon DEF Ready, Line
<1>6. e % INPUT_BUF = (w + L) % INPUT_BUF
  <2>1. /\ ConsoleConstants /\ buf \in Rings /\ w \in 0..(WRAP - 1) /\ L \in 0..(WRAP - 1)
        /\ e = Plus(w, L)
    BY <1>1, <1>2, <1>3, Zenon
  <2>. QED BY ONLY <2>1, MovedOn, Zenon
<1>7. e = Plus(r, R + L)
  BY <1>1, <1>2 DEF Plus
<1>8. e % INPUT_BUF = (r + (R + L)) % INPUT_BUF
  BY <1>1, <1>3, <1>7, MovedOn, Zenon
<1>. QED BY <1>5, <1>6, <1>8, Zenon
-----------------------------------------------------------------------------
(***************************************************************************)
(* What the operations do to the ring.                                     *)
(***************************************************************************)

\* What the other lemmas use of the invariant.
LEMMA Known ==
  ASSUME IInv
  PROVE  /\ ConsoleConstants /\ buf \in Rings
         /\ r \in 0..(WRAP - 1) /\ w \in 0..(WRAP - 1) /\ e \in 0..(WRAP - 1)
         /\ INPUT_BUF \in Nat /\ INPUT_BUF >= 1 /\ WRAP \in Nat /\ INPUT_BUF < WRAP
         /\ R + L <= INPUT_BUF /\ r \in Int /\ w \in Int /\ e \in Int
<1>1. ConsoleConstants /\ buf \in Rings /\ R + L <= INPUT_BUF
      /\ r \in 0..(WRAP - 1) /\ w \in 0..(WRAP - 1) /\ e \in 0..(WRAP - 1)
  BY Zenon DEF IInv, Types, Rings, Ring
<1>2. INPUT_BUF \in Nat /\ INPUT_BUF >= 1 /\ WRAP \in Nat /\ INPUT_BUF < WRAP
  BY <1>1 DEF ConsoleConstants
<1>3. r \in Int /\ w \in Int /\ e \in Int
  BY <1>1, <1>2
<1>. QED BY <1>1, <1>2, <1>3, Zenon

\* A counter moved on by one.
LEMMA PlusOne ==
  ASSUME ConsoleConstants, NEW x \in 0..(WRAP - 1)
  PROVE  (x + 1) % WRAP = Plus(x, 1)
<1>1. WRAP \in Nat /\ WRAP > 1
  BY DEF ConsoleConstants
<1>2. (x + 1) % WRAP = IF x + 1 < 0 THEN x + 1 + WRAP ELSE IF x + 1 < WRAP THEN x + 1 ELSE x + 1 - WRAP
  BY <1>1, WrapIs
<1>. QED BY SMT, SMTT(40), <1>1, <1>2 DEF Plus

\* A character put behind the line being typed (consoleintr()).
LEMMA Typed ==
  ASSUME IInv, NEW c \in Keys, R + L < INPUT_BUF,
         NEW b, b = [buf EXCEPT ![e % INPUT_BUF] = c], NEW e1, e1 = (e + 1) % WRAP
  PROVE  /\ b \in Rings /\ e1 \in 0..(WRAP - 1)
         /\ line_ends(c, e1) <=> c \in {"nl", "D"} \/ R + L + 1 = INPUT_BUF
         /\ Between(r, e1) = R + L + 1 /\ Between(w, e1) = L + 1
         /\ Seg(b, r, R + L + 1) = Append(Ready \o Line, c) /\ Seg(b, r, R) = Ready
         /\ Seg(b, w, L + 1) = Append(Line, c)
<1>1. /\ ConsoleConstants /\ buf \in Rings
      /\ r \in 0..(WRAP - 1) /\ w \in 0..(WRAP - 1) /\ e \in 0..(WRAP - 1)
      /\ INPUT_BUF \in Nat /\ INPUT_BUF >= 1 /\ WRAP \in Nat /\ INPUT_BUF < WRAP
      /\ r \in Int /\ w \in Int /\ e \in Int
  BY Known, Zenon
<1>2. R \in Nat /\ L \in Nat /\ w = Plus(r, R) /\ e = Plus(w, L) /\ e = Plus(r, R + L)
  BY Counters, Zenon
<1>. HIDE DEF R, L
<1>3. e1 = Plus(e, 1)
  BY <1>1, PlusOne, Zenon
<1>4. e1 = Plus(r, R + L + 1) /\ e1 = Plus(w, L + 1)
  BY SMT, SMTT(40), <1>1, <1>2, <1>3 DEF Plus
<1>5. R + L + 1 \in 0..(WRAP - 1) /\ L + 1 \in 0..(WRAP - 1) /\ R + L \in Nat /\ R \in 0..(R + L)
      /\ INPUT_BUF \in 0..(WRAP - 1) /\ L < INPUT_BUF
  BY <1>1, <1>2
<1>6. e1 \in 0..(WRAP - 1) /\ Between(r, e1) = R + L + 1
  BY ONLY <1>1, <1>4, <1>5, MovedOn, Zenon
<1>7. Between(w, e1) = L + 1
  BY ONLY <1>1, <1>4, <1>5, MovedOn, Zenon
<1>8. line_ends(c, e1) <=> c \in {"nl", "D"} \/ R + L + 1 = INPUT_BUF
  <2>1. (r + INPUT_BUF) % WRAP = Plus(r, INPUT_BUF) /\ Between(r, Plus(r, INPUT_BUF)) = INPUT_BUF
    <3>1. PICK y : y = Plus(r, INPUT_BUF)
      BY Zenon
    <3>2. ConsoleConstants /\ buf \in Rings /\ r \in 0..(WRAP - 1) /\ INPUT_BUF \in 0..(WRAP - 1)
      BY <1>1, <1>5, Zenon
    <3>3. y = (r + INPUT_BUF) % WRAP /\ Between(r, y) = INPUT_BUF
      BY ONLY <3>1, <3>2, MovedOn, ZenonT(60)
    <3>. QED BY <3>1, <3>3, Zenon
  <2>2. e1 = (r + INPUT_BUF) % WRAP <=> R + L + 1 = INPUT_BUF
    BY <1>4, <1>6, <2>1, Zenon
  <2>. QED BY <2>2, Zenon DEF line_ends
<1>9. /\ Seg(buf, r, R + L) = Ready \o Line /\ e % INPUT_BUF = (r + (R + L)) % INPUT_BUF
      /\ e % INPUT_BUF = (w + L) % INPUT_BUF
  BY Whole, Zenon
<1>10. b = Put(buf, (r + (R + L)) % INPUT_BUF, c)
  BY <1>9, Zenon DEF Put
<1>11. b = Put(buf, (w + L) % INPUT_BUF, c)
  BY <1>9, Zenon DEF Put
<1>12. /\ b \in Rings /\ Seg(b, r, (R + L) + 1) = Append(Seg(buf, r, R + L), c)
       /\ \A j \in 0..(R + L) : Seg(b, r, j) = Seg(buf, r, j)
  <2>1. /\ ConsoleConstants /\ buf \in Rings /\ r \in Int /\ R + L \in Nat /\ R + L < INPUT_BUF
        /\ c \in Keys
    BY <1>1, <1>5, Zenon
  <2>2. PICK k : k = R + L
    BY Zenon
  <2>3. /\ ConsoleConstants /\ buf \in Rings /\ r \in Int /\ k \in Nat /\ k < INPUT_BUF /\ c \in Keys
        /\ b = Put(buf, (r + k) % INPUT_BUF, c)
    BY <1>10, <2>1, <2>2, Zenon
  <2>4. /\ b \in Rings /\ Seg(b, r, k + 1) = Append(Seg(buf, r, k), c)
        /\ \A j \in 0..k : Seg(b, r, j) = Seg(buf, r, j)
    BY ONLY <2>3, SegPut, SMT, SMTT(40)
  <2>. QED BY <2>2, <2>4, Zenon
<1>13. Seg(b, w, L + 1) = Append(Seg(buf, w, L), c)
  <2>1. /\ ConsoleConstants /\ buf \in Rings /\ w \in Int /\ L \in Nat /\ L < INPUT_BUF
        /\ c \in Keys
    BY <1>1, <1>2, <1>5, Zenon
  <2>. QED BY ONLY SMT, SMTT(40), <1>11, <2>1, SegPut
<1>14. Seg(b, r, R) = Ready
  BY <1>5, <1>12, Zenon DEF Ready
<1>15. Seg(b, w, L + 1) = Append(Line, c)
  BY <1>13, Zenon DEF Line
<1>. QED BY <1>6, <1>7, <1>8, <1>9, <1>12, <1>14, <1>15, Zenon

\* ^H takes back the last character of the line being typed.
LEMMA Erased ==
  ASSUME IInv, e # w, NEW e1, e1 = (e - 1) % WRAP
  PROVE  /\ e1 \in 0..(WRAP - 1) /\ L # 0 /\ Between(w, e1) = L - 1
         /\ Line # << >> /\ Seg(buf, w, L - 1) = SubSeq(Line, 1, Len(Line) - 1)
<1>1. /\ ConsoleConstants /\ buf \in Rings /\ w \in 0..(WRAP - 1) /\ e \in 0..(WRAP - 1)
      /\ WRAP \in Nat /\ w \in Int
  BY Known, Zenon
<1>2. L \in Nat /\ L < WRAP /\ e = Plus(w, L) /\ L # 0
  BY Counters, Zenon
<1>. HIDE DEF L
<1>3. e1 = IF e - 1 < 0 THEN e - 1 + WRAP ELSE IF e - 1 < WRAP THEN e - 1 ELSE e - 1 - WRAP
  BY <1>1, WrapIs
<1>4. e1 = Plus(w, L - 1) /\ L - 1 \in 0..(WRAP - 1)
  BY <1>1, <1>2, <1>3 DEF Plus
<1>5. e1 \in 0..(WRAP - 1) /\ Between(w, e1) = L - 1
  BY ONLY <1>1, <1>4, MovedOn, Zenon
<1>6. Seg(buf, w, L) # << >> /\ SubSeq(Seg(buf, w, L), 1, L - 1) = Seg(buf, w, L - 1)
      /\ Len(Seg(buf, w, L)) = L
  BY ONLY <1>1, <1>2, SegFront, SegIs, Zenon
<1>. QED BY <1>2, <1>5, <1>6, Zenon DEF Line

\* ^U takes back all of it: no character of it ends a line.
LEMMA KillLine ==
  ASSUME IInv
  PROVE  kill_line = w
<1>1. /\ ConsoleConstants /\ buf \in Rings /\ w \in 0..(WRAP - 1) /\ e \in 0..(WRAP - 1)
      /\ WRAP \in Nat /\ w \in Int
  BY Known, Zenon
<1>2. L \in Nat /\ L < WRAP /\ e = Plus(w, L)
  BY Counters, Zenon
<1>3. Line \in Seq({"a"})
  BY Zenon DEF IInv, Contents
<1>. DEFINE ks == {k \in 0..Between(w, e) : k = Between(w, e) \/ At((e - k - 1) % WRAP) = "nl"}
<1>4. ks = {k \in 0..L : k = L \/ At((e - k - 1) % WRAP) = "nl"}
  BY Zenon DEF L
<1>. HIDE DEF L
<1>5. ASSUME NEW k \in 0..L, k # L PROVE At((e - k - 1) % WRAP) # "nl"
  <2>1. L - k \in 1..L /\ e - k - 1 \in Int /\ w + (L - k) - 1 \in Int
    BY <1>1, <1>2, <1>5
  <2>2. ((e - k - 1) % WRAP) % INPUT_BUF = (e - k - 1) % INPUT_BUF
    BY ONLY <1>1, <2>1, SamePlace, Zenon
  <2>3. \/ e - k - 1 = w + (L - k) - 1
        \/ w + (L - k) - 1 = (e - k - 1) + WRAP
    BY <1>1, <1>2 DEF Plus
  <2>4. ((e - k - 1) + WRAP) % INPUT_BUF = (e - k - 1) % INPUT_BUF
    BY ONLY <1>1, <2>1, SamePlace, Zenon
  <2>5. (e - k - 1) % INPUT_BUF = (w + (L - k) - 1) % INPUT_BUF
    BY <2>3, <2>4, Zenon
  <2>6. Len(Line) = L /\ Line[L - k] = buf[(w + (L - k) - 1) % INPUT_BUF]
    BY <1>1, <1>2, <2>1, SegIs, Zenon DEF Line
  <2>7. Line[L - k] = "a"
    <3>1. \A i \in 1..Len(Line) : Line[i] \in {"a"}
      BY ONLY <1>3, ElementOfSeq, Zenon
    <3>. QED BY <2>1, <2>6, <3>1, Zenon
  <2>. QED BY Zenon, <2>2, <2>5, <2>6, <2>7 DEF At
<1>6. ks = {L}
  BY SMT, SMTT(40), <1>2, <1>4, <1>5
<1>7. (CHOOSE k \in ks : \A j \in ks : k <= j) = L
  BY <1>2, <1>6
<1>8. (e - L) % WRAP = IF e - L < 0 THEN e - L + WRAP ELSE IF e - L < WRAP THEN e - L ELSE e - L - WRAP
  BY <1>1, <1>2, WrapIs
<1>9. (e - L) % WRAP = w
  BY <1>1, <1>2, <1>8 DEF Plus
<1>. QED BY <1>7, <1>9, Zenon DEF kill_line

\* A character taken from the lines that can be read (consoleread()).
LEMMA Taken ==
  ASSUME IInv, r # w, NEW r1, r1 = (r + 1) % WRAP
  PROVE  /\ r1 \in 0..(WRAP - 1) /\ R # 0 /\ Between(r1, w) = R - 1
         /\ Ready # << >> /\ Seg(buf, r1, R - 1) = Tail(Ready)
<1>1. /\ ConsoleConstants /\ buf \in Rings /\ r \in 0..(WRAP - 1) /\ w \in 0..(WRAP - 1)
      /\ WRAP \in Nat /\ WRAP > 1 /\ r \in Int
  <2>1. /\ ConsoleConstants /\ buf \in Rings /\ r \in 0..(WRAP - 1) /\ w \in 0..(WRAP - 1)
        /\ WRAP \in Nat /\ r \in Int /\ INPUT_BUF >= 1 /\ INPUT_BUF < WRAP /\ INPUT_BUF \in Nat
    BY Known, Zenon
  <2>. QED BY <2>1
<1>2. R \in Nat /\ R < WRAP /\ w = Plus(r, R) /\ R # 0
  BY Counters, Zenon
<1>. HIDE DEF R
<1>3. r1 = Plus(r, 1)
  BY <1>1, PlusOne, Zenon
<1>4. r1 \in 0..(WRAP - 1) /\ w = Plus(r1, R - 1) /\ R - 1 \in 0..(WRAP - 1) /\ R - 1 \in Nat
      /\ 1 \in 0..(WRAP - 1)
  BY <1>1, <1>2, <1>3 DEF Plus
<1>5. Between(r1, w) = R - 1
  BY ONLY <1>1, <1>4, MovedOn, Zenon
<1>6. Seg(buf, r1, R - 1) = Seg(buf, r + 1, R - 1)
  <2>1. /\ ConsoleConstants /\ buf \in Rings /\ r \in 0..(WRAP - 1) /\ 1 \in 0..(WRAP - 1)
        /\ r1 = Plus(r, 1) /\ R - 1 \in Nat
    BY <1>1, <1>3, <1>4, Zenon
  <2>. QED BY ONLY <2>1, MovedOn, ZenonT(60)
<1>7. Seg(buf, r, R) # << >> /\ Tail(Seg(buf, r, R)) = Seg(buf, r + 1, R - 1)
  BY ONLY <1>1, <1>2, SegTail, Zenon
<1>. QED BY <1>2, <1>4, <1>5, <1>6, <1>7, Zenon DEF Ready
-----------------------------------------------------------------------------
(***************************************************************************)
(* The ring's part of the invariant, and the steps of the line editor.     *)
(***************************************************************************)
RingOk ==
  /\ buf \in [0..(INPUT_BUF - 1) -> Keys]
  /\ r \in 0..(WRAP - 1) /\ w \in 0..(WRAP - 1) /\ e \in 0..(WRAP - 1)
  /\ Ring /\ Contents

\* A step of the line editor, or none.
EditorStep == Editor!Next \/ (Ready' = Ready /\ Line' = Line)

\* The lines of the next state.
LEMMA NextLines ==
  /\ R' = Between(r', w') /\ L' = Between(w', e')
  /\ Ready' = Seg(buf', r', Between(r', w')) /\ Line' = Seg(buf', w', Between(w', e'))
BY Zenon DEF R, L, Ready, Line, Seg, Between

\* A step that leaves the ring alone.
LEMMA SameRing ==
  ASSUME IInv, buf' = buf, r' = r, w' = w, e' = e
  PROVE  RingOk' /\ EditorStep
<1>1. RingOk
  BY Zenon DEF IInv, Types, RingOk
<1>2. Ready' = Ready /\ Line' = Line /\ R' = R /\ L' = L
  BY Zenon DEF R, L, Ready, Line, Seg, Between
<1>3. Ring' /\ Contents'
  BY <1>1, <1>2, Zenon DEF RingOk, Ring, Contents
<1>. QED BY <1>1, <1>2, <1>3, Zenon DEF RingOk, EditorStep

\* The lengths of the two.
LEMMA Lengths ==
  ASSUME IInv
  PROVE  /\ R \in Nat /\ L \in Nat /\ Len(Ready) = R /\ Len(Line) = L
         /\ Ready \in Seq(Chars) /\ Line \in Seq({"a"})
<1>1. R \in Nat /\ L \in Nat
  BY Counters, Zenon
<1>2. ConsoleConstants /\ buf \in Rings /\ r \in Int /\ w \in Int
  BY Known, Zenon
<1>3. Ready \in Seq(Chars) /\ Line \in Seq({"a"})
  BY Zenon DEF IInv, Contents
<1>. QED BY <1>1, <1>2, <1>3, SegIs, Zenon DEF Ready, Line

\* A character is typed.
LEMMA KeyTyped ==
  ASSUME IInv, NEW c \in Chars, ~(Between(r, e) >= INPUT_BUF), NEW e1, e1 = (e + 1) % WRAP,
         buf' = [buf EXCEPT ![e % INPUT_BUF] = c], e' = e1, r' = r,
         w' = IF line_ends(c, e1) THEN e1 ELSE w
  PROVE  RingOk' /\ EditorStep
<1>1. /\ ConsoleConstants /\ INPUT_BUF \in Nat /\ WRAP \in Nat
      /\ r \in 0..(WRAP - 1) /\ w \in 0..(WRAP - 1)
  BY Known, Zenon
<1>2. /\ R \in Nat /\ L \in Nat /\ Len(Ready) = R /\ Len(Line) = L
      /\ Ready \in Seq(Chars) /\ Line \in Seq({"a"})
  BY Lengths, Zenon
<1>3. R + L < INPUT_BUF
  <2>1. Between(r, e) = R + L
    BY Counters, Zenon
  <2>. HIDE DEF R, L
  <2>2. ~(R + L >= INPUT_BUF)
    BY <2>1, Zenon
  <2>. QED BY SMT, SMTT(40), <1>1, <1>2, <2>2
<1>4. c \in Keys
  BY DEF Chars, Keys
<1>5. PICK b : b = [buf EXCEPT ![e % INPUT_BUF] = c]
  BY Zenon
<1>6. /\ b \in Rings /\ e1 \in 0..(WRAP - 1)
      /\ line_ends(c, e1) <=> c \in {"nl", "D"} \/ R + L + 1 = INPUT_BUF
      /\ Between(r, e1) = R + L + 1 /\ Between(w, e1) = L + 1
      /\ Seg(b, r, R + L + 1) = Append(Ready \o Line, c) /\ Seg(b, r, R) = Ready
      /\ Seg(b, w, L + 1) = Append(Line, c)
  BY Zenon, <1>3, <1>4, <1>5, Typed
<1>7. buf' = b
  BY <1>5, Zenon
<1>8. w' \in 0..(WRAP - 1)
  BY <1>1, <1>6, Zenon
<1>9. Between(r, w) = R
  BY Zenon DEF R
<1>. HIDE DEF R, L
<1>10. Line \in Seq(Chars) /\ Ready \o Line \in Seq(Chars)
  <2>1. Line \in Seq(Chars)
    BY <1>2 DEF Chars
  <2>. QED BY <1>2, <2>1, ConcatProperties, Zenon
<1>11. CASE line_ends(c, e1)
  <2>1. w' = e1 /\ (c \in {"nl", "D"} \/ R + L + 1 = INPUT_BUF)
    BY <1>6, <1>11, Zenon
  <2>2. Between(e1, e1) = 0
    <3>1. Between(e1, e1) = IF e1 <= e1 THEN e1 - e1 ELSE e1 - e1 + WRAP
      BY <1>1, <1>6, BetweenIs, Zenon
    <3>. QED BY SMT, SMTT(40), <1>1, <1>6, <3>1
  <2>3. R' = R + L + 1 /\ L' = 0
    BY <1>6, <2>1, <2>2, NextLines, Zenon
  <2>4. Ready' = Append(Ready \o Line, c)
    BY <1>6, <1>7, <2>1, NextLines, Zenon
  <2>5. Line' = << >>
    <3>1. Line' = Seg(b, e1, 0)
      BY <1>7, <2>1, <2>2, NextLines, Zenon
    <3>2. e1 \in Int
      BY SMT, SMTT(40), <1>1, <1>6
    <3>. QED BY <1>1, <1>6, <3>1, <3>2, SegEmpty, Zenon
  <2>6. Ring'
    BY SMT, SMTT(40), <1>1, <1>2, <1>3, <2>3 DEF Ring
  <2>7. Ready' \in Seq(Chars) /\ Line' \in Seq({"a"})
    BY SMT, SMTT(40), <1>10, <2>4, <2>5, AppendProperties
  <2>8. Ready' = (Ready \o Line) \o <<c>>
    BY <1>10, <2>4, AppendIsConcat, Zenon
  <2>9. Editor!Type(c)
    <3>1. /\ Len(Ready) + Len(Line) < INPUT_BUF
          /\ c \in {"nl", "D"} \/ Len(Ready) + Len(Line) + 1 = INPUT_BUF
      BY <1>2, <1>3, <2>1, Zenon
    <3>. QED BY <2>5, <2>8, <3>1, Zenon DEF Editor!Type, Ready, Line, Seg, R, L, At
  <2>10. Editor!Next
    BY <2>9, Zenon DEF Editor!Next, Chars
  <2>. QED BY <1>1, <1>6, <1>7, <1>8, <2>6, <2>7, <2>10, Zenon DEF RingOk, EditorStep, Contents, Rings
<1>12. CASE ~line_ends(c, e1)
  <2>1. w' = w /\ c \notin {"nl", "D"} /\ R + L + 1 # INPUT_BUF
    BY <1>6, <1>12, Zenon
  <2>2. R' = R /\ L' = L + 1
    BY <1>6, <1>9, <2>1, NextLines, Zenon
  <2>3. Ready' = Ready
    BY <1>6, <1>7, <1>9, <2>1, NextLines, Zenon
  <2>4. Line' = Append(Line, c)
    BY <1>6, <1>7, <2>1, NextLines, Zenon
  <2>5. Ring'
    BY SMT, SMTT(40), <1>1, <1>2, <1>3, <2>1, <2>2 DEF Ring
  <2>6. c \in {"a"}
    BY <2>1, Zenon DEF Chars
  <2>7. Ready' \in Seq(Chars) /\ Line' \in Seq({"a"})
    BY <1>2, <2>3, <2>4, <2>6, AppendProperties, Zenon
  <2>8. Editor!Type(c)
    <3>1. /\ Len(Ready) + Len(Line) < INPUT_BUF
          /\ ~(c \in {"nl", "D"} \/ Len(Ready) + Len(Line) + 1 = INPUT_BUF)
      BY <1>2, <1>3, <2>1, Zenon
    <3>. QED BY <2>3, <2>4, <3>1, Zenon DEF Editor!Type, Ready, Line, Seg, R, L, At
  <2>9. Editor!Next
    BY <2>8, Zenon DEF Editor!Next, Chars
  <2>. QED BY <1>1, <1>6, <1>7, <1>8, <2>5, <2>7, <2>9, Zenon DEF RingOk, EditorStep, Contents, Rings
<1>. QED BY <1>11, <1>12, Zenon

\* ^H and ^U.
LEMMA KeyErased ==
  ASSUME IInv, buf' = buf, r' = r, w' = w,
         e' = kill_line \/ e' = IF erasable THEN (e - 1) % WRAP ELSE e
  PROVE  RingOk' /\ EditorStep
<1>1. RingOk /\ ConsoleConstants /\ buf \in Rings /\ w \in Int
  BY Known, Zenon DEF IInv, Types, RingOk
<1>2. R \in Nat /\ L \in Nat /\ INPUT_BUF \in Nat /\ Line \in Seq({"a"}) /\ Len(Line) = L
  BY Lengths, Known, Zenon
<1>3. Ready' = Ready /\ R' = R
  BY Zenon DEF Ready, Seg, R, Between
<1>4. CASE e' = kill_line
  <2>1. e' = w
    BY <1>4, KillLine, Zenon
  <2>2. Between(w, w) = 0
    <3>1. /\ Between(w, w) = IF w <= w THEN w - w ELSE w - w + WRAP
          /\ w \in Int
      BY <1>1, BetweenIs, Zenon DEF RingOk
    <3>. QED BY <3>1
  <2>3. L' = 0 /\ Line' = Seg(buf, w, 0)
    BY <2>1, <2>2, NextLines, Zenon
  <2>4. Line' = << >>
    BY <1>1, <2>3, SegEmpty, Zenon
  <2>. HIDE DEF R, L
  <2>5. Ring'
    BY SMT, SMTT(40), <1>1, <1>2, <1>3, <2>3 DEF Ring, RingOk
  <2>6. Contents'
    BY SMT, SMTT(40), <1>1, <1>3, <2>4 DEF RingOk, Contents
  <2>7. Editor!EraseLine
    BY <1>3, <2>4, Zenon DEF Editor!EraseLine, Ready, Line, Seg, R, L, At
  <2>. QED BY <1>1, <2>1, <2>5, <2>6, <2>7, Zenon DEF RingOk, EditorStep, Editor!Next
<1>5. CASE e' = (e - 1) % WRAP /\ e # w
  <2>1. PICK e1 : e1 = (e - 1) % WRAP
    BY Zenon
  <2>2. /\ e1 \in 0..(WRAP - 1) /\ L # 0 /\ Between(w, e1) = L - 1
        /\ Line # << >> /\ Seg(buf, w, L - 1) = SubSeq(Line, 1, Len(Line) - 1)
    BY <1>5, <2>1, Erased, Zenon
  <2>3. L' = L - 1 /\ Line' = SubSeq(Line, 1, Len(Line) - 1)
    BY <1>5, <2>1, <2>2, NextLines, Zenon
  <2>. HIDE DEF R, L
  <2>4. Ring'
    BY SMT, SMTT(40), <1>1, <1>2, <1>3, <2>2, <2>3 DEF Ring, RingOk
  <2>5. Contents'
    <3>1. Len(Line) \in Nat /\ Len(Line) # 0
      BY <1>2, <2>2, Zenon
    <3>2. Line' \in Seq({"a"})
      <4>1. \A i \in 1..(Len(Line) - 1) : Line[i] \in {"a"}
        <5>1. \A i \in 1..Len(Line) : Line[i] \in {"a"}
          BY <1>2, ElementOfSeq, Zenon
        <5>. QED BY SMT, SMTT(40), <3>1, <5>1
      <4>2. SubSeq(Line, 1, Len(Line) - 1) \in Seq({"a"})
        BY SMT, SMTT(40), <1>2, <3>1, <4>1, SubSeqProperties
      <4>. QED BY <2>3, <4>2, Zenon
    <3>. QED BY <1>1, <1>3, <3>2, Zenon DEF RingOk, Contents
  <2>6. Editor!Erase
    BY <1>3, <2>2, <2>3, Zenon DEF Editor!Erase, Ready, Line, Seg, R, L, At
  <2>. QED BY <1>1, <1>5, <2>1, <2>2, <2>4, <2>5, <2>6, Zenon DEF RingOk, EditorStep, Editor!Next
<1>6. CASE e' = e
  BY <1>6, SameRing, Zenon
<1>. QED BY <1>4, <1>5, <1>6, Zenon DEF erasable

\* The ring's step at a key.
LEMMA KeyRing ==
  ASSUME IInv, NEW k \in Keys, intr_key(k)
  PROVE  RingOk' /\ EditorStep
<1>. DEFINE c == IF k = "cr" THEN "nl" ELSE k
            e1 == (e + 1) % WRAP
<1>1. r' = r
  BY Zenon DEF intr_key
<1>2. CASE buf' = buf /\ w' = w /\ e' = e
  BY <1>1, <1>2, SameRing, Zenon
<1>3. CASE buf' = buf /\ w' = w /\ (e' = kill_line \/ e' = IF erasable THEN (e - 1) % WRAP ELSE e)
  BY <1>1, <1>3, KeyErased, Zenon
<1>4. CASE /\ k \notin {"P", "U", "H", "0"} /\ ~(Between(r, e) >= INPUT_BUF)
           /\ buf' = [buf EXCEPT ![e % INPUT_BUF] = c] /\ e' = e1
           /\ w' = IF line_ends(c, e1) THEN e1 ELSE w
  <2>1. c \in Chars
    BY <1>4, Zenon DEF Keys, Chars
  <2>. HIDE DEF c, e1
  <2>2. e1 = (e + 1) % WRAP
    BY DEF e1
  <2>. QED BY <1>1, <1>4, <2>1, <2>2, KeyTyped, Zenon
<1>. QED BY <1>2, <1>3, <1>4, Zenon DEF intr_key

\* A character is read, or the end of file is kept.
LEMMA ReadRing ==
  ASSUME IInv, NEW p \in Readers, consoleread(p)
  PROVE  RingOk' /\ EditorStep
<1>1. buf' = buf /\ w' = w /\ e' = e /\ r # w /\ (r' = r \/ r' = (r + 1) % WRAP)
  BY Zenon DEF consoleread
<1>2. CASE r' = r
  BY <1>1, <1>2, SameRing, Zenon
<1>3. CASE r' = (r + 1) % WRAP
  <2>1. PICK r1 : r1 = (r + 1) % WRAP
    BY Zenon
  <2>2. /\ r1 \in 0..(WRAP - 1) /\ R # 0 /\ Between(r1, w) = R - 1
        /\ Ready # << >> /\ Seg(buf, r1, R - 1) = Tail(Ready)
    BY <1>1, <2>1, Taken, Zenon
  <2>3. Line' = Line /\ L' = L
    BY <1>1, Zenon DEF Line, Seg, L, Between
  <2>4. R' = R - 1 /\ Ready' = Tail(Ready)
    BY <1>1, <1>3, <2>1, <2>2, NextLines, Zenon
  <2>5. RingOk
    BY Zenon DEF IInv, Types, RingOk
  <2>6. R \in Nat /\ L \in Nat /\ INPUT_BUF \in Nat /\ Ready \in Seq(Chars)
    BY Lengths, Known, Zenon
  <2>. HIDE DEF R, L
  <2>7. Ring'
    BY SMT, SMTT(40), <2>2, <2>3, <2>4, <2>5, <2>6 DEF Ring, RingOk
  <2>8. Tail(Ready) \in Seq(Chars)
    BY <2>2, <2>6, HeadTailProperties, Zenon
  <2>9. Contents'
    BY <2>3, <2>4, <2>5, <2>8, Zenon DEF RingOk, Contents
  <2>10. Editor!Take
    BY <2>2, <2>3, <2>4, Zenon DEF Editor!Take, Ready, Line, Seg, R, L, At
  <2>. QED BY <1>1, <1>3, <2>1, <2>2, <2>5, <2>7, <2>9, <2>10, Zenon DEF RingOk, EditorStep, Editor!Next
<1>. QED BY <1>1, <1>2, <1>3, Zenon
-----------------------------------------------------------------------------
(***************************************************************************)
(* The readers' part of the invariant.                                     *)
(***************************************************************************)
ReaderTypes ==
  /\ clock \in Readers \cup {"free", "intr"}
  /\ pc \in [Readers -> PCs]
  /\ n \in [Readers -> Nat] /\ target \in [Readers -> Nat]
  /\ got \in [Readers -> Seq(Keys)]
  /\ killed \in [Readers -> {0, 1}]

ReadersOk == ReaderTypes /\ Control /\ Calls

\* The two parts make the invariant.
LEMMA Parts ==
  /\ IInv => ReadersOk /\ RingOk
  /\ IInv /\ ReadersOk' /\ RingOk' => IInv'
<1>1. IInv => ReadersOk /\ RingOk
  BY Zenon DEF IInv, Types, ReadersOk, ReaderTypes, RingOk
<1>2. ASSUME IInv, ReadersOk', RingOk' PROVE IInv'
  <2>1. ConsoleConstants'
    BY <1>2, Zenon DEF IInv, ConsoleConstants
  <2>. QED BY <1>2, <2>1, Zenon DEF IInv, Types, ReadersOk, ReaderTypes, RingOk
<1>. QED BY <1>1, <1>2, Zenon

\* cons.lock held by a reader is neither free nor held by consoleintr().
LEMMA Owners ==
  ASSUME IInv, NEW p \in Readers
  PROVE  p # "free" /\ p # "intr"
BY Zenon DEF IInv, ConsoleConstants

\* consoleintr() takes and gives up the lock.
LEMMA IntrReaders ==
  ASSUME IInv, intr \/ intr_done
  PROVE  ReadersOk'
<1>1. ReaderTypes /\ Control /\ Calls
  BY Parts, Zenon DEF ReadersOk
<1>2. /\ clock \in {"free", "intr"} /\ clock' \in {"free", "intr"}
      /\ buf' = buf /\ r' = r /\ w' = w /\ e' = e /\ pc' = pc /\ n' = n /\ target' = target
      /\ got' = got /\ killed' = killed
  BY Zenon DEF intr, intr_done
<1>3. ReaderTypes'
  BY <1>1, <1>2, Zenon DEF ReaderTypes
<1>4. ASSUME NEW p \in Readers PROVE p # clock /\ p # clock'
  BY <1>2, Owners, Zenon
<1>5. Control'
  BY <1>1, <1>2, <1>4, Zenon DEF Control
<1>6. Calls'
  BY <1>1, <1>2, Zenon DEF Calls, CallOf
<1>. QED BY <1>3, <1>5, <1>6, Zenon DEF ReadersOk

\* A key.  Those that sleep are woken up when there is more to read.
LEMMA KeyReaders ==
  ASSUME IInv, NEW k \in Keys, intr_key(k)
  PROVE  ReadersOk'
<1>1. ReaderTypes /\ Control /\ Calls
  BY Parts, Zenon DEF ReadersOk
<1>2. /\ clock = "intr" /\ clock' = clock /\ r' = r /\ n' = n /\ target' = target
      /\ got' = got /\ killed' = killed
      /\ (w' = w /\ pc' = pc) \/ pc' = wakeup(pc)
  BY Zenon DEF intr_key
<1>3. pc' \in [Readers -> PCs] /\ \A p \in Readers : pc'[p] = pc[p] \/ (pc[p] = "asleep" /\ pc'[p] = "reading")
  <2>1. CASE pc' = pc
    BY <1>1, <2>1, Zenon DEF ReaderTypes
  <2>2. CASE pc' = wakeup(pc)
    <3>1. pc \in [Readers -> PCs] /\ "reading" \in PCs
      BY <1>1, Zenon DEF ReaderTypes, PCs
    <3>. QED BY <2>2, <3>1, Zenon DEF wakeup
  <2>. QED BY <1>2, <2>1, <2>2, Zenon
<1>4. ReaderTypes'
  BY <1>1, <1>2, <1>3, Zenon DEF ReaderTypes
<1>5. ASSUME NEW p \in Readers PROVE p # clock
  BY <1>2, Owners, Zenon
<1>6. Control'
  <2>1. CASE w' = w /\ pc' = pc
    BY <1>1, <1>2, <1>5, <2>1, Zenon DEF Control
  <2>2. CASE pc' = wakeup(pc)
    <3>1. ASSUME NEW p \in Readers PROVE pc'[p] # "asleep" /\ pc'[p] # "sleep"
      <4>1. pc[p] # "sleep"
        BY <1>1, <1>5, <3>1, Zenon DEF Control
      <4>2. pc'[p] = IF pc[p] = "asleep" THEN "reading" ELSE pc[p]
        BY <2>2, <3>1, Zenon DEF wakeup
      <4>. QED BY <4>1, <4>2
    <3>. QED BY <1>2, <1>5, <3>1, Zenon DEF Control
  <2>. QED BY <1>2, <2>1, <2>2, Zenon
<1>7. Calls'
  <2>1. ASSUME NEW p \in Readers PROVE pc'[p] = "idle" <=> pc[p] = "idle"
    BY SMT, SMTT(40), <1>3, <2>1
  <2>. QED BY <1>1, <1>2, <2>1, Zenon DEF Calls, CallOf
<1>. QED BY <1>4, <1>6, <1>7, Zenon DEF ReadersOk

\* consoleread() is called.
LEMMA CallReaders ==
  ASSUME IInv, NEW p \in Readers, NEW k \in Counts, Call(p, k)
  PROVE  ReadersOk'
<1>1. ReaderTypes /\ Control /\ Calls
  BY Parts, Zenon DEF ReadersOk
<1>2. k \in Nat /\ k >= 1
  BY DEF IInv, ConsoleConstants
<1>3. /\ pc[p] = "idle" /\ pc' = [pc EXCEPT ![p] = "reading"]
      /\ n' = [n EXCEPT ![p] = k] /\ target' = [target EXCEPT ![p] = k]
      /\ clock' = clock /\ r' = r /\ w' = w /\ got' = got /\ killed' = killed
  BY Zenon DEF Call
<1>4. /\ pc' \in [Readers -> PCs] /\ n' \in [Readers -> Nat] /\ target' \in [Readers -> Nat]
      /\ pc'[p] = "reading" /\ n'[p] = k /\ target'[p] = k
      /\ \A q \in Readers : q # p => pc'[q] = pc[q] /\ n'[q] = n[q] /\ target'[q] = target[q]
  BY <1>1, <1>2, <1>3, Zenon DEF ReaderTypes, PCs
<1>5. ReaderTypes'
  BY <1>1, <1>3, <1>4, Zenon DEF ReaderTypes
<1>6. ASSUME NEW q \in Readers
      PROVE  /\ clock' = q => pc'[q] \in {"reading", "sleep"}
             /\ pc'[q] = "sleep" => clock' = q /\ r' = w'
             /\ pc'[q] = "asleep" => r' = w'
  BY SMT, SMTT(40), <1>1, <1>3, <1>4, <1>6 DEF Control
<1>7. ASSUME NEW q \in Readers PROVE CallOf(q)'
  <2>1. CASE q = p
    <3>1. got[p] = << >>
      BY <1>1, <1>3, Zenon DEF Calls, CallOf
    <3>2. Len(got'[p]) = 0
      BY SMT, SMTT(40), <1>3, <3>1
    <3>. QED BY SMT, SMTT(40), <1>2, <1>4, <2>1, <3>2 DEF CallOf
  <2>2. CASE q # p
    BY <1>1, <1>3, <1>4, <1>7, <2>2, Zenon DEF Calls, CallOf
  <2>. QED BY <2>1, <2>2, Zenon
<1>. QED BY <1>5, <1>6, <1>7, Zenon DEF ReadersOk, Control, Calls

\* The lock is taken, or given up by sleep().
LEMMA LockReaders ==
  ASSUME IInv, NEW p \in Readers, Lock(p) \/ sleep(p)
  PROVE  ReadersOk'
<1>1. ReaderTypes /\ Control /\ Calls
  BY Parts, Zenon DEF ReadersOk
<1>2. /\ r' = r /\ w' = w /\ n' = n /\ target' = target /\ got' = got /\ killed' = killed
      /\ \/ pc[p] = "reading" /\ clock = "free" /\ clock' = p /\ pc' = pc
         \/ clock = p /\ pc[p] = "sleep" /\ clock' = "free" /\ pc' = [pc EXCEPT ![p] = "asleep"]
  BY Zenon DEF Lock, sleep
<1>3. /\ pc' \in [Readers -> PCs] /\ (pc'[p] = "idle" <=> pc[p] = "idle")
      /\ \A q \in Readers : q # p => pc'[q] = pc[q]
  BY Zenon, <1>1, <1>2 DEF ReaderTypes, PCs
<1>4. ReaderTypes'
  BY <1>1, <1>2, <1>3, Zenon DEF ReaderTypes
<1>5. ASSUME NEW q \in Readers
      PROVE  /\ clock' = q => pc'[q] \in {"reading", "sleep"}
             /\ pc'[q] = "sleep" => clock' = q /\ r' = w'
             /\ pc'[q] = "asleep" => r' = w'
  <2>1. /\ clock = q => pc[q] \in {"reading", "sleep"}
        /\ pc[q] = "sleep" => clock = q /\ r = w
        /\ pc[q] = "asleep" => r = w
        /\ pc[p] = "sleep" => r = w
    BY <1>1, <1>5, Zenon DEF Control
  <2>2. q # "free"
    BY <1>5, Owners, Zenon
  <2>3. pc[p] = "sleep" /\ pc' = [pc EXCEPT ![p] = "asleep"] => pc'[p] = "asleep"
    BY <1>1, Zenon DEF ReaderTypes
  <2>. QED BY SMT, SMTT(40), <1>2, <1>3, <1>5, <2>1, <2>2, <2>3
<1>6. ASSUME NEW q \in Readers PROVE CallOf(q)'
  <2>1. pc'[q] = "idle" <=> pc[q] = "idle"
    BY <1>3, <1>6, Zenon
  <2>. QED BY <1>1, <1>2, <1>6, <2>1, Zenon DEF Calls, CallOf
<1>. QED BY <1>4, <1>5, <1>6, Zenon DEF ReadersOk, Control, Calls

\* Nothing to read: a killed reader returns, another goes to sleep.
LEMMA WaitReaders ==
  ASSUME IInv, NEW p \in Readers, read_wait(p)
  PROVE  ReadersOk'
<1>1. ReaderTypes /\ Control /\ Calls
  BY Parts, Zenon DEF ReadersOk
<1>2. /\ clock = p /\ pc[p] = "reading" /\ r = w
      /\ r' = r /\ w' = w /\ killed' = killed
  BY Zenon DEF read_wait
<1>3. ASSUME NEW q \in Readers, q # p PROVE pc[q] # "sleep" /\ clock # q
  BY <1>1, <1>2, <1>3, Zenon DEF Control
<1>4. CASE killed[p] = 1
  <2>1. /\ pc' = [pc EXCEPT ![p] = "idle"] /\ clock' = "free"
        /\ n' = [n EXCEPT ![p] = 0] /\ target' = [target EXCEPT ![p] = 0]
        /\ got' = [got EXCEPT ![p] = << >>]
    BY <1>4, Zenon DEF read_wait
  <2>2. << >> \in Seq(Keys) /\ 0 \in Nat
    OBVIOUS
  <2>3. /\ pc' \in [Readers -> PCs] /\ n' \in [Readers -> Nat] /\ target' \in [Readers -> Nat]
        /\ got' \in [Readers -> Seq(Keys)] /\ pc'[p] = "idle" /\ got'[p] = << >>
        /\ \A q \in Readers : q # p => /\ pc'[q] = pc[q] /\ n'[q] = n[q]
                                       /\ target'[q] = target[q] /\ got'[q] = got[q]
    BY <1>1, <2>1, <2>2, Zenon DEF ReaderTypes, PCs
  <2>4. ReaderTypes'
    BY <1>1, <1>2, <2>1, <2>3, Zenon DEF ReaderTypes
  <2>5. ASSUME NEW q \in Readers
        PROVE  /\ clock' = q => pc'[q] \in {"reading", "sleep"}
               /\ pc'[q] = "sleep" => clock' = q /\ r' = w'
               /\ pc'[q] = "asleep" => r' = w'
    <3>1. q # "free"
      BY <2>5, Owners, Zenon
    <3>. QED BY SMT, SMTT(40), <1>2, <1>3, <2>1, <2>3, <2>5, <3>1
  <2>6. ASSUME NEW q \in Readers PROVE CallOf(q)'
    <3>1. CASE q = p
      BY <2>3, <3>1, Zenon DEF CallOf
    <3>2. CASE q # p
      BY <1>1, <2>3, <2>6, <3>2, Zenon DEF Calls, CallOf
    <3>. QED BY <3>1, <3>2, Zenon
  <2>. QED BY <2>4, <2>5, <2>6, Zenon DEF ReadersOk, Control, Calls
<1>5. CASE killed[p] # 1
  <2>1. pc' = [pc EXCEPT ![p] = "sleep"] /\ clock' = clock /\ n' = n /\ target' = target /\ got' = got
    BY <1>5, Zenon DEF read_wait
  <2>2. /\ pc' \in [Readers -> PCs] /\ pc'[p] = "sleep"
        /\ \A q \in Readers : q # p => pc'[q] = pc[q]
    BY <1>1, <2>1, Zenon DEF ReaderTypes, PCs
  <2>3. ReaderTypes'
    BY <1>1, <1>2, <2>1, <2>2, Zenon DEF ReaderTypes
  <2>4. ASSUME NEW q \in Readers
        PROVE  /\ clock' = q => pc'[q] \in {"reading", "sleep"}
               /\ pc'[q] = "sleep" => clock' = q /\ r' = w'
               /\ pc'[q] = "asleep" => r' = w'
    BY SMT, SMTT(40), <1>2, <1>3, <2>1, <2>2, <2>4
  <2>5. ASSUME NEW q \in Readers PROVE CallOf(q)'
    <3>1. pc'[q] = "idle" <=> pc[q] = "idle"
      BY SMT, SMTT(40), <1>2, <2>2, <2>5
    <3>. QED BY <1>1, <2>1, <2>5, <3>1, Zenon DEF Calls, CallOf
  <2>. QED BY <2>3, <2>4, <2>5, Zenon DEF ReadersOk, Control, Calls
<1>. QED BY <1>4, <1>5, Zenon

\* A round of consoleread(): nobody sleeps, as there is something to read.
LEMMA ReadReaders ==
  ASSUME IInv, NEW p \in Readers, consoleread(p)
  PROVE  ReadersOk'
<1>. DEFINE c == At(r)
            returns == c = "D" \/ c = "nl" \/ n[p] = 1
<1>1. ReaderTypes /\ Control /\ Calls
  BY Parts, Zenon DEF ReadersOk
<1>2. /\ clock = p /\ pc[p] = "reading" /\ r # w /\ w' = w /\ killed' = killed
      /\ got' = [got EXCEPT ![p] = IF returns THEN << >> ELSE Append(@, c)]
      /\ n' = [n EXCEPT ![p] = IF returns THEN 0 ELSE @ - 1]
      /\ target' = [target EXCEPT ![p] = IF returns THEN 0 ELSE @]
      /\ pc' = [pc EXCEPT ![p] = IF returns THEN "idle" ELSE @]
      /\ clock' = IF returns THEN "free" ELSE clock
  BY Zenon DEF consoleread
<1>3. ASSUME NEW q \in Readers
      PROVE  pc[q] # "sleep" /\ pc[q] # "asleep" /\ (q # p => clock # q)
  BY <1>1, <1>2, <1>3, Zenon DEF Control
<1>4. c \in Keys
  BY Known, PlaceType, Zenon DEF At
<1>5. /\ n[p] \in Nat /\ n[p] >= 1 /\ target[p] \in Nat /\ Len(got[p]) + n[p] = target[p]
      /\ got[p] \in Seq(Keys)
  BY <1>1, <1>2 DEF ReaderTypes, Calls, CallOf
<1>. HIDE DEF c, returns
<1>6. PICK n1 : n1 = n[p] - 1
  BY Zenon
<1>7. PICK g1 : g1 = Append(got[p], c)
  BY Zenon
<1>8. g1 \in Seq(Keys) /\ Len(g1) = Len(got[p]) + 1
  <2>1. got[p] \in Seq(Keys) /\ c \in Keys
    BY <1>4, <1>5, Zenon
  <2>2. Append(got[p], c) \in Seq(Keys) /\ Len(Append(got[p], c)) = Len(got[p]) + 1
    BY ONLY <2>1, AppendProperties
  <2>. QED BY <1>7, <2>2, Zenon
<1>9. n1 \in Nat /\ << >> \in Seq(Keys) /\ 0 \in Nat
  BY SMT, SMTT(40), <1>5, <1>6
<1>10. /\ pc' \in [Readers -> PCs] /\ pc'[p] = IF returns THEN "idle" ELSE "reading"
       /\ n' \in [Readers -> Nat] /\ n'[p] = IF returns THEN 0 ELSE n1
  BY <1>1, <1>2, <1>6, <1>9, Zenon DEF ReaderTypes, PCs
<1>11. /\ target' \in [Readers -> Nat] /\ target'[p] = IF returns THEN 0 ELSE target[p]
       /\ got' \in [Readers -> Seq(Keys)] /\ got'[p] = IF returns THEN << >> ELSE g1
  BY <1>1, <1>2, <1>5, <1>7, <1>8, <1>9, Zenon DEF ReaderTypes
<1>12. \A q \in Readers : q # p => /\ pc'[q] = pc[q] /\ n'[q] = n[q]
                                   /\ target'[q] = target[q] /\ got'[q] = got[q]
  BY <1>1, <1>2, Zenon DEF ReaderTypes
<1>13. ReaderTypes'
  BY <1>1, <1>2, <1>10, <1>11, Zenon DEF ReaderTypes
<1>14. ASSUME NEW q \in Readers
       PROVE  /\ clock' = q => pc'[q] \in {"reading", "sleep"}
              /\ pc'[q] # "sleep" /\ pc'[q] # "asleep"
  <2>1. q # "free" /\ pc[q] # "sleep" /\ pc[q] # "asleep" /\ (q # p => clock # q)
    BY <1>3, <1>14, Owners, Zenon
  <2>. QED BY SMT, SMTT(40), <1>2, <1>10, <1>12, <1>14, <2>1
<1>15. ASSUME NEW q \in Readers PROVE CallOf(q)'
  <2>1. CASE q = p /\ returns
    BY <1>10, <1>11, <2>1, Zenon DEF CallOf
  <2>2. CASE q = p /\ ~returns
    <3>1. pc'[p] = "reading" /\ n'[p] = n1 /\ target'[p] = target[p] /\ got'[p] = g1
      BY <1>10, <1>11, <2>2, Zenon
    <3>2. n[p] # 1
      BY <2>2, Zenon DEF returns
    <3>3. Len(got[p]) \in Nat
      BY <1>5, LenProperties, Zenon
    <3>4. n1 >= 1 /\ Len(g1) + n1 = target[p]
      BY SMT, SMTT(40), <1>5, <1>6, <1>8, <3>2, <3>3
    <3>. QED BY SMT, SMTT(40), <2>2, <3>1, <3>4 DEF CallOf
  <2>3. CASE q # p
    BY <1>1, <1>12, <1>15, <2>3, Zenon DEF Calls, CallOf
  <2>. QED BY <2>1, <2>2, <2>3, Zenon
<1>. QED BY <1>13, <1>14, <1>15, Zenon DEF ReadersOk, Control, Calls

\* kill() wakes up who sleeps.
LEMMA KillReaders ==
  ASSUME IInv, NEW p \in Readers, kill(p)
  PROVE  ReadersOk'
<1>1. ReaderTypes /\ Control /\ Calls
  BY Parts, Zenon DEF ReadersOk
<1>2. /\ clock' = clock /\ r' = r /\ w' = w /\ n' = n /\ target' = target /\ got' = got
      /\ killed' = [killed EXCEPT ![p] = 1]
      /\ pc' = [pc EXCEPT ![p] = IF @ = "asleep" THEN "reading" ELSE @]
  BY Zenon DEF kill
<1>3. /\ pc' \in [Readers -> PCs] /\ killed' \in [Readers -> {0, 1}]
      /\ pc'[p] = (IF pc[p] = "asleep" THEN "reading" ELSE pc[p])
      /\ \A q \in Readers : q # p => pc'[q] = pc[q]
  BY <1>1, <1>2, Zenon DEF ReaderTypes, PCs
<1>4. ReaderTypes'
  BY <1>1, <1>2, <1>3, Zenon DEF ReaderTypes
<1>5. ASSUME NEW q \in Readers
      PROVE  /\ clock' = q => pc'[q] \in {"reading", "sleep"}
             /\ pc'[q] = "sleep" => clock' = q /\ r' = w'
             /\ pc'[q] = "asleep" => r' = w'
  BY SMT, SMTT(40), <1>1, <1>2, <1>3, <1>5 DEF Control
<1>6. ASSUME NEW q \in Readers PROVE CallOf(q)'
  <2>1. pc'[q] = "idle" <=> pc[q] = "idle"
    BY <1>3, <1>6
  <2>. QED BY <1>1, <1>2, <1>6, <2>1, Zenon DEF Calls, CallOf
<1>. QED BY <1>4, <1>5, <1>6, Zenon DEF ReadersOk, Control, Calls
-----------------------------------------------------------------------------
(***************************************************************************)
(* The theorems.                                                           *)
(***************************************************************************)

\* At the start the ring is empty, wherever its counters are.
LEMMA InitInv ==
  ASSUME ConsoleConstants, Init
  PROVE  IInv /\ Ready = << >> /\ Line = << >>
<1>1. INPUT_BUF \in Nat /\ INPUT_BUF >= 1 /\ WRAP \in Nat /\ WRAP > INPUT_BUF
  BY DEF ConsoleConstants
<1>2. PICK k \in {0, WRAP - 1} : r = k /\ w = k /\ e = k
  BY Zenon DEF Init
<1>3. k \in 0..(WRAP - 1) /\ k \in Int
  BY <1>1, <1>2
<1>4. Between(k, k) = 0
  <2>1. Between(k, k) = IF k <= k THEN k - k ELSE k - k + WRAP
    BY <1>3, BetweenIs, Zenon
  <2>. QED BY <1>3, <2>1
<1>5. buf \in Rings
  BY Zenon DEF Init, Rings, Keys
<1>6. R = 0 /\ L = 0
  BY <1>2, <1>4, Zenon DEF R, L
<1>7. Ready = << >> /\ Line = << >>
  <2>1. Ready = Seg(buf, k, 0) /\ Line = Seg(buf, k, 0)
    BY <1>2, <1>6, Zenon DEF Ready, Line
  <2>. QED BY <1>3, <1>5, <2>1, SegEmpty, Zenon
<1>. HIDE DEF R, L, Ready, Line
<1>8. Ring
  BY SMT, SMTT(40), <1>1, <1>6 DEF Ring
<1>9. Contents
  BY <1>7 DEF Contents
<1>10. << >> \in Seq(Keys) /\ 0 \in Nat
  OBVIOUS
<1>11. Types
  BY <1>2, <1>3, <1>5, <1>10, Zenon DEF Types, Init, Rings, PCs
<1>12. Control
  <2>1. ASSUME NEW p \in Readers PROVE pc[p] = "idle" /\ clock # p
    BY <2>1, Zenon DEF Init, ConsoleConstants
  <2>. QED BY SMT, SMTT(40), <2>1 DEF Control
<1>13. Calls
  BY Zenon DEF Calls, CallOf, Init
<1>. QED BY <1>7, <1>8, <1>9, <1>11, <1>12, <1>13, Zenon DEF IInv

\* Every step keeps the invariant and is a step of the line editor, or none.
LEMMA NextInv ==
  ASSUME IInv, [Next]_vars
  PROVE  IInv' /\ EditorStep
<1>1. ASSUME intr \/ intr_done PROVE IInv' /\ EditorStep
  <2>1. buf' = buf /\ r' = r /\ w' = w /\ e' = e
    BY <1>1, Zenon DEF intr, intr_done
  <2>. QED BY <1>1, <2>1, SameRing, IntrReaders, Parts, Zenon
<1>2. ASSUME NEW k \in Keys, intr_key(k) PROVE IInv' /\ EditorStep
  BY <1>2, KeyRing, KeyReaders, Parts, Zenon
<1>3. ASSUME NEW p \in Readers, NEW k \in Counts, Call(p, k) PROVE IInv' /\ EditorStep
  <2>1. buf' = buf /\ r' = r /\ w' = w /\ e' = e
    BY <1>3, Zenon DEF Call
  <2>. QED BY <1>3, <2>1, SameRing, CallReaders, Parts, Zenon
<1>4. ASSUME NEW p \in Readers, Lock(p) \/ sleep(p) PROVE IInv' /\ EditorStep
  <2>1. buf' = buf /\ r' = r /\ w' = w /\ e' = e
    BY <1>4, Zenon DEF Lock, sleep
  <2>. QED BY <1>4, <2>1, SameRing, LockReaders, Parts, Zenon
<1>5. ASSUME NEW p \in Readers, consoleread(p) PROVE IInv' /\ EditorStep
  BY <1>5, ReadRing, ReadReaders, Parts, Zenon
<1>6. ASSUME NEW p \in Readers, read_wait(p) PROVE IInv' /\ EditorStep
  <2>1. buf' = buf /\ r' = r /\ w' = w /\ e' = e
    BY <1>6, Zenon DEF read_wait
  <2>. QED BY <1>6, <2>1, SameRing, WaitReaders, Parts, Zenon
<1>7. ASSUME NEW p \in Readers, kill(p) PROVE IInv' /\ EditorStep
  <2>1. buf' = buf /\ r' = r /\ w' = w /\ e' = e
    BY <1>7, Zenon DEF kill
  <2>. QED BY <1>7, <2>1, SameRing, KillReaders, Parts, Zenon
<1>8. CASE UNCHANGED vars
  <2>1. /\ buf' = buf /\ r' = r /\ w' = w /\ e' = e
        /\ clock' = clock /\ pc' = pc /\ n' = n /\ target' = target /\ got' = got /\ killed' = killed
    BY <1>8, Zenon DEF vars
  <2>2. ReadersOk
    BY Parts, Zenon
  <2>3. ReadersOk'
    BY <2>1, <2>2, Zenon DEF ReadersOk, ReaderTypes, Control, Calls, CallOf
  <2>. QED BY <2>1, <2>3, SameRing, Parts, Zenon
<1>. QED BY <1>1, <1>2, <1>3, <1>4, <1>5, <1>6, <1>7, <1>8, Zenon DEF Next, Step

\* The inductive invariant holds of the console.
LEMMA Invariance == ConsoleConstants /\ Spec => []IInv
<1>1. ConsoleConstants /\ Init => IInv
  BY InitInv, Zenon
<1>2. IInv /\ [Next]_vars => IInv'
  BY NextInv, Zenon
<1>. QED BY <1>1, <1>2, PTL DEF Spec

\* For every size of the ring and every multiple of it at which the counters
\* wrap: r, w and e follow each other within the ring, and what consoleintr()
\* and consoleread() store keeps its type.
THEOREM TypeCorrect == ConsoleConstants /\ Spec => []TypeOK
<1>1. ASSUME IInv PROVE TypeOK
  <2>1. Types /\ Ring /\ INPUT_BUF \in Nat
    BY <1>1, Known, Zenon DEF IInv
  <2>2. R \in Nat /\ L \in Nat /\ Between(r, e) = R + L
    BY <1>1, Counters, Zenon
  <2>3. Between(r, w) = R
    BY Zenon DEF R
  <2>. HIDE DEF R, L
  <2>4. R <= R + L /\ R + L <= INPUT_BUF
    BY <2>1, <2>2 DEF Ring
  <2>. QED BY <2>1, <2>2, <2>3, <2>4, Zenon DEF TypeOK, Types
<1>. QED BY <1>1, Invariance, PTL

\* For every such ring, what consoleintr() and consoleread() do with it is what
\* a line editor does: only the line being typed is erased, and what has been
\* handed over is read in order and once.
THEOREM Refinement == ConsoleConstants /\ Spec => ImplementsLineEditor
<1>1. ConsoleConstants /\ Init => Editor!Init
  <2>. SUFFICES ASSUME ConsoleConstants, Init PROVE Editor!Init
    BY Zenon
  <2>1. Ready = << >> /\ Line = << >>
    BY InitInv, Zenon
  <2>. QED BY <2>1, Zenon DEF Editor!Init, Ready, Line, Seg, R, L, At
<1>2. IInv /\ [Next]_vars =>
        [Editor!Next]_<<[i \in 1..Between(r, w) |-> At(r + i - 1)],
                        [i \in 1..Between(w, e) |-> At(w + i - 1)]>>
  <2>. SUFFICES ASSUME IInv, [Next]_vars, ~Editor!Next
                PROVE  UNCHANGED <<[i \in 1..Between(r, w) |-> At(r + i - 1)],
                                   [i \in 1..Between(w, e) |-> At(w + i - 1)]>>
    BY Zenon
  <2>1. Ready' = Ready /\ Line' = Line
    BY NextInv, Zenon DEF EditorStep
  <2>. QED BY <2>1, Zenon DEF Ready, Line, Seg, R, L, At
<1>. QED BY <1>1, <1>2, Invariance, PTL DEF Spec, ImplementsLineEditor, Editor!Spec

\* For any readers, no wakeup is lost: consoleread() sleeps only while there is
\* nothing to read, or consoleintr() is at work.
THEOREM NoWakeupLost == ConsoleConstants /\ Spec => []SleepersMustWait
<1>1. IInv => SleepersMustWait
  BY Zenon DEF IInv, Control, SleepersMustWait
<1>. QED BY <1>1, Invariance, PTL

\* For every such ring, consoleintr() hands over a line that fills it.
THEOREM FullHandedOver == ConsoleConstants /\ Spec => []FullIsReady
<1>1. ASSUME IInv PROVE FullIsReady
  <2>1. Ring /\ Between(r, e) = R + L /\ (L = 0 <=> w = e)
    BY <1>1, Counters, Zenon DEF IInv
  <2>. QED BY <2>1, Zenon DEF Ring, FullIsReady
<1>. QED BY <1>1, Invariance, PTL

\* For any readers and counts, the call of consoleread() that takes an end of
\* file from the ring returns nothing.
THEOREM EndOfFile == ConsoleConstants /\ Spec => EofKept
<1>1. ASSUME IInv, [Next]_vars, NEW p \in Readers,
             pc[p] = "reading", pc'[p] = "idle", r' # r, At(r) = "D"
      PROVE  got[p] = << >>
  <2>1. PICK q \in Readers : consoleread(q)
    <3>1. \A k \in Keys : intr_key(k) => r' = r
      BY Zenon DEF intr_key
    <3>2. intr \/ intr_done \/ UNCHANGED vars => r' = r
      BY Zenon DEF intr, intr_done, vars
    <3>3. \A q \in Readers, k \in Counts : Call(q, k) => r' = r
      BY Zenon DEF Call
    <3>4. \A q \in Readers : Lock(q) \/ read_wait(q) \/ sleep(q) \/ kill(q) => r' = r
      BY Zenon DEF Lock, read_wait, sleep, kill
    <3>. QED BY <1>1, <3>1, <3>2, <3>3, <3>4, Zenon DEF Next, Step
  <2>2. ReaderTypes /\ CallOf(p)
    BY <1>1, Parts, Zenon DEF ReadersOk, Calls
  <2>3. q = p
    <3>1. pc' = [pc EXCEPT ![q] = IF At(r) = "D" \/ At(r) = "nl" \/ n[q] = 1 THEN "idle" ELSE @]
      BY <2>1, Zenon DEF consoleread
    <3>2. q # p => pc'[p] = pc[p]
      BY <1>1, <2>1, <2>2, <3>1, Zenon DEF ReaderTypes
    <3>. QED BY <1>1, <3>2
  <2>4. ~(n[p] < target[p])
    BY <1>1, <2>1, <2>3, Zenon DEF consoleread, keep_eof
  <2>5. n[p] \in Nat /\ target[p] \in Nat /\ got[p] \in Seq(Keys) /\ Len(got[p]) + n[p] = target[p]
    BY <1>1, <2>2 DEF ReaderTypes, CallOf
  <2>6. Len(got[p]) \in Nat
    BY <2>5, LenProperties, Zenon
  <2>7. Len(got[p]) = 0
    BY <2>4, <2>5, <2>6
  <2>. QED BY <2>5, <2>7, EmptySeq
<1>2. IInv /\ [Next]_vars =>
        [\A p \in Readers :
           pc[p] = "reading" /\ pc'[p] = "idle" /\ r' # r /\ At(r) = "D" => got[p] = << >>]_vars
  BY <1>1, Zenon
<1>. QED BY <1>2, Invariance, PTL DEF Spec, EofKept
=============================================================================
