-------------------------------- MODULE Text --------------------------------
(***************************************************************************)
(* The loops over strings and numbers that the kernel and the programs     *)
(* rest on: string.c, ulib.c, the conversions of printf.c and console.c,   *)
(* skipelem() of fs.c, the checks of syscall.c on the arguments of system  *)
(* calls and the digital root of sysutils.c.  A state holds one call and   *)
(* its result; the properties compare the result with a reference.         *)
(***************************************************************************)
EXTENDS Integers, Sequences, FiniteSets, FiniteSetsExt, SequencesExt

CONSTANTS
  MemSize,        \* bytes of memory for the calls of string.c
  Bits,           \* the width of an int
  Bases,          \* of printint()
  DIRSIZ,
  PathLen,        \* the longest path given to skipelem()
  MaxSz,          \* the largest p->sz
  Numbers         \* arguments of sys_find_digital_root()

VARIABLE call   \* the function, its arguments and its result

fn == call[1]
arg == call[2]
out == call[3]

Word == 2 ^ Bits
Ints == (-(Word \div 2))..(Word \div 2 - 1)
Uint(i) == i % Word
Sint(u) == IF u % Word < Word \div 2 THEN u % Word ELSE (u % Word) - Word

\* Memory: byte 0 is '\0'.
Addrs == 0..(MemSize - 1)
Fresh == [a \in Addrs |-> a + 1]
-----------------------------------------------------------------------------
\* memmove() of string.c, a byte at a time, from the end when the destination
\* overlaps the source from above.
RECURSIVE copy_up(_, _, _, _)
copy_up(mem, d, s, n) ==
  IF n = 0 THEN mem ELSE copy_up([mem EXCEPT ![d] = mem[s]], d + 1, s + 1, n - 1)

RECURSIVE copy_down(_, _, _, _)
copy_down(mem, d, s, n) ==
  IF n = 0 THEN mem
  ELSE copy_down([mem EXCEPT ![d + n - 1] = mem[s + n - 1]], d, s, n - 1)

\* Mutant: the last byte is not taken to overlap.
overlap_short(d, s, n) == s < d /\ s + n > d + 1

overlap(d, s, n) == s < d /\ s + n > d

memmove(mem, d, s, n) ==
  IF overlap(d, s, n) THEN copy_down(mem, d, s, n) ELSE copy_up(mem, d, s, n)

\* memmove() of ulib.c, with which grep moves the rest of its buffer down.
umemmove(mem, d, s, n) == copy_up(mem, d, s, n)

\* strncpy() of the string t (a '\0' follows it) to the first n bytes of mem,
\* with n counted down as the code does.
RECURSIVE fill(_, _, _)
fill(mem, s, n) == IF n > 0 THEN fill([mem EXCEPT ![s] = 0], s + 1, n - 1) ELSE mem

Char(t, i) == IF i <= Len(t) THEN t[i] ELSE 0

RECURSIVE strncpy_from(_, _, _, _)
strncpy_from(mem, s, t, n) ==
  IF n <= 0 THEN mem
  ELSE IF Char(t, s + 1) = 0 THEN fill([mem EXCEPT ![s] = 0], s + 1, n - 1)
  ELSE strncpy_from([mem EXCEPT ![s] = Char(t, s + 1)], s + 1, t, n - 1)

strncpy(mem, t, n) == strncpy_from(mem, 0, t, n)

\* safestrcpy(): --n before the test.  Mutant: n-- after it.
room_late(n) == n

room(n) == n - 1

RECURSIVE safestrcpy_from(_, _, _, _)
safestrcpy_from(mem, s, t, n) ==
  IF n > 0 /\ Char(t, s + 1) # 0
    THEN safestrcpy_from([mem EXCEPT ![s] = Char(t, s + 1)], s + 1, t, n - 1)
    ELSE [mem EXCEPT ![s] = 0]

safestrcpy(mem, t, n) == IF n <= 0 THEN mem ELSE safestrcpy_from(mem, 0, t, room(n))

\* strncmp() and strcmp() (n beyond both lengths): the first difference.
\* Mutant: the nth bytes are not compared.
spent_early(n) == n <= 1

spent(n) == n = 0

RECURSIVE strncmp_from(_, _, _, _)
strncmp_from(p, q, i, n) ==
  IF ~spent(n) /\ Char(p, i) # 0 /\ Char(p, i) = Char(q, i) THEN strncmp_from(p, q, i + 1, n - 1)
  ELSE IF spent(n) THEN 0 ELSE Char(p, i) - Char(q, i)

strncmp(p, q, n) == strncmp_from(p, q, 1, n)
-----------------------------------------------------------------------------
\* printint(): digits from the last while some of x is left, of -xx as an
\* unsigned number where xx is negative and printed with its sign.  Mutant: a
\* digit is lost where x is the base.
more_gt(x, base) == x > base

more(x, base) == x \div base # 0

RECURSIVE digits(_, _)
digits(x, base) ==
  IF more(x, base) THEN Append(digits(x \div base, base), x % base) ELSE <<x % base>>

printint(xx, base, sgn) ==
  LET neg == sgn /\ xx < 0 IN
  [minus |-> neg, digits |-> digits(IF neg THEN Uint(-xx) ELSE Uint(xx), base)]

\* atoi() in the given base: its sums wrap as ints do.
atoi(s, base) == FoldLeft(LAMBDA n, c : Sint(n * base + c), 0, s)
-----------------------------------------------------------------------------
\* skipelem() of a path, a sequence of "/" and letters: the rest and the name,
\* or nothing.
RECURSIVE noslash(_)
noslash(path) == IF path # << >> /\ Head(path) = "/" THEN noslash(Tail(path)) ELSE path

RECURSIVE element(_)
element(path) ==
  IF path = << >> \/ Head(path) = "/" THEN << >> ELSE <<Head(path)>> \o element(Tail(path))

\* Mutant: the slashes after the element stay.
rest_slash(path) == path

rest(path) == noslash(path)

NoElem == <<"none", "none">>
skipelem(path) ==
  LET p == noslash(path)  s == element(p) IN
  IF p = << >> THEN NoElem
  ELSE <<rest(SubSeq(p, Len(s) + 1, Len(p))), SubSeq(s, 1, Min({Len(s), DIRSIZ}))>>

\* The names that namex() gets from a path, one after the other, each with
\* whether nameiparent stops before it: *path == '\0'.
RECURSIVE names(_)
names(path) ==
  LET r == skipelem(path) IN
  IF r = NoElem THEN << >> ELSE <<[name |-> r[2], last |-> r[1] = << >>]>> \o names(r[1])
-----------------------------------------------------------------------------
\* argptr(): the block of size bytes at i lies below sz.
below(i, sz) == Uint(i) < sz

argptr(i, size, sz) == size >= 0 /\ below(i, sz) /\ Uint(Uint(i) + size) <= sz

\* fetchint() of the 4 bytes at addr, and argint()'s address of argument n.
\* Mutant: only the first byte is checked.
fetchint_byte(addr, sz) == addr < sz

fetchint(addr, sz) == addr < sz /\ Uint(addr + 4) <= sz

argint(esp, n, sz) == fetchint(Uint(esp + 4 + 4 * n), sz)

\* fetchstr(): the length of the string at addr, or -1; nul: where '\0's are.
end(sz) == sz - 1

fetchstr(addr, nul, sz) ==
  LET ends == nul \cap (addr..end(sz)) IN
  IF addr >= sz \/ ends = {} THEN -1 ELSE Min(ends) - addr

\* sys_find_digital_root(): res after a digit more.  Mutant: 9 is cast out too.
cast_out_nine(res) == IF res >= 9 THEN res - 9 ELSE res

cast_out(res) == IF res > 9 THEN res - 9 ELSE res

RECURSIVE digital_root(_, _)
digital_root(n, res) ==
  IF n <= 0 THEN res ELSE digital_root(n \div 10, cast_out(res + (n % 10)))
-----------------------------------------------------------------------------
Strings(n) == UNION {[1..k -> {1, 2}] : k \in 0..n}
Paths == UNION {[1..k -> {"/", "a", "b"}] : k \in 0..PathLen}

Idle == <<"none", << >>, << >>>>
Init == call = Idle

Call(f, a, r) == call' = <<f, a, r>>

call_memmove ==
  /\ fn = "none"
  /\ \E d \in Addrs, s \in Addrs, n \in 0..MemSize :
       /\ d + n <= MemSize /\ s + n <= MemSize
       /\ \/ Call("memmove", <<d, s, n>>, memmove(Fresh, d, s, n))
          \/ Call("umemmove", <<d, s, n>>, umemmove(Fresh, d, s, n))

call_strncpy ==
  /\ fn = "none"
  /\ \E t \in Strings(MemSize - 1), n \in 0..(MemSize - 1) :
       Call("strncpy", <<t, n>>, strncpy(Fresh, t, n))

call_safestrcpy ==
  /\ fn = "none"
  /\ \E t \in Strings(MemSize - 1), n \in 0..(MemSize - 1) :
       Call("safestrcpy", <<t, n>>, safestrcpy(Fresh, t, n))

call_strncmp ==
  /\ fn = "none"
  /\ \E p \in Strings(3), q \in Strings(3), n \in 0..4 :
       Call("strncmp", <<p, q, n>>, strncmp(p, q, n))

call_printint ==
  /\ fn = "none"
  /\ \E xx \in Ints, base \in Bases, sgn \in BOOLEAN :
       Call("printint", <<xx, base, sgn>>, printint(xx, base, sgn))

call_skipelem ==
  /\ fn = "none"
  /\ \E path \in Paths : Call("skipelem", <<path>>, names(path))

call_argptr ==
  /\ fn = "none"
  /\ \E i \in Ints, size \in Ints, sz \in 0..MaxSz :
       Call("argptr", <<i, size, sz>>, argptr(i, size, sz))

call_argint ==
  /\ fn = "none"
  /\ \E esp \in 0..(Word - 1), n \in 0..2, sz \in 0..MaxSz :
       Call("argint", <<esp, n, sz>>, argint(esp, n, sz))

call_fetchstr ==
  /\ fn = "none"
  /\ \E addr \in 0..(Word - 1), nul \in SUBSET (0..4), sz \in 0..4 :
       Call("fetchstr", <<addr, nul, sz>>, fetchstr(addr, nul, sz))

call_digital_root ==
  /\ fn = "none"
  /\ \E n \in Numbers : Call("digital_root", <<n>>, digital_root(n, 0))

Return == fn # "none" /\ call' = Idle

Next ==
  \/ call_memmove \/ call_strncpy \/ call_safestrcpy \/ call_strncmp
  \/ call_printint \/ call_skipelem \/ call_argptr \/ call_argint \/ call_fetchstr
  \/ call_digital_root \/ Return

Spec == Init /\ [][Next]_call
-----------------------------------------------------------------------------
(***************************************************************************)
(* Properties.                                                             *)
(***************************************************************************)

\* memmove() moves what was there before, also where the blocks overlap; the
\* one of ulib.c does so where the destination is not above the source.
MemmoveExact ==
  fn = "memmove" \/ (fn = "umemmove" /\ arg[1] <= arg[2]) =>
    LET d == arg[1]  s == arg[2]  n == arg[3] IN
    out = [a \in Addrs |-> IF a \in d..(d + n - 1) THEN Fresh[a - d + s] ELSE Fresh[a]]

\* strncpy() writes all of the n bytes and no others; safestrcpy() writes at
\* most n, the last of them '\0' and the others the beginning of the string.
CopiesBounded ==
  LET t == arg[1]  n == arg[2] IN
  /\ fn = "strncpy" => out = [a \in Addrs |-> IF a < n THEN Char(t, a + 1) ELSE Fresh[a]]
  /\ fn = "safestrcpy" =>
       LET k == Min({Len(t), n - 1}) IN
       out = IF n = 0 THEN Fresh
             ELSE [a \in Addrs |-> IF a < k THEN t[a + 1] ELSE IF a = k THEN 0 ELSE Fresh[a]]

\* strncmp() is 0 just for strings whose first n bytes are the same, and
\* otherwise has the sign of the order of dictionaries.
StrncmpOrders ==
  fn = "strncmp" =>
    LET p == SubSeq(arg[1], 1, Min({arg[3], Len(arg[1])}))
        q == SubSeq(arg[2], 1, Min({arg[3], Len(arg[2])}))
        less(a, b) == \E i \in 1..Len(b) :
          /\ i <= Len(a) + 1 /\ SubSeq(a, 1, i - 1) = SubSeq(b, 1, i - 1)
          /\ Char(a, i) < b[i]
    IN (out = 0 <=> p = q) /\ (out < 0 <=> less(p, q)) /\ (out > 0 <=> less(q, p))

\* printint() prints the number it is given, the least int included, without
\* a leading 0: atoi() of it gives the number back.
PrintintExact ==
  fn = "printint" =>
    LET ds == out.digits IN
    /\ atoi(ds, arg[2]) = Sint(IF out.minus THEN -arg[1] ELSE arg[1])
    /\ out.minus <=> (arg[3] /\ arg[1] < 0)
    /\ ds[1] = 0 => Len(ds) = 1

\* Repeated skipelem()s go through the elements of a path: the longest runs
\* without a slash, in order, each cut to DIRSIZ.  At the last of them, and at
\* no other, the rest of the path is empty, also where slashes follow.
SkipelemExact ==
  fn = "skipelem" =>
    LET path == arg[1]
        first == {i \in 1..Len(path) : path[i] # "/" /\ (i = 1 \/ path[i - 1] = "/")}
        last(i) == Max({j \in i..Len(path) : \A k \in i..j : path[k] # "/"})
        nth(k) == CHOOSE i \in first : Cardinality({j \in first : j < i}) = k - 1
    IN out = [k \in 1..Cardinality(first) |->
                [name |-> SubSeq(path, nth(k), Min({last(nth(k)), nth(k) + DIRSIZ - 1})),
                 last |-> k = Cardinality(first)]]

\* What argptr(), argint() and fetchstr() accept lies in the process, below
\* p->sz, although their sums wrap; and they accept all that does.
ArgumentsInside ==
  /\ fn = "argptr" =>
       (out <=> arg[2] >= 0 /\ Uint(arg[1]) < arg[3] /\ Uint(arg[1]) + arg[2] <= arg[3])
  /\ fn = "argint" =>
       (out => \A k \in 0..3 : Uint(arg[1] + 4 + 4 * arg[2]) + k < arg[3])
  /\ fn = "fetchstr" =>
       (out # -1 <=> \E k \in arg[2] : arg[1] <= k /\ k < arg[3])

\* sys_find_digital_root(), which reduces its sum at every digit, computes the
\* one digit that n is congruent to modulo 9, and 9 rather than 0.
DigitalRootExact ==
  fn = "digital_root" =>
    out = IF arg[1] <= 0 THEN 0
          ELSE CHOOSE d \in 1..9 : \E q \in 0..arg[1] : arg[1] = 9 * q + d

\* Every function returns what its reference definition says.
FunctionsExact ==
  /\ MemmoveExact /\ CopiesBounded /\ StrncmpOrders /\ PrintintExact
  /\ SkipelemExact /\ ArgumentsInside /\ DigitalRootExact
=============================================================================
