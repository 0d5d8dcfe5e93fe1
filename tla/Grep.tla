-------------------------------- MODULE Grep --------------------------------
(***************************************************************************)
(* xv6/grep.c: the matcher, as recursive operators on a pattern and a      *)
(* text, and grep()'s loop over the parts in which read() delivers its     *)
(* input.                                                                  *)
(***************************************************************************)
EXTENDS Integers, Sequences, FiniteSets, FiniteSetsExt, SequencesExt

CONSTANTS
  Patterns, Texts,  \* the arguments of match() that are checked
  Inputs,           \* the inputs of grep()
  BUFSIZE,          \* of buf
  MaxRead           \* read() delivers at most this much at a time

VARIABLES
  re,      \* the pattern
  text,    \* what match() is given, or grep()'s whole input
  left,    \* what read() has still to deliver
  buf,     \* the first m characters of buf
  printed, \* the lines written
  dropped, \* 1: grep() has set m to 0 over part of a line
  found,   \* the result of match()
  pc       \* match, matched, read, done

vars == <<re, text, left, buf, printed, dropped, found, pc>>
-----------------------------------------------------------------------------
\* The pattern from position i on and the text from position j on.  A position
\* after the last is that of the '\0'.
At(s, i) == IF i <= Len(s) THEN s[i] ELSE "end"

\* Mutant: c* needs one instance.
star_first_plus(t, j) == j + 1

\* Where matchstar() starts: it matches zero or more instances.
star_first(t, j) == j

RECURSIVE matchhere(_, _, _, _)
RECURSIVE matchstar(_, _, _, _, _)
matchstar(c, r, i, t, j) ==
  \/ matchhere(r, i, t, j)
  \/ At(t, j) # "end" /\ (At(t, j) = c \/ c = ".") /\ matchstar(c, r, i, t, j + 1)

matchhere(r, i, t, j) ==
  IF At(r, i) = "end" THEN TRUE
  ELSE IF At(r, i + 1) = "*" THEN matchstar(At(r, i), r, i + 2, t, star_first(t, j))
  ELSE IF At(r, i) = "$" /\ At(r, i + 1) = "end" THEN At(t, j) = "end"
  ELSE /\ At(t, j) # "end" /\ At(r, i) \in {".", At(t, j)}
       /\ matchhere(r, i + 1, t, j + 1)

\* The empty rest of the text is looked at too.
starts(t) == 1..(Len(t) + 1)

match(r, t) ==
  IF At(r, 1) = "^" THEN matchhere(r, 2, t, 1)
  ELSE \E j \in starts(t) : matchhere(r, 1, t, j)
-----------------------------------------------------------------------------
Init ==
  /\ \/ pc = "match" /\ re \in Patterns /\ text \in Texts
     \/ pc = "read" /\ re = <<"a">> /\ text \in Inputs
  /\ left = IF pc = "read" THEN text ELSE << >>
  /\ buf = << >> /\ printed = << >> /\ dropped = 0 /\ found = FALSE

\* A call of match() alone.
Match ==
  /\ pc = "match" /\ pc' = "matched" /\ found' = match(re, text)
  /\ UNCHANGED <<re, text, left, buf, printed, dropped>>

\* The lines of s that end in a new line, and what follows the last of them.
RECURSIVE LinesOf(_)
LinesOf(s) ==
  IF ~Contains(s, "nl") THEN << >>
  ELSE LET i == Min({j \in 1..Len(s) : s[j] = "nl"})
       IN << SubSeq(s, 1, i - 1) >> \o LinesOf(SubSeq(s, i + 1, Len(s)))

RestOf(s) == SubSeq(s, Max({0} \cup {j \in 1..Len(s) : s[j] = "nl"}) + 1, Len(s))

Matching(ls) == SelectSeq(ls, LAMBDA l : match(re, l))

\* What grep() keeps of buf for its next round.  Mutant: nothing.
keep_none(s) == << >>

keep(s) == IF Contains(s, "nl") THEN RestOf(s) ELSE << >>

\* One round of grep()'s loop, with the n characters that read() delivers.
grep(n) ==
  LET s == buf \o SubSeq(left, 1, n) IN
  /\ pc = "read" /\ n \in 1..Min({Len(left), BUFSIZE - Len(buf) - 1})
  /\ left' = SubSeq(left, n + 1, Len(left))
  /\ printed' = printed \o Matching(LinesOf(s))
  /\ buf' = keep(s)
  /\ dropped' = IF Contains(s, "nl") THEN dropped ELSE 1
  /\ UNCHANGED <<re, text, found, pc>>

\* read() returns 0 at the end of the input, or when it is asked for nothing.
grep_end ==
  /\ pc = "read" /\ (left = << >> \/ Len(buf) = BUFSIZE - 1)
  /\ pc' = "done"
  /\ UNCHANGED <<re, text, left, buf, printed, dropped, found>>

Done == pc \in {"matched", "done"} /\ UNCHANGED vars

Next == Match \/ (\E n \in 1..MaxRead : grep(n)) \/ grep_end \/ Done

Spec == Init /\ [][Next]_vars
-----------------------------------------------------------------------------
\* The pattern as a sequence of items, one character each, with or without *.
RECURSIVE Items(_)
Items(r) ==
  IF r = << >> THEN << >>
  ELSE IF At(r, 2) = "*" THEN << <<r[1], "*">> >> \o Items(SubSeq(r, 3, Len(r)))
  ELSE << <<r[1], "1">> >> \o Items(Tail(r))

\* The positions that a text can be at after the items, from those of S.
RECURSIVE After(_, _, _)
After(items, t, S) ==
  IF items = << >> THEN S
  ELSE LET c == Head(items)[1]
           fits(i) == i <= Len(t) /\ c \in {".", t[i]}
           next == IF Head(items)[2] = "*"
                     THEN {j \in 1..(Len(t) + 1) : \E i \in S : i <= j /\ \A k \in i..(j - 1) : fits(k)}
                     ELSE IF c = "$" /\ Len(items) = 1 THEN S \cap {Len(t) + 1}
                     ELSE {i + 1 : i \in {k \in S : fits(k)}}
       IN After(Tail(items), t, next)

\* match(), which backtracks, finds a match just when there is one: it agrees
\* with the set of all positions that the text can be at after each item.
MatchExact ==
  pc = "matched" =>
    found = IF At(re, 1) = "^" THEN After(Items(Tail(re)), text, {1}) # {}
            ELSE After(Items(re), text, 1..(Len(text) + 1)) # {}

\* grep() prints the lines that match, in order, wherever the parts in which
\* read() delivers them end.  It is not so when a part has no new line at all:
\* grep() then drops what it has, also of a line that buf has room for.
GrepExact ==
  pc = "done" /\ dropped = 0 => printed = Matching(LinesOf(text))
=============================================================================
