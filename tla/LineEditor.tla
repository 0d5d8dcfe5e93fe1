----------------------------- MODULE LineEditor -----------------------------
(***************************************************************************)
(* What the console's input promises: a line that can be edited until it   *)
(* is ended, and a queue of the characters of ended lines.                 *)
(***************************************************************************)
EXTENDS Integers, Sequences

CONSTANTS Size,   \* how many characters there is room for
          Chars,  \* the characters
          Ends    \* those of them that end a line

VARIABLES ready, \* the characters that can be read
          edit   \* the line being typed

Init == ready = << >> /\ edit = << >>

\* A character is typed; the line ends at a character of Ends, or when there is
\* no more room.
Type(c) ==
  /\ Len(ready) + Len(edit) < Size
  /\ IF c \in Ends \/ Len(ready) + Len(edit) + 1 = Size
       THEN ready' = (ready \o edit) \o <<c>> /\ edit' = << >>
       ELSE edit' = Append(edit, c) /\ UNCHANGED ready

Erase ==
  /\ edit # << >>
  /\ edit' = SubSeq(edit, 1, Len(edit) - 1)
  /\ UNCHANGED ready

EraseLine == edit' = << >> /\ UNCHANGED ready

Take == ready # << >> /\ ready' = Tail(ready) /\ UNCHANGED edit

Next == (\E c \in Chars : Type(c)) \/ Erase \/ EraseLine \/ Take

Spec == Init /\ [][Next]_<<ready, edit>>
=============================================================================
