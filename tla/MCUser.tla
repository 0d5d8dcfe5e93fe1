------------------------------- MODULE MCUser -------------------------------
(***************************************************************************)
(* What runs above the kernel, and the library code on both sides of it:   *)
(* the shell (Shell), malloc() and free() (Heap), grep (Grep), strings,    *)
(* numbers and arguments (Text).  They share no variable: a behaviour is   *)
(* one of any of them, chosen at the start.                                *)
(***************************************************************************)
EXTENDS Shell

CONSTANTS
  START, LIMIT, MINCORE, Sizes, MaxCalls,
  Patterns, Texts, Inputs, BUFSIZE, MaxRead,
  MemSize, Bits, Bases, DIRSIZ, PathLen, MaxSz, Numbers

VARIABLES
  part,
  h_heap, h_blocks, h_asked, h_calls,
  g_re, g_text, g_left, g_buf, g_printed, g_dropped, g_found, g_pc,
  t_call

heapvars == <<h_heap, h_blocks, h_asked, h_calls>>
grepvars == <<g_re, g_text, g_left, g_buf, g_printed, g_dropped, g_found, g_pc>>
allvars == <<part, vars, heapvars, grepvars, t_call>>

\* Lines that are run, and all lines of up to 4 tokens, which are parsed.
MCRun == {
  <<"a", "|", "a", "|", "a">>,
  <<"(", "a", ";", "a", ")", "|", "a">>,
  <<"a", "|", "a", "&">>,
  <<"a", ";", "a">>,
  <<"a", "|", "a">>,
  <<"a", "&", ";", "a">>,
  <<"a", "<", "a", "|", "a", ">", "a">>,
  <<"a", "|", "a", ";", "a">>,
  <<"a", "|">>,
  <<"a", ")">>,
  <<"(", "a", "&", ")", "|", "(", "a", "|", "a", ")">>}

UpTo(S, n) == UNION {[1..k -> S] : k \in 0..n}

MCLines == MCRun \cup UpTo(Tokens, 4)
MCPatterns == UpTo({"a", "b", ".", "*", "$", "^"}, 4)
MCTexts == UpTo({"a", "b"}, 3)
MCNumbers == -1..1100
MCInputs == UpTo({"a", "b", "nl"}, 5)

H ==
  INSTANCE Heap WITH
    heap <- h_heap, blocks <- h_blocks, asked <- h_asked, calls <- h_calls

G ==
  INSTANCE Grep WITH
    re <- g_re, text <- g_text, left <- g_left, buf <- g_buf,
    printed <- g_printed, dropped <- g_dropped, found <- g_found, pc <- g_pc

T ==
  INSTANCE Text WITH call <- t_call

MCInit ==
  /\ part \in {"shell", "heap", "grep", "text"}
  /\ Init /\ H!Init /\ G!Init /\ T!Init
  /\ part # "grep" => g_text = << >> /\ g_pc = "read"

MCNext ==
  \/ part = "shell" /\ Next /\ UNCHANGED <<part, heapvars, grepvars, t_call>>
  \/ part = "heap" /\ H!Next /\ UNCHANGED <<part, vars, grepvars, t_call>>
  \/ part = "grep" /\ G!Next /\ UNCHANGED <<part, vars, heapvars, t_call>>
  \/ part = "text" /\ T!Next /\ UNCHANGED <<part, vars, heapvars, grepvars>>

MCFairness == \A p \in Pids : WF_vars(part = "shell" /\ Step(p))

MCSpec == MCInit /\ [][MCNext]_allvars /\ MCFairness
-----------------------------------------------------------------------------
(***************************************************************************)
(* The properties of the parts (Shell's are its own).                      *)
(***************************************************************************)

\* The blocks of umalloc.c tile the heap, its ring is sorted and joined, and
\* malloc() fails only when no block is large enough and the heap cannot grow.
HeapConsistent == H!Consistent

\* match() of grep.c finds a match just when there is one, and grep() prints the
\* lines that match, however read() splits its input, where each part has the
\* end of a line.
GrepExact == G!MatchExact /\ G!GrepExact

\* The functions of string.c, skipelem(), printint(), the checks of system call
\* arguments and sys_find_digital_root() return what they should.
FunctionsExact == T!FunctionsExact
=============================================================================
