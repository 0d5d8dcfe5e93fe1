------------------------------- MODULE Shell --------------------------------
(***************************************************************************)
(* The shell, xv6/sh.c: the parser, as operators on sequences of tokens,   *)
(* and runcmd(), whose processes fork, plumb pipes and wait for each       *)
(* other.  The calls of the kernel are modelled by what the shell sees of  *)
(* them: Proc, Pipe and Names have the calls themselves.                   *)
(***************************************************************************)
EXTENDS Integers, Sequences, FiniteSets, FiniteSetsExt

CONSTANTS
  Lines,     \* the command lines that are parsed
  RunLines,  \* those of them that are also run
  MAXARGS,
  NPROC      \* processes; fork() fails when all are in use

\* A token is what gettoken() returns: "a" is a word.
Tokens == {"a", "|", "&", ";", "(", ")", "<", ">"}

VARIABLES
  line,   \* the command line
  procs   \* the processes

vars == <<line, procs>>
-----------------------------------------------------------------------------
(***************************************************************************)
(* The parser.  It works on line ts from position i on; a result has the   *)
(* command and the next position, or the type "panic" where the code       *)
(* panics.  A word is named by its position.                               *)
(***************************************************************************)
execcmd(argv) == [type |-> "EXEC", argv |-> argv]
redircmd(cmd, file, fd) == [type |-> "REDIR", cmd |-> cmd, file |-> file, fd |-> fd]
pipecmd(left, right) == [type |-> "PIPE", left |-> left, right |-> right]
listcmd(left, right) == [type |-> "LIST", left |-> left, right |-> right]
backcmd(cmd) == [type |-> "BACK", cmd |-> cmd]

Panic == [type |-> "panic"]
Parsed(cmd, i) == [cmd |-> cmd, at |-> i]
Fails(r) == r.cmd = Panic

\* peek(): the next token is one of toks.
peek(ts, i, toks) == i <= Len(ts) /\ ts[i] \in toks

\* The loop of parseredirs().
RECURSIVE parseredirs(_, _, _)
parseredirs(cmd, ts, i) ==
  IF ~peek(ts, i, {"<", ">"}) THEN Parsed(cmd, i)
  ELSE IF ~peek(ts, i + 1, {"a"}) THEN Parsed(Panic, i)
  ELSE parseredirs(redircmd(cmd, i + 1, IF ts[i] = "<" THEN 0 ELSE 1), ts, i + 2)

\* The execcmd below the redirections, which parseexec() goes on filling.
RECURSIVE WithArg(_, _)
WithArg(cmd, word) ==
  IF cmd.type = "EXEC" THEN [cmd EXCEPT !.argv = Append(@, word)]
  ELSE [cmd EXCEPT !.cmd = WithArg(@, word)]

\* The loop of parseexec().
too_many(argc) == argc >= MAXARGS

RECURSIVE parseargs(_, _, _, _)
parseargs(cmd, argc, ts, i) ==
  IF peek(ts, i, {"|", ")", "&", ";"}) \/ i > Len(ts) THEN Parsed(cmd, i)
  ELSE IF ts[i] # "a" \/ too_many(argc + 1) THEN Parsed(Panic, i)
  ELSE LET r == parseredirs(WithArg(cmd, i), ts, i + 1)
       IN IF Fails(r) THEN r ELSE parseargs(r.cmd, argc + 1, ts, r.at)

\* What parseline() does after a pipeline.
RECURSIVE parseback(_, _, _)
parseback(cmd, ts, i) ==
  IF peek(ts, i, {"&"}) THEN parseback(backcmd(cmd), ts, i + 1) ELSE Parsed(cmd, i)

RECURSIVE parseline(_, _)
RECURSIVE parsepipe(_, _)

parseblock(ts, i) ==
  LET r == parseline(ts, i + 1) IN
  IF Fails(r) THEN r
  ELSE IF ~peek(ts, r.at, {")"}) THEN Parsed(Panic, r.at)
  ELSE parseredirs(r.cmd, ts, r.at + 1)

parseexec(ts, i) ==
  IF peek(ts, i, {"("}) THEN parseblock(ts, i)
  ELSE LET r == parseredirs(execcmd(<< >>), ts, i)
       IN IF Fails(r) THEN r ELSE parseargs(r.cmd, 0, ts, r.at)

parsepipe(ts, i) ==
  LET l == parseexec(ts, i) IN
  IF Fails(l) \/ ~peek(ts, l.at, {"|"}) THEN l
  ELSE LET r == parsepipe(ts, l.at + 1)
       IN IF Fails(r) THEN r ELSE Parsed(pipecmd(l.cmd, r.cmd), r.at)

parseline(ts, i) ==
  LET p == parsepipe(ts, i)
      l == IF Fails(p) THEN p ELSE parseback(p.cmd, ts, p.at)
  IN
  IF Fails(l) \/ ~peek(ts, l.at, {";"}) THEN l
  ELSE LET r == parseline(ts, l.at + 1)
       IN IF Fails(r) THEN r ELSE Parsed(listcmd(l.cmd, r.cmd), r.at)

\* Anything left over is a syntax error.  Mutant: it is ignored.
leftovers_not(ts, i) == FALSE

leftovers(ts, i) == i <= Len(ts)

parsecmd(ts) ==
  LET r == parseline(ts, 1) IN IF leftovers(ts, r.at) THEN Panic ELSE r.cmd

\* The commands of the lines that are run.
Trees == [ts \in RunLines |-> parsecmd(ts)]
-----------------------------------------------------------------------------
(***************************************************************************)
(* Running.  A process has a state, its parent, the files of its           *)
(* descriptors and its job: what it does next in runcmd().  A pipe is      *)
(* named by a number and an end.                                           *)
(***************************************************************************)
Pids == 1..NPROC
shell == 1
init == 0

None == <<"none", 0>>
Con == <<"console", 0>>
File == <<"file", 0>>
fd0123 == [f \in 0..4 |-> IF f <= 2 THEN Con ELSE None]

Job(do, cmd) == [do |-> do, cmd |-> cmd, waits |-> 0]
NoJob == Job("none", Panic)
Unused == [state |-> "UNUSED", parent |-> init, fds |-> [f \in 0..4 |-> None], job |-> NoJob]

Init ==
  /\ line = << >>
  /\ procs = [p \in Pids |->
       IF p = shell THEN [state |-> "RUN", parent |-> init, fds |-> fd0123,
                          job |-> Job("getcmd", Panic)]
       ELSE Unused]

\* Descriptors: fdalloc() takes the lowest.
close(fds, f) == [fds EXCEPT ![f] = None]
fdalloc(fds) == Min({f \in DOMAIN fds : fds[f] = None})
dup(fds, f) == [fds EXCEPT ![fdalloc(fds)] = fds[f]]

\* The pipes in use, and the ends that are open somewhere.
Open == {procs[p].fds[f] : p \in Pids, f \in 0..4}
NewPipe == Min({k \in 1..(NPROC + 1) : <<"r", k>> \notin Open /\ <<"w", k>> \notin Open})

FreeSlots == {p \in Pids : procs[p].state = "UNUSED"}
Does(p, do) == procs[p].state = "RUN" /\ procs[p].job.do = do
Doing(p, type) == Does(p, "run") /\ procs[p].job.cmd.type = type

\* A process that has exited.  Mutant: its descriptors stay open.
zombie_open(q) == [q EXCEPT !.state = "ZOMBIE", !.job = NoJob]

zombie(q) == [q EXCEPT !.state = "ZOMBIE", !.fds = Unused.fds, !.job = NoJob]

\* exit(): the descriptors are closed and the children given to init, which
\* waits for them.
Exited(ps, p) ==
  [q \in Pids |->
     IF q = p THEN IF ps[p].parent = init THEN Unused
                   ELSE zombie(ps[p])
     ELSE IF ps[q].parent = p
            THEN IF ps[q].state = "ZOMBIE" THEN Unused ELSE [ps[q] EXCEPT !.parent = init]
     ELSE ps[q]]

exit(p) == procs' = Exited(procs, p) /\ UNCHANGED line

\* fork1(): the child, with descriptors fds, does job; the parent goes on with
\* its own.  A failed fork() panics, which is an exit().
fork1(p, fds, job, parentjob) ==
  IF FreeSlots = {} THEN exit(p)
  ELSE /\ procs' = [procs EXCEPT
            ![Min(FreeSlots)] = [state |-> "RUN", parent |-> p, fds |-> fds, job |-> job],
            ![p].job = parentjob]
       /\ UNCHANGED line

Run(cmd) == Job("run", cmd)

\* wait() for one child, and what comes then.
wait(p, job) ==
  /\ \E q \in Pids :
       /\ procs[q].parent = p /\ procs[q].state = "ZOMBIE"
       /\ procs' = [procs EXCEPT ![q] = Unused, ![p].job = job]
  /\ UNCHANGED line

\* main() reads a line.
getcmd(p) ==
  /\ Does(p, "getcmd") /\ line' \in Lines
  /\ procs' = [procs EXCEPT ![p].job = Job("main", Panic)]

\* The parsing is done by the child, whose panic is an exit().
main(p) ==
  /\ Does(p, "main") /\ line \in RunLines
  /\ fork1(p, procs[p].fds, Run(Trees[line]), Job("prompt", Panic))

main_wait(p) == Does(p, "prompt") /\ wait(p, Job("done", Panic))

parse_panic(p) == Doing(p, "panic") /\ exit(p)

\* exec() of a program, or of nothing.
run_exec(p) ==
  /\ Doing(p, "EXEC")
  /\ IF procs[p].job.cmd.argv = << >> THEN exit(p)
     ELSE procs' = [procs EXCEPT ![p].job = Job("program", @.cmd)] /\ UNCHANGED line

\* open() may fail.
run_redir(p) ==
  LET cmd == procs[p].job.cmd  fds == close(procs[p].fds, cmd.fd) IN
  /\ Doing(p, "REDIR")
  /\ \/ /\ procs' = [procs EXCEPT ![p].fds = [fds EXCEPT ![fdalloc(fds)] = File],
                                  ![p].job = Run(cmd.cmd)]
        /\ UNCHANGED line
     \/ exit(p)

run_list(p) ==
  /\ Doing(p, "LIST")
  /\ fork1(p, procs[p].fds, Run(procs[p].job.cmd.left), Job("list", procs[p].job.cmd))

\* Mutant: the right command does not wait for the left one.
list_wait_not(p) ==
  Does(p, "list") /\ procs' = [procs EXCEPT ![p].job = Run(@.cmd.right)] /\ UNCHANGED line

list_wait(p) == Does(p, "list") /\ wait(p, Run(procs[p].job.cmd.right))

\* pipe(): the ends are p[0] = 3 and p[1] = 4.
run_pipe(p) ==
  LET k == NewPipe  fds == procs[p].fds  f == fdalloc(fds)
      with0 == [fds EXCEPT ![f] = <<"r", k>>]
  IN
  /\ Doing(p, "PIPE")
  /\ procs' = [procs EXCEPT ![p].fds = [with0 EXCEPT ![fdalloc(with0)] = <<"w", k>>],
                            ![p].job = Job("pipe1", @.cmd)]
  /\ UNCHANGED line

\* A child's descriptors: the pipe's end `from' becomes its f.  Mutant: the
\* other end stays open.
plumb_open(fds, f, from) == close(dup(close(fds, f), from), from)

plumb(fds, f, from) == close(close(dup(close(fds, f), from), 3), 4)

pipe_left(p) ==
  /\ Does(p, "pipe1")
  /\ fork1(p, plumb(procs[p].fds, 1, 4), Run(procs[p].job.cmd.left),
           Job("pipe2", procs[p].job.cmd))

pipe_right(p) ==
  /\ Does(p, "pipe2")
  /\ fork1(p, plumb(procs[p].fds, 0, 3), Run(procs[p].job.cmd.right),
           Job("pipe3", procs[p].job.cmd))

\* The parent closes both ends.  Mutant: it waits with them open.
close_ends_not(fds) == fds

close_ends(fds) == close(close(fds, 3), 4)

pipe_close(p) ==
  /\ Does(p, "pipe3")
  /\ procs' = [procs EXCEPT ![p].fds = close_ends(@), ![p].job = [Job("wait2", Panic) EXCEPT !.waits = 2]]
  /\ UNCHANGED line

pipe_wait(p) ==
  /\ Does(p, "wait2")
  /\ IF procs[p].job.waits = 0 THEN exit(p)
     ELSE wait(p, [procs[p].job EXCEPT !.waits = @ - 1])

run_back(p) ==
  /\ Doing(p, "BACK")
  /\ fork1(p, procs[p].fds, Run(procs[p].job.cmd.cmd), Job("exit", Panic))

do_exit(p) == Does(p, "exit") /\ exit(p)

\* A program ends once its input does; input from a pipe ends when no process
\* has the other end open.  A write() into a pipe that nobody reads fails, and
\* ends it too.
program(p) ==
  LET in == procs[p].fds[0]  out == procs[p].fds[1] IN
  /\ Does(p, "program")
  /\ \/ in[1] = "r" => <<"w", in[2]>> \notin Open
     \/ out[1] = "w" /\ <<"r", out[2]>> \notin Open
  /\ exit(p)

Step(p) ==
  \/ getcmd(p) \/ main(p) \/ main_wait(p) \/ parse_panic(p)
  \/ run_exec(p) \/ run_redir(p) \/ run_list(p) \/ list_wait(p)
  \/ run_pipe(p) \/ pipe_left(p) \/ pipe_right(p) \/ pipe_close(p) \/ pipe_wait(p)
  \/ run_back(p) \/ do_exit(p) \/ program(p)

\* The processes that are left, if any, wait.
Rest ==
  /\ \A p \in Pids \ {shell} : procs[p].state = "RUN" => procs[p].job.do \in {"list", "wait2", "program"}
  /\ ~Does(shell, "getcmd") /\ (Does(shell, "main") => line \notin RunLines)
  /\ UNCHANGED vars

Next == (\E p \in Pids : Step(p)) \/ Rest

\* The scheduler runs every process.
Fairness == \A p \in Pids : WF_vars(Step(p))

FairSpec == Init /\ [][Next]_vars /\ Fairness
-----------------------------------------------------------------------------
(***************************************************************************)
(* Properties.                                                             *)
(***************************************************************************)

\* The reference for the parser splits ts[lo..hi] at the operator that binds
\* least, the first one outside parentheses: ; then & then |.
Depth(ts, lo, i) ==
  Cardinality({j \in lo..(i - 1) : ts[j] = "("}) - Cardinality({j \in lo..(i - 1) : ts[j] = ")"})

Balanced(ts) ==
  /\ \A i \in 1..Len(ts) : Depth(ts, 1, i + 1) >= 0
  /\ Depth(ts, 1, Len(ts) + 1) = 0

Outside(ts, lo, hi, tok) == {i \in lo..hi : ts[i] = tok /\ Depth(ts, lo, i) = 0}

Both(op(_, _), l, r) == IF Panic \in {l, r} THEN Panic ELSE op(l, r)

RECURSIVE Redirected(_, _, _)
Redirected(cmd, ts, files) ==
  IF files = {} THEN cmd
  ELSE redircmd(Redirected(cmd, ts, files \ {Max(files)}), Max(files),
                IF ts[Max(files) - 1] = "<" THEN 0 ELSE 1)

RECURSIVE Backed(_, _)
Backed(cmd, k) == IF k = 0 \/ cmd = Panic THEN cmd ELSE Backed(backcmd(cmd), k - 1)

RECURSIVE RefLine(_, _, _)
RefExec(ts, lo, hi) ==
  LET block == lo <= hi /\ ts[lo] = "("
      from == IF block THEN Min({i \in lo..hi : Depth(ts, lo, i + 1) = 0}) + 1 ELSE lo
      arrows == {i \in from..hi : ts[i] \in {"<", ">"}}
      files == {i \in from..hi : i - 1 \in arrows}
      words == {i \in from..hi : ts[i] = "a"} \ files
      argv == [k \in 1..Cardinality(words) |-> CHOOSE i \in words : Cardinality({j \in words : j < i}) = k - 1]
      base == IF block THEN RefLine(ts, lo + 1, from - 2) ELSE execcmd(argv)
  IN
  IF \/ base = Panic
     \/ \E i \in from..hi : ts[i] \in {"(", ")"}
     \/ \E i \in arrows : i = hi
     \/ \E i \in files : ts[i] # "a"
     \/ (block /\ words # {})
     \/ Cardinality(words) >= MAXARGS
  THEN Panic
  ELSE Redirected(base, ts, files)

RECURSIVE RefPipe(_, _, _)
RefPipe(ts, lo, hi) ==
  LET bars == Outside(ts, lo, hi, "|") IN
  IF bars = {} THEN RefExec(ts, lo, hi)
  ELSE Both(pipecmd, RefExec(ts, lo, Min(bars) - 1), RefPipe(ts, Min(bars) + 1, hi))

RefBack(ts, lo, hi) ==
  LET last == Max({lo - 1} \cup {i \in lo..hi : ts[i] # "&"}) IN
  IF Outside(ts, lo, last, "&") # {} THEN Panic ELSE Backed(RefPipe(ts, lo, last), hi - last)

RefLine(ts, lo, hi) ==
  LET semis == Outside(ts, lo, hi, ";") IN
  IF semis = {} THEN RefBack(ts, lo, hi)
  ELSE Both(listcmd, RefBack(ts, lo, Min(semis) - 1), RefLine(ts, Min(semis) + 1, hi))

\* The recursive-descent parser of sh.c (parseline(), parsepipe(), parseexec(),
\* parseblock(), parseredirs()) accepts the lines, and builds the trees, that
\* splitting at the loosest operator gives.
ParserSplits ==
  parsecmd(line) = IF Balanced(line) THEN RefLine(line, 1, Len(line)) ELSE Panic

TypeOK ==
  /\ line \in Lines
  /\ \A p \in Pids :
       /\ procs[p].state \in {"UNUSED", "RUN", "ZOMBIE"}
       /\ procs[p].parent \in {init} \cup Pids
       /\ DOMAIN procs[p].fds = 0..4
       /\ procs[p].state # "RUN" => \A f \in 0..4 : procs[p].fds[f] = None

\* A program starts with its input, its output and the console, and nothing
\* else open: every end of every pipe that runcmd() made on the way is closed,
\* the input is no write end and the output no read end.
ProgramDescriptors ==
  \A p \in Pids : Does(p, "program") =>
    /\ {f \in 0..4 : procs[p].fds[f] # None} = {0, 1, 2}
    /\ procs[p].fds[0][1] # "w" /\ procs[p].fds[1][1] # "r"

\* Whoever has no wait() to come has no children to wait for: the wait()s of
\* runcmd() cannot take one child for another.
WaitsMatch ==
  \A p \in Pids :
    LET children == Cardinality({q \in Pids : procs[q].parent = p /\ procs[q].state # "UNUSED"}) IN
    /\ Does(p, "program") => children = 0
    /\ Does(p, "list") \/ Does(p, "prompt") => children = 1
    /\ Does(p, "wait2") => children = procs[p].job.waits

\* Every command line comes to its end: main()'s wait() returns, whatever
\* pipelines it has, since each reader gets the end of its input.  (When fork()
\* fails in main() the shell itself exits.)
PromptReturns ==
  Does(shell, "prompt") ~> (Does(shell, "done") \/ procs[shell].state = "UNUSED")

\* Every process of a command line ends, those in the background included.
NothingLeft ==
  (line \in RunLines) ~> (\A p \in Pids \ {shell} : procs[p].state = "UNUSED")

\* runcmd() plumbs right: each program has the descriptors of its place in the
\* line, and each wait() the child it is for.
Plumbed == TypeOK /\ ProgramDescriptors /\ WaitsMatch

\* Every command line ends: the prompt returns, and no process stays behind.
LineEnds == PromptReturns /\ NothingLeft
=============================================================================
