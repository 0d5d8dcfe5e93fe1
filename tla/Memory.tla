------------------------------- MODULE Memory -------------------------------
(***************************************************************************)
(* Physical memory: kalloc.c's free frames, vm.c's page tables, and the    *)
(* calls that build and tear down address spaces: fork()'s copyuvm(),      *)
(* exec(), growproc() and wait()'s freevm().  Every kalloc() may find the  *)
(* free list empty, and processes allocate at the same time.               *)
(*                                                                         *)
(* A step ends at each kalloc().  Addresses below KERNBASE are numbers, a  *)
(* page table covers NPT pages, and the kernel half of a page directory    *)
(* needs one page table.  The contents of pages are not modelled.          *)
(***************************************************************************)
EXTENDS Integers, FiniteSets, Functions

CONSTANTS
  NFRAMES,   \* frames given to kinit1() and kinit2()
  Held,      \* how many of them the rest of the kernel may hold
  Procs,     \* slots of the process table
  Initproc,  \* the slot of the first process
  PGSIZE,    \* addresses in a page
  NPT,       \* pages that a page table maps
  NPAGES,    \* pages below KERNBASE
  Ends,      \* ends of program segments
  Sbrks,     \* arguments of sbrk()
  Argvs,     \* sizes of argument strings that exec() pushes
  MaxCalls   \* system calls in a behaviour

Frames == 1..NFRAMES
Pages == 0..(NPAGES - 1)
PDXs == 0..((NPAGES - 1) \div NPT)
KERNBASE == NPAGES * PGSIZE
PDX(k) == k \div NPT
PGROUNDUP(n) == (n + PGSIZE - 1) \div PGSIZE     \* as a page number

VARIABLES
  free,     \* kmem.freelist
  other,    \* frames that the rest of the kernel (pipes, queue nodes) holds
  st,       \* state of each slot
  kstack, sz,
  as,       \* each process's page table
  na,       \* the page table that its fork() or exec() is building
  loc,      \* locals of the call in progress
  guard,    \* the page that exec() made inaccessible, NPAGES for none
  calls, panicked

vars == <<free, other, st, kstack, sz, as, na, loc, guard, calls, panicked>>

\* A page table: directory, kernel page table, user page tables and pages (0
\* is not present), and PTE_U of each page.
NoAs == [dir |-> 0, kpt |-> 0, tab |-> [d \in PDXs |-> 0],
         pte |-> [k \in Pages |-> 0], usr |-> [k \in Pages |-> 0]]

NoCall == [pc |-> "user", op |-> "none", i |-> 0, old |-> 0, new |-> 0,
           mem |-> 0, child |-> Initproc]

\* After userinit(): inituvm() has given the first process one page.
Init ==
  /\ \E n \in Held : other = (NFRAMES - n + 1)..NFRAMES
  /\ free = (6..NFRAMES) \ other
  /\ st = [p \in Procs |-> IF p = Initproc THEN "live" ELSE "unused"]
  /\ kstack = [p \in Procs |-> IF p = Initproc THEN 1 ELSE 0]
  /\ sz = [p \in Procs |-> IF p = Initproc THEN PGSIZE ELSE 0]
  /\ as = [p \in Procs |-> IF p # Initproc THEN NoAs
             ELSE [NoAs EXCEPT !.dir = 2, !.kpt = 3, !.tab[0] = 4, !.pte[0] = 5, !.usr[0] = 1]]
  /\ na = [p \in Procs |-> NoAs]
  /\ loc = [p \in Procs |-> NoCall]
  /\ guard = [p \in Procs |-> NPAGES]
  /\ calls = 0 /\ panicked = "none"

At(p, l) == loc[p].pc = l /\ panicked = "none"
Goto(p, f) == loc' = [loc EXCEPT ![p] = f]
To(p, l) == [loc[p] EXCEPT !.pc = l]

\* The first frame of the free list, and the list without it.
kalloc == CHOOSE f \in free : TRUE
Kalloc == free' = free \ {kalloc}

\* kfree() of the frames in F, none of which may be on the list.
kfree(F) ==
  /\ free' = free \cup F
  /\ panicked' = IF F \cap free # {} THEN "freed twice" ELSE panicked

\* What freevm() frees.  Mutant: without the test of PTE_P.
freevm_absent(a) == Range(a.pte) \cup Range(a.tab) \cup {a.kpt, a.dir}

freevm(a) == (Range(a.pte) \cup Range(a.tab) \cup {a.kpt, a.dir}) \ {0}

\* The pages that deallocuvm(pgdir, hi, lo) removes.  Mutant: from the page
\* that lo is in.
between_down(lo, hi) == {k \in Pages : lo \div PGSIZE <= k /\ k * PGSIZE < hi}

between(lo, hi) == {k \in Pages : PGROUNDUP(lo) <= k /\ k * PGSIZE < hi}

\* The table after deallocuvm(), and the frames it frees.  Mutant: *pte stays.
deallocuvm_keep(a, hi, lo) == a

deallocuvm(a, hi, lo) ==
  [a EXCEPT !.pte = [k \in Pages |-> IF k \in between(lo, hi) THEN 0 ELSE @[k]],
            !.usr = [k \in Pages |-> IF k \in between(lo, hi) THEN 0 ELSE @[k]]]

Removed(a, hi, lo) == {a.pte[k] : k \in between(lo, hi)} \ {0}

\* A process whose first page is gone faults at its next instruction.
CanRun(p) == st[p] = "live" /\ At(p, "user") /\ as[p].pte[0] # 0
Calls(p) == CanRun(p) /\ calls < MaxCalls /\ calls' = calls + 1
-----------------------------------------------------------------------------
(***************************************************************************)
(* The start of each call.                                                 *)
(***************************************************************************)

\* fork(): allocproc() takes a slot and a kernel stack.
fork(p) ==
  /\ Calls(p) /\ free # {}
  /\ \E q \in Procs :
       /\ st[q] = "unused"
       /\ st' = [st EXCEPT ![q] = "embryo"]
       /\ kstack' = [kstack EXCEPT ![q] = kalloc]
       /\ Kalloc
       /\ Goto(p, [To(p, "setupkvm") EXCEPT !.op = "fork", !.child = q, !.new = sz[p]])
  /\ UNCHANGED <<other, sz, as, na, guard, panicked>>

\* exec(), from setupkvm(); the first segment ends at e.
exec(p) ==
  /\ Calls(p)
  /\ \E e \in Ends : Goto(p, [To(p, "setupkvm") EXCEPT !.op = "exec", !.new = e])
  /\ UNCHANGED <<free, other, st, kstack, sz, as, na, guard, panicked>>

\* growproc(n) for n > 0: allocuvm() refuses to reach KERNBASE.  init.c does
\* not call sbrk().
grow(p) ==
  /\ Calls(p) /\ p # Initproc
  /\ \E n \in Sbrks :
       /\ n > 0 /\ sz[p] + n < KERNBASE
       /\ Goto(p, [To(p, "alloc") EXCEPT !.op = "sbrk", !.i = PGROUNDUP(sz[p]),
                                         !.old = sz[p], !.new = sz[p] + n])
  /\ UNCHANGED <<free, other, st, kstack, sz, as, na, guard, panicked>>

\* growproc(n) for n < 0.  A sum below zero wraps to a large number, and
\* deallocuvm() then does nothing; a sum of zero is taken for a failure, with
\* the pages gone and sz as it was.
shrink(p) ==
  /\ Calls(p) /\ p # Initproc
  /\ \E n \in Sbrks :
       LET new == sz[p] + n IN
       /\ n < 0
       /\ IF new < 0
            THEN UNCHANGED <<free, sz, as, guard, panicked>>
            ELSE /\ as' = [as EXCEPT ![p] = deallocuvm(@, sz[p], new)]
                 /\ kfree(Removed(as[p], sz[p], new))
                 /\ sz' = [sz EXCEPT ![p] = IF new = 0 THEN @ ELSE new]
                 /\ guard' = [guard EXCEPT ![p] = IF @ \in between(new, sz[p]) THEN NPAGES ELSE @]
  /\ UNCHANGED <<other, st, kstack, na, loc>>

\* exit(), by a call or a trap, of a process other than init; then wait() by
\* the parent, wherever that is.
exit(p) ==
  /\ st[p] = "live" /\ At(p, "user") /\ p # Initproc
  /\ st' = [st EXCEPT ![p] = "zombie"]
  /\ UNCHANGED <<free, other, kstack, sz, as, na, loc, guard, calls, panicked>>

wait(p) ==
  /\ st[p] = "zombie" /\ panicked = "none"
  /\ kfree({kstack[p]} \cup freevm(as[p]))
  /\ kstack' = [kstack EXCEPT ![p] = 0]
  /\ as' = [as EXCEPT ![p] = NoAs]
  /\ sz' = [sz EXCEPT ![p] = 0]
  /\ st' = [st EXCEPT ![p] = "unused"]
  /\ guard' = [guard EXCEPT ![p] = NPAGES]
  /\ UNCHANGED <<other, na, loc, calls>>
-----------------------------------------------------------------------------
(***************************************************************************)
(* Building an address space.                                              *)
(***************************************************************************)

\* The table that the call in progress extends.
Building(p) == IF loc[p].op = "sbrk" THEN as[p] ELSE na[p]

SetBuilding(p, a) ==
  IF loc[p].op = "sbrk" THEN as' = [as EXCEPT ![p] = a] /\ UNCHANGED na
  ELSE na' = [na EXCEPT ![p] = a] /\ UNCHANGED as

\* Where a failed allocation leads: copyuvm() and exec() go to "bad",
\* growproc() returns.
Failed(p) == IF loc[p].op = "sbrk" THEN NoCall ELSE To(p, "bad")

\* setupkvm(): the directory, then the kernel's page table.
setupkvm(p) ==
  /\ At(p, "setupkvm")
  /\ IF free = {}
       THEN Goto(p, Failed(p)) /\ UNCHANGED <<free, na>>
       ELSE /\ na' = [na EXCEPT ![p].dir = kalloc] /\ Kalloc
            /\ Goto(p, To(p, "kmap"))
  /\ UNCHANGED <<other, st, kstack, sz, as, guard, calls, panicked>>

\* What a failure gives back before it returns 0.
kmap_free(p) == freevm(na[p])

kmap(p) ==
  /\ At(p, "kmap")
  /\ IF free = {}
       THEN /\ kfree(kmap_free(p))
            /\ na' = [na EXCEPT ![p] = NoAs]
            /\ Goto(p, Failed(p))
       ELSE /\ na' = [na EXCEPT ![p].kpt = kalloc] /\ Kalloc
            /\ Goto(p, To(p, "alloc"))
            /\ UNCHANGED panicked
  /\ UNCHANGED <<other, st, kstack, sz, as, guard, calls>>

\* The head of the loops of allocuvm() and copyuvm(): kalloc() of the page.
\* A failure in allocuvm() undoes what this call has mapped.
alloc(p) ==
  LET f == loc[p]  a == Building(p)  undo == f.op # "fork" IN
  /\ At(p, "alloc") /\ f.i * PGSIZE < f.new
  /\ IF f.op = "fork" /\ as[p].pte[f.i] = 0
       THEN panicked' = "copyuvm: page not present" /\ UNCHANGED <<free, as, na, loc>>
     ELSE IF free = {}
       THEN /\ SetBuilding(p, IF undo THEN deallocuvm(a, f.new, f.old) ELSE a)
            /\ kfree(IF undo THEN Removed(a, f.new, f.old) ELSE {})
            /\ Goto(p, Failed(p))
       ELSE /\ Goto(p, [f EXCEPT !.mem = kalloc, !.pc = "mappages"]) /\ Kalloc
            /\ UNCHANGED <<as, na, panicked>>
  /\ UNCHANGED <<other, st, kstack, sz, guard, calls>>

\* PTE_FLAGS of a copied page.  Mutant: the flags of a fresh page.
fresh_flags(p, k) == 1

copy_flags(p, k) == as[p].usr[k]

\* Mutant: the page that could not be mapped is not freed.
drop_mem(p) == {}

free_mem(p) == {loc[p].mem}

\* mappages(): walkpgdir() may need a page table.
mappages(p) ==
  LET f == loc[p]  a == Building(p)  d == PDX(f.i)  undo == f.op # "fork"
      u == IF f.op = "fork" THEN copy_flags(p, f.i) ELSE 1
      mapped(t) == [a EXCEPT !.tab[d] = t, !.pte[f.i] = f.mem, !.usr[f.i] = u]
      next == [f EXCEPT !.pc = "alloc", !.i = @ + 1, !.mem = 0]
  IN
  /\ At(p, "mappages")
  /\ IF a.tab[d] = 0 /\ free = {}
       THEN /\ SetBuilding(p, IF undo THEN deallocuvm(a, f.new, f.old) ELSE a)
            /\ kfree(free_mem(p) \cup IF undo THEN Removed(a, f.new, f.old) ELSE {})
            /\ Goto(p, [Failed(p) EXCEPT !.mem = 0])
     ELSE IF a.pte[f.i] # 0
       THEN panicked' = "remap" /\ UNCHANGED <<free, as, na, loc>>
     ELSE IF a.tab[d] # 0
       THEN SetBuilding(p, mapped(a.tab[d])) /\ Goto(p, next) /\ UNCHANGED <<free, panicked>>
       ELSE SetBuilding(p, mapped(kalloc)) /\ Kalloc /\ Goto(p, next) /\ UNCHANGED panicked
  /\ UNCHANGED <<other, st, kstack, sz, guard, calls>>

AllocDone(p, op) ==
  At(p, "alloc") /\ loc[p].op = op /\ loc[p].i * PGSIZE >= loc[p].new

grow_done(p) ==
  /\ AllocDone(p, "sbrk")
  /\ sz' = [sz EXCEPT ![p] = loc[p].new]
  /\ Goto(p, NoCall)
  /\ UNCHANGED <<free, other, st, kstack, as, na, guard, calls, panicked>>

fork_done(p) ==
  LET q == loc[p].child IN
  /\ AllocDone(p, "fork")
  /\ as' = [as EXCEPT ![q] = na[p]] /\ na' = [na EXCEPT ![p] = NoAs]
  /\ sz' = [sz EXCEPT ![q] = sz[p]] /\ guard' = [guard EXCEPT ![q] = guard[p]]
  /\ st' = [st EXCEPT ![q] = "live"]
  /\ Goto(p, NoCall)
  /\ UNCHANGED <<free, other, kstack, calls, panicked>>

\* exec(): the next segment, the stack, or a failure of readi().
exec_load(p) ==
  LET f == loc[p]  top == PGROUNDUP(f.new) * PGSIZE IN
  /\ AllocDone(p, "exec")
  /\ \/ \E e \in Ends :
          e > f.new /\ Goto(p, [f EXCEPT !.i = PGROUNDUP(f.new), !.old = f.new, !.new = e])
     \/ /\ top + 2 * PGSIZE < KERNBASE
        /\ Goto(p, [f EXCEPT !.op = "exec_stack", !.i = PGROUNDUP(f.new),
                             !.old = top, !.new = top + 2 * PGSIZE])
     \/ Goto(p, To(p, "bad"))
  /\ UNCHANGED <<free, other, st, kstack, sz, as, na, guard, calls, panicked>>

\* copyout() of n addresses that end at va: every page in the way is present
\* and the user's.  Mutant: PTE_U is not tested.
copyout_any(a, va, n) ==
  \A k \in Pages : k * PGSIZE < va /\ (k + 1) * PGSIZE > va - n => a.pte[k] # 0

copyout(a, va, n) ==
  \A k \in Pages : k * PGSIZE < va /\ (k + 1) * PGSIZE > va - n =>
    a.pte[k] # 0 /\ a.usr[k] = 1

clearpteu(a, k) == [a EXCEPT !.usr[k] = 0]

\* The guard page, the arguments, and the commit; i is the stack pointer.
exec_commit(p) ==
  LET f == loc[p]  g == (f.new \div PGSIZE) - 2  a == clearpteu(na[p], g) IN
  /\ AllocDone(p, "exec_stack")
  /\ \E n \in Argvs :
       IF copyout(a, f.new, n)
         THEN /\ as' = [as EXCEPT ![p] = a] /\ na' = [na EXCEPT ![p] = NoAs]
              /\ kfree(freevm(as[p]))
              /\ sz' = [sz EXCEPT ![p] = f.new] /\ guard' = [guard EXCEPT ![p] = g]
              /\ Goto(p, NoCall)
         ELSE Goto(p, To(p, "bad")) /\ UNCHANGED <<free, sz, as, na, guard, panicked>>
  /\ UNCHANGED <<other, st, kstack, calls>>

\* "bad" of copyuvm() and exec(); fork() also gives up the slot.
bad(p) ==
  LET f == loc[p]  q == f.child  forked == f.op = "fork" IN
  /\ At(p, "bad")
  /\ kfree(freevm(na[p]) \cup IF forked THEN {kstack[q]} ELSE {})
  /\ na' = [na EXCEPT ![p] = NoAs]
  /\ kstack' = IF forked THEN [kstack EXCEPT ![q] = 0] ELSE kstack
  /\ st' = IF forked THEN [st EXCEPT ![q] = "unused"] ELSE st
  /\ Goto(p, NoCall)
  /\ UNCHANGED <<other, sz, as, guard, calls>>

Step(p) ==
  \/ setupkvm(p) \/ kmap(p) \/ alloc(p) \/ mappages(p) \/ bad(p)
  \/ grow_done(p) \/ fork_done(p) \/ exec_load(p) \/ exec_commit(p)

\* Every call has returned, or a panic has stopped the machine.
Stopped ==
  /\ panicked # "none" \/ (calls = MaxCalls /\ \A p \in Procs : loc[p] = NoCall)
  /\ UNCHANGED vars

Next ==
  \/ \E p \in Procs :
       Step(p) \/ fork(p) \/ exec(p) \/ grow(p) \/ shrink(p) \/ exit(p) \/ wait(p)
  \/ Stopped

Spec == Init /\ [][Next]_vars
-----------------------------------------------------------------------------
(***************************************************************************)
(* Properties.                                                             *)
(***************************************************************************)
MaybeFrame == 0..NFRAMES
Spaces == [dir : MaybeFrame, kpt : MaybeFrame, tab : [PDXs -> MaybeFrame],
           pte : [Pages -> MaybeFrame], usr : [Pages -> {0, 1}]]

TypeOK ==
  /\ free \subseteq Frames /\ other \subseteq Frames
  /\ st \in [Procs -> {"unused", "embryo", "live", "zombie"}]
  /\ kstack \in [Procs -> MaybeFrame] /\ sz \in [Procs -> 0..KERNBASE]
  /\ as \in [Procs -> Spaces] /\ na \in [Procs -> Spaces]
  /\ DOMAIN loc = Procs /\ guard \in [Procs -> 0..NPAGES]
  /\ calls \in 0..MaxCalls

\* The places of a page table that may hold a frame, and those of all
\* processes, each with the frame it holds.
Places == ({"dir", "kpt"} \X {0}) \cup ({"tab"} \X PDXs) \cup ({"pte"} \X Pages)

Holding(a, x) == IF x[1] \in {"dir", "kpt"} THEN a[x[1]] ELSE a[x[1]][x[2]]

References ==
  UNION {{<<p, "as", x, Holding(as[p], x)>> : x \in Places}
         \cup {<<p, "na", x, Holding(na[p], x)>> : x \in Places}
         \cup {<<p, "kstack", 0, kstack[p]>>, <<p, "mem", 0, loc[p].mem>>} : p \in Procs}

\* Every frame is free or has exactly one owner, at every moment of every
\* call: no error path of setupkvm(), allocuvm(), copyuvm(), exec() or fork()
\* leaks a frame or frees one that is still mapped.
FrameOwnedOnce ==
  panicked = "none" =>
    LET refs == {r \in References : r[4] # 0}
        owned == {r[4] : r \in refs}
    IN
    /\ Cardinality(owned) = Cardinality(refs)
    /\ owned \cap free = {} /\ owned \cap other = {} /\ free \cap other = {}
    /\ owned \cup free \cup other = Frames

\* Between calls, exactly the pages below sz are present; a call that fails
\* leaves the address space as it was.  The process that sbrk() has left
\* without its first page is excepted: it runs no further.
PagesMatchSize ==
  \A p \in Procs :
    CanRun(p) => {k \in Pages : as[p].pte[k] # 0} = {k \in Pages : k * PGSIZE < sz[p]}

\* The page below the stack stays out of the user's reach, in the process
\* that called exec(), in its children, and when the heap grows and shrinks,
\* until sbrk() removes it.
StackGuarded ==
  \A p \in Procs : guard[p] # NPAGES => as[p].usr[guard[p]] = 0

\* exec() never writes arguments below the stack page it has allocated.
ArgumentsInStack ==
  \A p \in Procs, n \in Argvs :
    AllocDone(p, "exec_stack") /\ n > PGSIZE =>
      ~copyout(clearpteu(na[p], (loc[p].new \div PGSIZE) - 2), loc[p].new, n)

\* No frame is freed twice, no page is mapped over another, and copyuvm()
\* finds every page of its parent.
NoPanic == panicked = "none"

\* A process can use what exec(), fork() and sbrk() have given it and no more:
\* the pages below its size, without the guard page, its arguments in the
\* stack.
AddressSpaceExact == PagesMatchSize /\ StackGuarded /\ ArgumentsInStack
=============================================================================
