----------------------------- MODULE AtomicDisk -----------------------------
(***************************************************************************)
(* What the log promises to the file system: a disk that survives crashes  *)
(* with the effects of whole operations only.  Operations write to the     *)
(* current contents; while none is in progress the current contents may    *)
(* become stable, all at once; a crash goes back to the stable contents.   *)
(***************************************************************************)
EXTENDS Integers

CONSTANTS Blocks, Values

VARIABLES
  stable,  \* what a crash leaves
  cur,     \* what the operations read and write
  active   \* how many operations are in progress

vars == <<stable, cur, active>>

Init ==
  /\ stable = [b \in Blocks |-> 0]
  /\ cur = stable
  /\ active = 0

Begin == active' = active + 1 /\ UNCHANGED <<stable, cur>>

End == active > 0 /\ active' = active - 1 /\ UNCHANGED <<stable, cur>>

Write(b, v) ==
  /\ active > 0
  /\ cur' = [cur EXCEPT ![b] = v]
  /\ UNCHANGED <<stable, active>>

Commit == active = 0 /\ stable' = cur /\ UNCHANGED <<cur, active>>

Crash == cur' = stable /\ active' = 0 /\ UNCHANGED stable

Next ==
  \/ Begin \/ End \/ Commit \/ Crash
  \/ \E b \in Blocks, v \in Values : Write(b, v)

Spec == Init /\ [][Next]_vars
=============================================================================
