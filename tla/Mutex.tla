-------------------------------- MODULE Mutex --------------------------------
(***************************************************************************)
(* What a sleep lock promises: at most one process owns it, it goes from   *)
(* one owner to the next only through being free, and nobody but the owner *)
(* frees it.                                                               *)
(***************************************************************************)
CONSTANTS Procs, NoProc

VARIABLE owner

Init == owner = NoProc

Take(p) == owner = NoProc /\ owner' = p

Give(p) == owner = p /\ owner' = NoProc

Next == \E p \in Procs : Take(p) \/ Give(p)

Spec == Init /\ [][Next]_owner
=============================================================================
