------------------------------- MODULE MCNames -------------------------------
(***************************************************************************)
(* Instances of Names for TLC.                                             *)
(***************************************************************************)
EXTENDS Names, TLC

MCElems == {"a", "b"}

\* Files of the root, and of the directory "a".
MCPaths == {<<"/", "a">>, <<"/", "b">>, <<"/", "a", "b">>, <<"b">>}

MCLinks == {<< <<"/", "a">>, <<"b">> >>, << <<"/", "a">>, <<"/", "a">> >>}

Symmetric == Permutations(Procs)
=============================================================================
