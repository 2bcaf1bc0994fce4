---------------------------- MODULE MCVlogMirror ----------------------------
(***************************************************************************)
(* TLC instances of VlogMirror.                                            *)
(***************************************************************************)
EXTENDS VlogMirror, TLC

\* Every copy on a node of its own.
OneEach == {{r} : r \in Replicas}

Symmetry == Permutations(Replicas) \cup Permutations(Values) \cup Permutations(Writers)
=============================================================================
