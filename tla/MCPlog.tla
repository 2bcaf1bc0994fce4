------------------------------- MODULE MCPlog -------------------------------
(***************************************************************************)
(* TLC instances of Plog: blocks of two sectors of two units, and streams  *)
(* that reach into the second block.                                       *)
(***************************************************************************)
EXTENDS Plog, TLC

\* The values are interchangeable and no property checked with this is temporal
\* beyond a single step.
Symmetry == Permutations(Values)
=============================================================================
