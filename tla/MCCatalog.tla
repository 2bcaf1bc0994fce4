------------------------------ MODULE MCCatalog ------------------------------
(***************************************************************************)
(* TLC instances of Catalog.                                               *)
(***************************************************************************)
EXTENDS Catalog, TLC

Symmetry == Permutations(Hashes) \cup Permutations(Paths) \cup Permutations(Keys)
              \cup Permutations(Vlogs)
=============================================================================
