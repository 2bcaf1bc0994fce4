---------------------------- MODULE MCFileService ----------------------------
(***************************************************************************)
(* TLC instances of FileService.                                           *)
(***************************************************************************)
EXTENDS FileService, TLC

Symmetry == Permutations(Handles) \cup Permutations(Hashes) \cup Permutations(Vlogs)
              \cup Permutations(Paths)
=============================================================================
