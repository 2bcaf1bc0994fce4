---------------------------- MODULE MCWriteCache ----------------------------
(***************************************************************************)
(* TLC instances of WriteCache.                                            *)
(***************************************************************************)
EXTENDS WriteCache
=============================================================================
