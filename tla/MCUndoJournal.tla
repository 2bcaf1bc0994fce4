--------------------------- MODULE MCUndoJournal ---------------------------
(***************************************************************************)
(* TLC instances of UndoJournal: three sectors (the superblock and two     *)
(* that operations change), so that a journal can be extended to an        *)
(* earlier start, and up to MaxFaults interruptions.                       *)
(***************************************************************************)
EXTENDS UndoJournal
=============================================================================
