--------------------------- MODULE CommitContract ---------------------------
(***************************************************************************)
(* What a plog file promises its callers, with no journal in sight.        *)
(*                                                                         *)
(* While the file is open its contents (view) may change at will.  A       *)
(* Commit first makes the current contents a possible outcome of a later   *)
(* recovery (Persist) and then, when it returns success, the only one      *)
(* (Acknowledge).  Closing the file or losing power forgets the view; the  *)
(* next open shows one of the possible outcomes and nothing else.          *)
(***************************************************************************)
CONSTANTS Images,   \* the contents a file can have
          Hidden    \* the view while the file is not open

VARIABLES open,     \* a handle is open
          view,     \* the contents that handle shows
          accept    \* the contents the next recovery may show

contractVars == <<open, view, accept>>

ContractInit ==
    /\ open = FALSE
    /\ view = Hidden
    /\ \E v \in accept : v \in Images /\ accept = {v}

\* Appends and truncations of an open file.
Edit ==
    /\ open
    /\ view' \in Images
    /\ UNCHANGED <<open, accept>>

\* The data sync inside a Commit: recovery may show the new contents now.
Persist ==
    /\ open
    /\ accept' = accept \cup {view}
    /\ UNCHANGED <<open, view>>

\* Commit returns nil: recovery shows exactly these contents from now on.
Acknowledge ==
    /\ open
    /\ view \in accept
    /\ accept' = {view}
    /\ UNCHANGED <<open, view>>

\* Close, or a crash.
Lose ==
    /\ open
    /\ open' = FALSE
    /\ view' = Hidden
    /\ UNCHANGED accept

\* OpenPlog after whatever happened.
Recover ==
    /\ ~open
    /\ open' = TRUE
    /\ view' \in accept
    /\ accept' = {view'}

ContractNext == Edit \/ Persist \/ Acknowledge \/ Lose \/ Recover

ContractSpec == ContractInit /\ [][ContractNext]_contractVars
=============================================================================
