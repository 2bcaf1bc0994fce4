---------------------------- MODULE MCRelocation ----------------------------
(***************************************************************************)
(* TLC instances of Relocation.  Disks are numbers, so that the placement  *)
(* can be written down.                                                    *)
(***************************************************************************)
EXTENDS Relocation, TLC

\* One vlog, its copies on the first disks.
OneVlogShard == [v \in Vlogs |-> [s \in Shards |-> s]]
OneVlogPlace == [p \in Plogs |-> IF p \in Shards THEN p ELSE NoDisk]

\* Two vlogs of two copies, both on the first two disks.
TwoVlogsShard == [v \in Vlogs |-> [s \in Shards |-> IF v = 1 THEN s ELSE s + 2]]
TwoVlogsPlace == [p \in Plogs |-> IF p \in 1 .. 2 THEN p ELSE IF p \in 3 .. 4 THEN p - 2 ELSE NoDisk]
=============================================================================
