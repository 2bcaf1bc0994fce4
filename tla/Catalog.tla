------------------------------- MODULE Catalog -------------------------------
(***************************************************************************)
(* The metadata catalog (package meta): file versions, the three tables    *)
(* that own them, chunk reference counts, write operations and leases.     *)
(*                                                                         *)
(* Every action is one SQLite transaction.  The pool has one connection,   *)
(* so transactions are serial and a failed one changes nothing.  A file    *)
(* version is an array of extents; an extent is a chunk hash (its length   *)
(* is left out) and an unused one is Hole.  Directories are not modelled.  *)
(***************************************************************************)
EXTENDS Integers, FiniteSets

CONSTANTS Hashes, Hole,    \* chunk content hashes; an unused extent
          Paths,           \* names of files
          Keys,            \* idempotency keys of write operations
          Snapshots,       \* snapshot ids, never reused
          Vlogs, NoKey,    \* vlog ids, never reused; no lease holder
          Retention,       \* how long a result is kept for retries
          CollectLimit,    \* versions deleted by one collection
          MaxExtents,      \* bound: extents of a version
          MaxFiles,        \* bound: versions ever written
          MaxTime          \* bound: the clock

ASSUME FiniteAssumption ==
    IsFiniteSet(Paths) /\ IsFiniteSet(Keys) /\ IsFiniteSet(Snapshots)
ASSUME NumbersAssumption == {Retention, CollectLimit, MaxExtents, MaxFiles, MaxTime} \subseteq Nat /\ MaxExtents > 0
ASSUME HoleAssumption == Hole \notin Hashes
ASSUME NoKeyAssumption == NoKey \notin Keys

NoFile   == 0
FileIds  == 1 .. MaxFiles
Extents  == 1 .. MaxExtents
Versions == [Extents -> Hashes \cup {Hole}]
NoRow    == [i \in {} |-> Hole]

VARIABLES file,       \* table file: the extents of each version, or NoRow
          nextFile,   \* AUTOINCREMENT: ids are never used twice
          head,       \* table file_head
          snapshot,   \* table snapshot: "none", "active" or "deleted"
          snapFile,   \* table snapshot_file
          root,       \* table write_result_root
          deadline,   \* its expires_at
          rows,       \* the hashes that have a row in table chunk
          refcount,   \* chunk.refcount
          location,   \* chunk.vlog_id
          vlog,       \* table vlog: "none", "active" or "retired"
          lease,      \* table vlog_lease
          opState, opPath, opFile,   \* table write_op
          now

chunkVars   == <<rows, refcount, location>>
opVars      == <<opState, opPath, opFile>>
fileVars    == <<file, nextFile>>
rootVars    == <<root, deadline>>
snapVars    == <<snapshot, snapFile>>
catalogVars == <<fileVars, head, snapVars, rootVars, chunkVars, vlog, lease, opVars, now>>

Init ==
    /\ file = [f \in FileIds |-> NoRow]
    /\ nextFile = 1
    /\ head = [p \in Paths |-> NoFile]
    /\ snapshot = [s \in Snapshots |-> "none"]
    /\ snapFile = [o \in Snapshots \X Paths |-> NoFile]
    /\ root = [k \in Keys |-> NoFile]
    /\ deadline = [k \in Keys |-> 0]
    /\ rows = {}
    /\ refcount = [h \in Hashes |-> 0]
    /\ location \in [Hashes -> Vlogs]
    /\ vlog = [v \in Vlogs |-> "none"]
    /\ lease = [v \in Vlogs |-> NoKey]
    /\ opState = [k \in Keys |-> "none"]
    /\ opPath \in [Keys -> Paths]
    /\ opFile = [k \in Keys |-> NoFile]
    /\ now = 0

-----------------------------------------------------------------------------
(* Reference counts.                                                       *)

\* The occurrences of chunk h in the versions that these owners of a table own.
Occurrences(files, table, owners, h) ==
    {r \in owners \X Extents : table[r[1]] # NoFile /\ files[table[r[1]]][r[2]] = h}

References(table, owners, h) == Cardinality(Occurrences(file, table, owners, h))

\* chunkHashes of one version.
Count(version, h) == Cardinality({i \in Extents : version[i] = h})

\* Mutant: a hash that occurs twice is released once.
ReleasedOnce(table, owners) ==
    [h \in Hashes |-> IF h \in rows /\ References(table, owners, h) > 0 THEN refcount[h] - 1 ELSE refcount[h]]

\* adjustChunkRefs: an UPDATE, so a hash without a row is left alone.
Released(table, owners) ==
    [h \in Hashes |-> IF h \in rows THEN refcount[h] - References(table, owners, h) ELSE refcount[h]]

\* publishFileVersion and upsertChunkRefs.  The old head gives up its references
\* before the new version takes its own, so a chunk only the old head held looks
\* dead in between and takes the location of the new placement.
PublishChunks(path, version, placement, owners) ==
    LET released == Released(head, {path})
    IN  /\ rows' = rows \cup {h \in Hashes : Count(version, h) > 0}
        /\ refcount' = [h \in Hashes |->
                          (IF h \in rows THEN released[h] ELSE 0) + owners * Count(version, h)]
        /\ location' = [h \in Hashes |->
                          IF Count(version, h) > 0 /\ (h \in rows => released[h] = 0)
                          THEN placement[h] ELSE location[h]]

-----------------------------------------------------------------------------
(* Write operations (write_ops.go, write_result_retention.go).             *)

CreateWriteOp(key, path) ==
    /\ opState[key] = "none"
    /\ opState' = [opState EXCEPT ![key] = "prepared"]
    /\ opPath' = [opPath EXCEPT ![key] = path]
    /\ UNCHANGED <<fileVars, head, snapVars, rootVars, chunkVars, vlog, lease, opFile, now>>

ClaimVlogLease(id, key) ==
    /\ opState[key] = "prepared"
    /\ vlog[id] = "active"
    /\ lease[id] = NoKey
    /\ lease' = [lease EXCEPT ![id] = key]
    /\ UNCHANGED <<fileVars, head, snapVars, rootVars, chunkVars, vlog, opVars, now>>

RetargetPreparedWriteOp(key, path) ==
    /\ opPath' = [opPath EXCEPT ![key] = IF opState[key] = "prepared" THEN path ELSE @]
    /\ UNCHANGED <<fileVars, head, snapVars, rootVars, chunkVars, vlog, lease, opState, opFile, now>>

LeasesWithout(keys) == [id \in Vlogs |-> IF lease[id] \in keys THEN NoKey ELSE lease[id]]

\* Mutant: abandoning retries the terminal transition of a cancelled operation.
finishCancelledWriteOp(key, state) ==
    /\ opState' = [opState EXCEPT ![key] = IF @ \in {"prepared", "cancelled"} THEN state ELSE @]
    /\ lease' = LeasesWithout({key})
    /\ UNCHANGED <<fileVars, head, snapVars, rootVars, chunkVars, vlog, opPath, opFile, now>>

\* AbandonWriteOp and CancelWriteOp.
finishPreparedWriteOp(key, state) ==
    /\ opState' = [opState EXCEPT ![key] = IF @ = "prepared" THEN state ELSE @]
    /\ lease' = LeasesWithout({key})
    /\ UNCHANGED <<fileVars, head, snapVars, rootVars, chunkVars, vlog, opPath, opFile, now>>

\* commitWriteOpVersion.  The result root, when kept, is a second owner.
CommitWriteOpVersion(key, path, version, placement, retain) ==
    /\ opState[key] = "prepared"
    /\ nextFile \in FileIds
    /\ PublishChunks(path, version, placement, IF retain THEN 2 ELSE 1)
    /\ file' = [file EXCEPT ![nextFile] = version]
    /\ nextFile' = nextFile + 1
    /\ head' = [head EXCEPT ![path] = nextFile]
    /\ root' = IF retain THEN [root EXCEPT ![key] = nextFile] ELSE root
    /\ deadline' = IF retain THEN [deadline EXCEPT ![key] = now + Retention] ELSE deadline
    /\ opState' = [opState EXCEPT ![key] = "committed"]
    /\ opFile' = [opFile EXCEPT ![key] = nextFile]
    /\ lease' = LeasesWithout({key})
    /\ UNCHANGED <<snapVars, vlog, opPath, now>>

Elapsed == {k \in Keys : root[k] # NoFile /\ deadline[k] <= now}

\* A root whose operation is not its committed owner fails the transaction.
ExpireWriteResults ==
    /\ Elapsed # {}
    /\ \A k \in Elapsed : opState[k] = "committed" /\ opFile[k] = root[k]
    /\ opState' = [k \in Keys |-> IF k \in Elapsed THEN "expired" ELSE opState[k]]
    /\ refcount' = Released(root, Elapsed)
    /\ root' = [k \in Keys |-> IF k \in Elapsed THEN NoFile ELSE root[k]]
    /\ UNCHANGED <<fileVars, head, snapVars, deadline, rows, location, vlog, lease, opPath, opFile, now>>

-----------------------------------------------------------------------------
(* The namespace (queries.go).                                             *)

PreparedAt(path) == {k \in Keys : opState[k] = "prepared" /\ opPath[k] = path}

Cancelled(keys) == [k \in Keys |-> IF k \in keys THEN "cancelled" ELSE opState[k]]

UnlinkFile(path) ==
    /\ opState' = Cancelled(PreparedAt(path))
    /\ lease' = LeasesWithout(PreparedAt(path))
    /\ refcount' = Released(head, {path})
    /\ head' = [head EXCEPT ![path] = NoFile]
    /\ UNCHANGED <<fileVars, snapVars, rootVars, rows, location, vlog, opPath, opFile, now>>

\* RenameFile of an existing file; without one the transaction rolls back.
RenameFile(oldPath, newPath) ==
    /\ oldPath # newPath
    /\ head[oldPath] # NoFile
    /\ opState' = Cancelled(PreparedAt(newPath))
    /\ lease' = LeasesWithout(PreparedAt(newPath))
    /\ opPath' = [k \in Keys |-> IF k \in PreparedAt(oldPath) THEN newPath ELSE opPath[k]]
    /\ refcount' = Released(head, {newPath})
    /\ head' = [head EXCEPT ![newPath] = head[oldPath], ![oldPath] = NoFile]
    /\ UNCHANGED <<fileVars, snapVars, rootVars, rows, location, vlog, opFile, now>>

\* CreateSnapshot: every head, each taking the references of its version.
CreateSnapshot(id) ==
    /\ snapshot[id] = "none"
    /\ snapshot' = [snapshot EXCEPT ![id] = "active"]
    /\ snapFile' = [o \in Snapshots \X Paths |-> IF o[1] = id THEN head[o[2]] ELSE snapFile[o]]
    /\ refcount' = [h \in Hashes |->
                      IF h \in rows
                      THEN refcount[h] + Cardinality(Occurrences(file, snapFile', {id} \X Paths, h))
                      ELSE refcount[h]]
    /\ UNCHANGED <<fileVars, head, rootVars, rows, location, vlog, lease, opVars, now>>

\* deleteSnapshotTx, once for DeleteSnapshot and several times for ExpireSnapshots.
DeleteSnapshots(ids) ==
    /\ \A id \in ids : snapshot[id] = "active"
    /\ snapshot' = [s \in Snapshots |-> IF s \in ids THEN "deleted" ELSE snapshot[s]]
    /\ refcount' = Released(snapFile, ids \X Paths)
    /\ snapFile' = [o \in Snapshots \X Paths |-> IF o[1] \in ids THEN NoFile ELSE snapFile[o]]
    /\ UNCHANGED <<fileVars, head, rootVars, rows, location, vlog, lease, opVars, now>>

-----------------------------------------------------------------------------
(* Collection, and the vlog rows that compaction creates and retires.      *)

\* GCChunks, sparing the hashes the caller has pinned.
GCChunks(pinned) ==
    /\ rows' = rows \ {h \in rows : refcount[h] <= 0 /\ h \notin pinned}
    /\ refcount' = [h \in Hashes |-> IF h \in rows' THEN refcount[h] ELSE 0]
    /\ UNCHANGED <<fileVars, head, snapVars, rootVars, location, vlog, lease, opVars, now>>

\* Mutant: committed operations are not owners of their version rows.
UnownedByRoots ==
    {f \in FileIds :
        /\ file[f] # NoRow
        /\ \A p \in Paths : head[p] # f
        /\ \A o \in Snapshots \X Paths : snapFile[o] # f
        /\ \A k \in Keys : root[k] # f}

Unowned ==
    {f \in FileIds :
        /\ file[f] # NoRow
        /\ \A p \in Paths : head[p] # f
        /\ \A o \in Snapshots \X Paths : snapFile[o] # f
        /\ \A k \in Keys : root[k] # f
        /\ \A k \in Keys : opFile[k] = f => opState[k] \notin {"prepared", "committed"}}

\* GCFileVersions: the oldest unowned versions, at most CollectLimit of them.
GCFileVersions ==
    LET collected == {f \in Unowned : Cardinality({g \in Unowned : g < f}) < CollectLimit}
    IN  /\ file' = [f \in FileIds |-> IF f \in collected THEN NoRow ELSE file[f]]
        /\ UNCHANGED <<nextFile, head, snapVars, rootVars, chunkVars, vlog, lease, opVars, now>>

MakeVlog(id) ==
    /\ vlog[id] = "none"
    /\ vlog' = [vlog EXCEPT ![id] = "active"]
    /\ UNCHANGED <<fileVars, head, snapVars, rootVars, chunkVars, lease, opVars, now>>

RelocateChunk(h, id) ==
    /\ h \in rows
    /\ vlog[id] = "active"
    /\ location' = [location EXCEPT ![h] = id]
    /\ UNCHANGED <<fileVars, head, snapVars, rootVars, rows, refcount, vlog, lease, opVars, now>>

\* Mutant: live chunks do not stop the retirement.
RetireVlogUnchecked(id) ==
    /\ vlog[id] = "active"
    /\ vlog' = [vlog EXCEPT ![id] = "retired"]
    /\ rows' = {h \in rows : location[h] = id => refcount[h] > 0}
    /\ refcount' = [h \in Hashes |-> IF h \in rows' THEN refcount[h] ELSE 0]
    /\ lease' = [lease EXCEPT ![id] = NoKey]
    /\ UNCHANGED <<fileVars, head, snapVars, rootVars, location, opVars, now>>

\* RetireVlog: refused while a live chunk is there; dead rows go with it, and so
\* does a lease (ON DELETE CASCADE).
RetireVlog(id) ==
    /\ vlog[id] = "active"
    /\ \A h \in rows : location[h] = id => refcount[h] <= 0
    /\ vlog' = [vlog EXCEPT ![id] = "retired"]
    /\ rows' = {h \in rows : location[h] # id}
    /\ refcount' = [h \in Hashes |-> IF h \in rows' THEN refcount[h] ELSE 0]
    /\ lease' = [lease EXCEPT ![id] = NoKey]
    /\ UNCHANGED <<fileVars, head, snapVars, rootVars, location, opVars, now>>

Tick ==
    /\ now < MaxTime
    /\ now' = now + 1
    /\ UNCHANGED <<fileVars, head, snapVars, rootVars, chunkVars, vlog, lease, opVars>>

-----------------------------------------------------------------------------
\* Publication places every chunk of the version in a vlog the catalog has.
Placements(version) ==
    [{h \in Hashes : Count(version, h) > 0} -> {id \in Vlogs : vlog[id] = "active"}]

Operations ==
    \/ \E k \in Keys, p \in Paths : CreateWriteOp(k, p) \/ RetargetPreparedWriteOp(k, p)
    \/ \E k \in Keys, id \in Vlogs : ClaimVlogLease(id, k)
    \/ \E k \in Keys, state \in {"abandoned", "cancelled"} : finishPreparedWriteOp(k, state)
    \/ \E k \in Keys, p \in Paths, version \in Versions, retain \in BOOLEAN :
          \E w \in Placements(version) : CommitWriteOpVersion(k, p, version, w, retain)
    \/ ExpireWriteResults

Namespace ==
    \/ \E p \in Paths : UnlinkFile(p)
    \/ \E p, q \in Paths : RenameFile(p, q)
    \/ \E id \in Snapshots : CreateSnapshot(id)
    \/ \E ids \in SUBSET Snapshots : DeleteSnapshots(ids)

Reclamation ==
    \/ \E pinned \in SUBSET Hashes : GCChunks(pinned)
    \/ GCFileVersions
    \/ \E id \in Vlogs : MakeVlog(id) \/ RetireVlog(id)
    \/ \E h \in Hashes, id \in Vlogs : RelocateChunk(h, id)

Next == Operations \/ Namespace \/ Reclamation \/ Tick

Spec == Init /\ [][Next]_catalogVars

-----------------------------------------------------------------------------
(* Properties.                                                             *)

Owned(table, owners) == {table[o] : o \in owners} \ {NoFile}

AllOwned == Owned(head, Paths) \cup Owned(snapFile, Snapshots \X Paths) \cup Owned(root, Keys)

\* Types of the catalog tables (meta/db.go).
TypeOK ==
    /\ file \in [FileIds -> Versions \cup {NoRow}]
    /\ nextFile \in 1 .. MaxFiles + 1
    /\ head \in [Paths -> FileIds \cup {NoFile}]
    /\ snapshot \in [Snapshots -> {"none", "active", "deleted"}]
    /\ snapFile \in [Snapshots \X Paths -> FileIds \cup {NoFile}]
    /\ root \in [Keys -> FileIds \cup {NoFile}]
    /\ deadline \in [Keys -> Nat]
    /\ rows \subseteq Hashes
    /\ refcount \in [Hashes -> Int]
    /\ location \in [Hashes -> Vlogs]
    /\ vlog \in [Vlogs -> {"none", "active", "retired"}]
    /\ lease \in [Vlogs -> Keys \cup {NoKey}]
    /\ opState \in [Keys -> {"none", "prepared", "committed", "abandoned", "cancelled", "expired"}]
    /\ opPath \in [Keys -> Paths]
    /\ opFile \in [Keys -> FileIds \cup {NoFile}]
    /\ now \in Nat

TotalReferences(h) ==
    References(head, Paths, h) + References(snapFile, Snapshots \X Paths, h) + References(root, Keys, h)

\* A chunk's reference count is the number of its occurrences in the versions
\* that heads, snapshots and retained results own, after any mix of
\* publications, unlinks, renames, snapshots, expiries and collections; a chunk
\* that occurs anywhere has a row.
RefcountsExact ==
    \A h \in Hashes : IF h \in rows THEN refcount[h] = TotalReferences(h) ELSE TotalReferences(h) = 0

\* No collection of chunks, versions or vlogs takes anything away from a head,
\* snapshot or retained result: its version row is there, and each of its chunks
\* has a row in a vlog that has not been retired.
OwnedVersionsIntact ==
    \A f \in AllOwned :
        /\ file[f] # NoRow
        /\ \A i \in Extents : file[f][i] # Hole =>
              file[f][i] \in rows /\ vlog[location[file[f][i]]] = "active"

\* A result root belongs to the committed operation whose version it keeps, so
\* the error branch of ExpireWriteResults is unreachable.
RootsOwnResults == \A k \in Keys : root[k] # NoFile => opState[k] = "committed" /\ opFile[k] = root[k]

\* Only a prepared operation holds a lease: every way of ending one, by path or
\* by id, drops its leases in the same transaction.
LeasesArePrepared == \A id \in Vlogs : lease[id] # NoKey => opState[lease[id]] = "prepared" /\ vlog[id] = "active"

\* The outcome of a key is decided once: an ended operation never changes again,
\* except that a committed one expires, and its version id never changes.
OutcomesStable ==
    [][\A k \in Keys :
         opState[k] \notin {"none", "prepared"} =>
            /\ opState'[k] = opState[k] \/ (opState[k] = "committed" /\ opState'[k] = "expired")
            /\ opFile'[k] = opFile[k]]_catalogVars

-----------------------------------------------------------------------------
(* The inductive invariant behind the properties above.                    *)

\* Owned versions are older than nextFile and have a row, and so does the version
\* of every committed operation; only an active snapshot lists files.
VersionsPresent ==
    /\ \A f \in AllOwned : f < nextFile /\ file[f] # NoRow
    /\ \A o \in Snapshots \X Paths : snapFile[o] # NoFile => snapshot[o[1]] = "active"
    /\ \A k \in Keys : opState[k] = "committed" => opFile[k] # NoFile /\ opFile[k] < nextFile /\ file[opFile[k]] # NoRow

\* Dead or alive, a chunk row names a vlog the catalog has.
RowsPlaced == \A h \in rows : vlog[location[h]] = "active"

\* RefcountsExact with what each transaction needs to preserve it.
CatalogInv ==
    /\ TypeOK
    /\ RefcountsExact
    /\ VersionsPresent
    /\ RootsOwnResults
    /\ LeasesArePrepared
    /\ RowsPlaced
=============================================================================
