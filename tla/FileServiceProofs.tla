-------------------------- MODULE FileServiceProofs --------------------------
(***************************************************************************)
(* Proofs about FileService: it uses the catalog by its transactions only, *)
(* rows name bytes, and content that is open or planned is not reclaimed.  *)
(***************************************************************************)
EXTENDS FileService, CatalogProofs

-----------------------------------------------------------------------------
(* Types.                                                                  *)

\* The values of a chunk of a handle (FileHandle).
LEMMA SlotTypes ==
    /\ Empty \in Slots
    /\ \A h \in Hashes, v \in Vlogs \cup {NoVlog} : <<h, v>> \in Slots
    /\ \A slot \in Slots : /\ slot[1] \in Hashes \cup {Hole} /\ slot[2] \in Vlogs \cup {NoVlog}
                           /\ slot[1] = Hole => slot = Empty
                           /\ slot[1] # Hole => slot # Empty
BY HoleAssumption DEF Slots, Empty

\* The hashes of a version are hashes (FileVersionChunks).
LEMMA HashesOfType ==
    ASSUME NEW chunks \in Plans
    PROVE  HashesOf(chunks) \subseteq Hashes
BY SlotTypes DEF Plans, HashesOf

\* A plan is not the missing cache (buildCache).
LEMMA PlanIsCache == \A plan \in Plans : plan # NoCache
<1>1. 1 \in Extents
  BY NumbersAssumption DEF Extents
<1>2. \A plan \in Plans : DOMAIN plan = Extents
  BY DEF Plans
<1>3. DOMAIN NoRow = {}
  BY DEF NoRow
<1> QED
  BY <1>1, <1>2, <1>3 DEF NoCache

\* The fields of an open handle (FileHandle).
LEMMA HandleFields ==
    ASSUME ServiceTypeOK, NEW n \in Opened
    PROVE  /\ n \in Handles /\ handle[n] \in FileHandle
           /\ handle[n].path \in Paths /\ handle[n].snapshot \in BOOLEAN /\ handle[n].key \in Keys \cup {NoKey}
           /\ handle[n].chunks \in Plans /\ handle[n].cache \in Plans \cup {NoCache}
           /\ handle[n].unlinked \in BOOLEAN /\ handle[n].writeTouched \in BOOLEAN
           /\ handle[n].pinning \in Extents \cup {0} /\ handle[n].already \in BOOLEAN
           /\ handle[n].lost \subseteq Hashes
BY DEF ServiceTypeOK, Opened, FileHandle, Plans

\* The chunks a handle would publish (buildCache).
LEMMA CacheType ==
    ASSUME ServiceTypeOK, NEW n \in Opened
    PROVE  CacheOf(n) \in Plans
BY HandleFields DEF CacheOf

\* What the holder of namespaceMu has with it.
LEMMA CallFields ==
    ASSUME ServiceTypeOK
    PROVE  /\ call.step \in CloseSteps \cup {"free", "mark", "cancel"}
           /\ call.step = "free" <=> call = Free
           /\ call.step \in CloseSteps =>
                /\ call \in [step : CloseSteps, handle : Handles, remove : BOOLEAN, plan : Plans]
                /\ call.handle \in Handles /\ call.remove \in BOOLEAN /\ call.plan \in Plans
           /\ call.step \in {"mark", "cancel"} =>
                /\ call \in [step : {"mark", "cancel"}, gone : Paths, from : Paths, keys : SUBSET Keys]
                /\ call.gone \in Paths /\ call.from \in Paths /\ call.keys \subseteq Keys
BY DEF ServiceTypeOK, Calls, Free, CloseSteps

\* What a compaction has with it (CompactVlog).
LEMMA CompactionFields ==
    ASSUME ServiceTypeOK, compaction # NoCompaction
    PROVE  /\ compaction.step = "relocate"
           /\ compaction \in [step : {"relocate"}, source : Vlogs, dest : Vlogs, todo : SUBSET Hashes]
           /\ compaction.source \in Vlogs /\ compaction.dest \in Vlogs /\ compaction.todo \subseteq Hashes
BY DEF ServiceTypeOK, Compactions

\* A handle that is pinning has its operation and a chunk to store (planChunk).
LEMMA PendingType ==
    ASSUME ServiceTypeOK, NEW n \in Opened
    PROVE  Pending(n) \in Plans
BY CallFields, CacheType DEF Pending, Closes

\* The chunks of a readable version (FileVersionChunks).
LEMMA VersionType ==
    ASSUME TypeOK, NEW f \in FileIds \cup {NoFile}, Readable(f)
    PROVE  /\ FileVersionChunks(f) \in Plans
           /\ HashesOf(FileVersionChunks(f)) \subseteq rows
<1>1. ASSUME NEW i \in Extents, f # NoFile, file[f][i] # Hole
      PROVE  file[f][i] \in rows /\ file[f][i] \in Hashes /\ location[file[f][i]] \in Vlogs
  BY <1>1 DEF Readable, TypeOK
<1> DEFINE Chunk(i) == IF f = NoFile \/ file[f][i] = Hole THEN Empty ELSE <<file[f][i], location[file[f][i]]>>
<1>2. \A i \in Extents : Chunk(i) \in Slots /\ Chunk(i)[1] \in rows \cup {Hole}
  BY <1>1, SlotTypes DEF Empty
<1>3. FileVersionChunks(f) = [i \in Extents |-> Chunk(i)]
  BY DEF FileVersionChunks
<1> HIDE DEF Chunk
<1>4. FileVersionChunks(f) \in Plans
  BY <1>2, <1>3 DEF Plans
<1> QED
  BY <1>2, <1>3, <1>4 DEF HashesOf

-----------------------------------------------------------------------------
(* What the transactions of the catalog do to the service.                 *)

\* Transactions that move and delete no chunk row and grant no lease.
Steady ==
    \/ \E k \in Keys, p \in Paths : CreateWriteOp(k, p) \/ RetargetPreparedWriteOp(k, p)
    \/ \E k \in Keys, state \in {"abandoned", "cancelled"} : finishPreparedWriteOp(k, state)
    \/ ExpireWriteResults
    \/ Namespace
    \/ Tick

\* Transactions that delete no chunk row.
Quiet ==
    \/ Operations
    \/ Namespace
    \/ GCFileVersions
    \/ \E id \in Vlogs : MakeVlog(id)
    \/ \E h \in Hashes, id \in Vlogs : RelocateChunk(h, id)
    \/ Tick

\* What a transaction does with operations and leases: no ended operation starts
\* again, and one that goes on keeps its leases.
OpsFrame ==
    /\ \A k \in Keys : opState'[k] = "prepared" => opState[k] \in {"none", "prepared"}
    /\ \A k \in Keys : opState[k] # "none" => opState'[k] # "none"
    /\ \A v \in Vlogs, k \in Keys : lease[v] = k /\ opState'[k] = "prepared" => lease'[v] = k

\* Both kinds are transactions of the catalog (meta).
LEMMA SteadyIsNext ==
    /\ [Steady]_catalogVars => [Quiet]_catalogVars
    /\ [Quiet]_catalogVars => [Next]_catalogVars
BY DEF Steady, Quiet, Next, Operations, Reclamation

\* Transactions without deletions keep the rows, and the leases of the operations
\* that go on (finishPreparedWriteOp, commitWriteOpVersion, UnlinkFile, RenameFile).
LEMMA QuietFrame ==
    ASSUME CatalogInv, [Quiet]_catalogVars
    PROVE  rows \subseteq rows' /\ OpsFrame
<1> USE DEF CatalogInv, OpsFrame
<1>1. ASSUME NEW k \in Keys, NEW p \in Paths, CreateWriteOp(k, p) \/ RetargetPreparedWriteOp(k, p) PROVE rows \subseteq rows' /\ OpsFrame
  BY <1>1 DEF TypeOK, CreateWriteOp, RetargetPreparedWriteOp, chunkVars
<1>2. ASSUME NEW k \in Keys, NEW id \in Vlogs, ClaimVlogLease(id, k) PROVE rows \subseteq rows' /\ OpsFrame
  BY <1>2, NoKeyAssumption DEF TypeOK, ClaimVlogLease, chunkVars, opVars
<1>3. ASSUME NEW k \in Keys, NEW state \in {"abandoned", "cancelled"}, finishPreparedWriteOp(k, state) PROVE rows \subseteq rows' /\ OpsFrame
  BY <1>3, NoKeyAssumption DEF TypeOK, LeasesArePrepared, finishPreparedWriteOp, LeasesWithout, chunkVars
<1>4. ASSUME NEW k \in Keys, NEW p \in Paths, NEW version \in Versions, NEW w \in Placements(version), NEW retain \in BOOLEAN,
             CommitWriteOpVersion(k, p, version, w, retain)
      PROVE  rows \subseteq rows' /\ OpsFrame
  <2>1. rows \subseteq rows'
    BY <1>4 DEF CommitWriteOpVersion, PublishChunks
  <2>2. opState' = [opState EXCEPT ![k] = "committed"] /\ lease' = LeasesWithout({k})
    BY <1>4 DEF CommitWriteOpVersion
  <2> QED
    BY <2>1, <2>2 DEF TypeOK, LeasesWithout
<1>5. ASSUME ExpireWriteResults PROVE rows \subseteq rows' /\ OpsFrame
  BY <1>5 DEF TypeOK, ExpireWriteResults
<1>6. ASSUME NEW p \in Paths, UnlinkFile(p) PROVE rows \subseteq rows' /\ OpsFrame
  BY <1>6 DEF TypeOK, UnlinkFile, Cancelled, LeasesWithout, PreparedAt
<1>7. ASSUME NEW p \in Paths, NEW q \in Paths, RenameFile(p, q) PROVE rows \subseteq rows' /\ OpsFrame
  BY <1>7 DEF TypeOK, RenameFile, Cancelled, LeasesWithout, PreparedAt
<1>8. ASSUME NEW id \in Snapshots, CreateSnapshot(id) PROVE rows \subseteq rows' /\ OpsFrame
  BY <1>8 DEF CreateSnapshot, opVars
<1>9. ASSUME NEW ids \in SUBSET Snapshots, DeleteSnapshots(ids) PROVE rows \subseteq rows' /\ OpsFrame
  BY <1>9 DEF DeleteSnapshots, opVars
<1>10. ASSUME GCFileVersions PROVE rows \subseteq rows' /\ OpsFrame
  BY <1>10 DEF GCFileVersions, opVars, chunkVars
<1>11. ASSUME NEW id \in Vlogs, MakeVlog(id) PROVE rows \subseteq rows' /\ OpsFrame
  BY <1>11 DEF MakeVlog, opVars, chunkVars
<1>12. ASSUME NEW h \in Hashes, NEW id \in Vlogs, RelocateChunk(h, id) PROVE rows \subseteq rows' /\ OpsFrame
  BY <1>12 DEF RelocateChunk, opVars
<1>13. ASSUME Tick PROVE rows \subseteq rows' /\ OpsFrame
  BY <1>13 DEF Tick, opVars, chunkVars
<1>14. ASSUME UNCHANGED catalogVars PROVE rows \subseteq rows' /\ OpsFrame
  BY <1>14 DEF catalogVars, opVars, chunkVars
<1> QED
  BY <1>1, <1>2, <1>3, <1>4, <1>5, <1>6, <1>7, <1>8, <1>9, <1>10, <1>11, <1>12, <1>13, <1>14 DEF Quiet, Operations, Namespace

\* A chunk that a head has is live (RefcountsExact).
LEMMA HeadIsCounted ==
    ASSUME CatalogInv, NEW p \in Paths, NEW i \in Extents, NEW h \in rows,
           head[p] # NoFile, file[head[p]][i] = h
    PROVE  refcount[h] > 0
<1>1. h \in Hashes
  BY DEF CatalogInv, TypeOK
<1>2. /\ IsFiniteSet(Occurrences(file, head, Paths, h))
      /\ References(head, Paths, h) \in Nat /\ References(snapFile, Snapshots \X Paths, h) \in Nat
      /\ References(root, Keys, h) \in Nat
  BY OccurrencesFinite, TablesFinite DEF References
<1>3. <<p, i>> \in Occurrences(file, head, Paths, h)
  BY DEF Occurrences
<1>4. References(head, Paths, h) # 0
  BY <1>2, <1>3, FS_EmptySet DEF References
<1>5. refcount[h] = TotalReferences(h)
  BY <1>1 DEF CatalogInv, RefcountsExact
<1> QED
  BY <1>2, <1>4, <1>5 DEF TotalReferences

\* Giving up references brings no chunk to life (adjustChunkRefs).
LEMMA ReleasedNotRevived ==
    ASSUME CatalogInv, NEW table, NEW owners, IsFiniteSet(owners), refcount' = Released(table, owners)
    PROVE  \A h \in rows : refcount'[h] > 0 => refcount[h] > 0
<1> TAKE h \in rows
<1>1. h \in Hashes /\ refcount[h] \in Int
  BY DEF CatalogInv, TypeOK
<1>2. References(table, owners, h) \in Nat
  BY OccurrencesFinite DEF References
<1>3. refcount'[h] = refcount[h] - References(table, owners, h)
  BY <1>1, Zenon DEF Released
<1> QED
  BY <1>1, <1>2, <1>3

\* While no version is published chunks stay where they are and no dead one comes
\* to life: a snapshot or a rename takes references of live ones only.
LEMMA SteadyFrame ==
    ASSUME CatalogInv, [Steady]_catalogVars
    PROVE  /\ rows' = rows /\ location' = location
           /\ \A h \in rows : refcount'[h] > 0 => refcount[h] > 0
           /\ \A v \in Vlogs : lease'[v] \in {lease[v], NoKey}
<1> DEFINE Goal == /\ rows' = rows /\ location' = location
                   /\ \A h \in rows : refcount'[h] > 0 => refcount[h] > 0
                   /\ \A v \in Vlogs : lease'[v] \in {lease[v], NoKey}
<1>1. ASSUME NEW k \in Keys, NEW p \in Paths, CreateWriteOp(k, p) \/ RetargetPreparedWriteOp(k, p) PROVE Goal
  BY <1>1 DEF CreateWriteOp, RetargetPreparedWriteOp, chunkVars
<1>2. ASSUME NEW k \in Keys, NEW state \in {"abandoned", "cancelled"}, finishPreparedWriteOp(k, state) PROVE Goal
  BY <1>2 DEF finishPreparedWriteOp, LeasesWithout, chunkVars
<1>3. ASSUME ExpireWriteResults PROVE Goal
  <2>1. IsFiniteSet(Elapsed)
    BY TablesFinite DEF Elapsed
  <2> QED
    BY <1>3, <2>1, ReleasedNotRevived DEF ExpireWriteResults
<1>4. ASSUME NEW p \in Paths, UnlinkFile(p) PROVE Goal
  <2>1. \A h \in rows : refcount'[h] > 0 => refcount[h] > 0
    BY <1>4, TablesFinite, ReleasedNotRevived DEF UnlinkFile
  <2> QED
    BY <1>4, <2>1 DEF UnlinkFile, LeasesWithout
<1>5. ASSUME NEW p \in Paths, NEW q \in Paths, RenameFile(p, q) PROVE Goal
  <2>1. \A h \in rows : refcount'[h] > 0 => refcount[h] > 0
    BY <1>5, TablesFinite, ReleasedNotRevived DEF RenameFile
  <2> QED
    BY <1>5, <2>1 DEF RenameFile, LeasesWithout
<1>6. ASSUME NEW id \in Snapshots, CreateSnapshot(id) PROVE Goal
  <2>1. ASSUME NEW h \in rows, refcount'[h] > 0, ~(refcount[h] > 0) PROVE FALSE
    <3> DEFINE Occ == Occurrences(file, snapFile', {id} \X Paths, h)
    <3>1. h \in Hashes /\ refcount[h] \in Int
      BY DEF CatalogInv, TypeOK
    <3>2. refcount'[h] = refcount[h] + Cardinality(Occ)
      BY <1>6, <3>1, Zenon DEF CreateSnapshot
    <3>3. IsFiniteSet(Occ) /\ Cardinality(Occ) \in Nat
      BY OccurrencesFinite, TablesFinite
    <3>4. Occ # {}
      <4>1. Cardinality(Occ) # 0
        <5> HIDE DEF Occ
        <5> QED BY <2>1, <3>1, <3>2, <3>3
      <4> QED BY <4>1, FS_EmptySet
    <3>5. PICK r \in ({id} \X Paths) \X Extents : snapFile'[r[1]] # NoFile /\ file[snapFile'[r[1]]][r[2]] = h
      BY <3>4 DEF Occurrences
    <3>6. r[1] \in Snapshots \X Paths /\ r[1][1] = id /\ r[1][2] \in Paths /\ r[2] \in Extents
      BY <3>5
    <3>7. snapFile'[r[1]] = head[r[1][2]]
      BY <1>6, <3>6 DEF CreateSnapshot
    <3> QED
      BY <2>1, <3>5, <3>6, <3>7, HeadIsCounted
  <2> QED
    BY <1>6, <2>1 DEF CreateSnapshot
<1>7. ASSUME NEW ids \in SUBSET Snapshots, DeleteSnapshots(ids) PROVE Goal
  <2>1. \A h \in rows : refcount'[h] > 0 => refcount[h] > 0
    BY <1>7, TablesFinite, ReleasedNotRevived DEF DeleteSnapshots
  <2> QED
    BY <1>7, <2>1 DEF DeleteSnapshots
<1>8. ASSUME Tick PROVE Goal
  BY <1>8 DEF Tick, chunkVars
<1>9. ASSUME UNCHANGED catalogVars PROVE Goal
  BY <1>9 DEF catalogVars, chunkVars
<1> QED
  BY <1>1, <1>2, <1>3, <1>4, <1>5, <1>6, <1>7, <1>8, <1>9 DEF Steady, Namespace

-----------------------------------------------------------------------------
(* How a step changes handles and pins.                                    *)

\* CacheOf, Pending, Pinning and Transient with the tables they read.
CacheIn(hs, n) == IF hs[n].cache = NoCache THEN hs[n].chunks ELSE hs[n].cache
PendingIn(hs, c, n) == IF c.step = "plan" /\ c.handle = n THEN c.plan ELSE CacheIn(hs, n)
Busy(hs, n) == hs[n] # NoHandle /\ hs[n].pinning # 0
StoringIn(hs, c, n) == PendingIn(hs, c, n)[hs[n].pinning]
TransientIn(hs, c, key, h) ==
    \E n \in Handles : Busy(hs, n) /\ hs[n].key = key /\ ~hs[n].already /\ StoringIn(hs, c, n)[1] = h

\* The handle keeps its version and operation; what changes in its cache is not placed.
Carried(n) ==
    /\ handle[n] # NoHandle
    /\ handle'[n].key = handle[n].key
    /\ handle'[n].chunks = handle[n].chunks /\ handle'[n].lost = handle[n].lost
    /\ handlePins'[n] = handlePins[n]
    /\ handle'[n].key = NoKey => handle'[n].cache = NoCache
    /\ \A i \in Extents : CacheIn(handle', n)[i] = CacheIn(handle, n)[i] \/ CacheIn(handle', n)[i][2] \notin Vlogs

\* The handle shows a version whose chunks are pinned and have rows, but for
\* those that were gone before.
Fresh(n) ==
    /\ HashesOf(handle'[n].chunks) \subseteq handlePins'[n]
    /\ HashesOf(handle'[n].chunks) \ handle'[n].lost \subseteq rows'
    /\ CacheIn(handle', n) = handle'[n].chunks
    /\ handle'[n].pinning = 0
    /\ handle'[n].key = NoKey => handle'[n].cache = NoCache
    /\ handle'[n].key # NoKey => opState'[handle'[n].key] # "none"

\* A handle that is storing a chunk goes on with it, and no other handle starts.
PinFrame(n) ==
    /\ Busy(handle', n) <=> Busy(handle, n)
    /\ Busy(handle, n) =>
          /\ handle'[n].key = handle[n].key /\ handle'[n].pinning = handle[n].pinning
          /\ handle'[n].already = handle[n].already
          /\ StoringIn(handle', call', n) = StoringIn(handle, call, n)

\* Rows that are pinned, pins of operations that go on, and bytes in leased vlogs stay.
ContentFrame ==
    /\ rows \cap Pinned \subseteq rows'
    /\ \A k \in Keys : opState'[k] = "prepared" => opPins[k] \subseteq opPins'[k]
    /\ \A b \in stored : lease[b[2]] # NoKey => b \in stored'

\* The parts of ServiceInv about handles, with the tables they read.
PinnedIn(hs, rw) == \A n \in Handles : hs[n] # NoHandle => HashesOf(hs[n].chunks) \ hs[n].lost \subseteq rw
BoundIn(hs, states, pins) ==
    \A n \in Handles : hs[n] # NoHandle =>
        /\ hs[n].key = NoKey => hs[n].cache = NoCache /\ hs[n].pinning = 0
        /\ hs[n].key # NoKey => states[hs[n].key] # "none"
        /\ HashesOf(hs[n].chunks) \subseteq pins[n]
OneIn(hs, c, states, pins) ==
    /\ \A m, n \in Handles : Busy(hs, m) /\ Busy(hs, n) /\ hs[m].key = hs[n].key => m = n
    /\ \A n \in Handles : Busy(hs, n) =>
          /\ StoringIn(hs, c, n) \in Hashes \X {NoVlog}
          /\ hs[n].key # NoKey /\ states[hs[n].key] = "prepared" => StoringIn(hs, c, n)[1] \in pins[hs[n].key]
KeptIn(hs, c, rw, pins, st, leases, n, slot) ==
    \/ slot[1] \in HashesOf(hs[n].chunks)
    \/ slot[1] \in rw /\ slot[1] \in pins[hs[n].key] /\ ~TransientIn(hs, c, hs[n].key, slot[1])
    \/ slot \in st /\ leases[slot[2]] = hs[n].key
SlotsIn(hs, c, rw, states, pins, st, leases) ==
    \A n \in Handles : hs[n] # NoHandle /\ hs[n].key # NoKey /\ states[hs[n].key] = "prepared" =>
        \A i \in Extents :
            CacheIn(hs, n)[i][2] \in Vlogs => KeptIn(hs, c, rw, pins, st, leases, n, CacheIn(hs, n)[i])
HandleParts == PinnedContentSurvives /\ HandlesBound /\ OnePinAtATime /\ SlotsKept

\* The definitions are those of ServiceInv (CacheOf, Pending, Pinning, Transient).
LEMMA TablesSpelledOut ==
    /\ \A n : CacheOf(n) = CacheIn(handle, n)
    /\ \A n : Pending(n) = PendingIn(handle, call, n)
    /\ \A n : Pending(n)[handle[n].pinning] = StoringIn(handle, call, n)
    /\ \A n \in Handles : Pinning(n) <=> Busy(handle, n)
    /\ \A key, h : Transient(key, h) <=> TransientIn(handle, call, key, h)
<1>1. \A n : CacheOf(n) = CacheIn(handle, n)
  BY Zenon DEF CacheOf, CacheIn
<1>2. \A n : Pending(n) = PendingIn(handle, call, n)
  BY <1>1, Zenon DEF Pending, Closes, PendingIn
<1>3. \A n : Pending(n)[handle[n].pinning] = StoringIn(handle, call, n)
  BY <1>2, Zenon DEF StoringIn
<1>4. \A n \in Handles : Pinning(n) <=> Busy(handle, n)
  BY DEF Pinning, Opened, Busy
<1>5. \A key, h : Transient(key, h) <=> TransientIn(handle, call, key, h)
  BY <1>3, <1>4, Zenon DEF Transient, PinnedHash, TransientIn
<1> QED BY <1>1, <1>2, <1>3, <1>4, <1>5

\* HandleParts with the tables spelled out.
LEMMA PartsNow ==
    HandleParts <=> /\ PinnedIn(handle, rows) /\ BoundIn(handle, opState, handlePins)
                    /\ OneIn(handle, call, opState, opPins)
                    /\ SlotsIn(handle, call, rows, opState, opPins, stored, lease)
<1>1. PinnedContentSurvives <=> PinnedIn(handle, rows)
  BY Zenon DEF PinnedContentSurvives, Opened, PinnedIn
<1>2. HandlesBound <=> BoundIn(handle, opState, handlePins)
  BY Zenon DEF HandlesBound, Opened, BoundIn
<1>3. OnePinAtATime <=> OneIn(handle, call, opState, opPins)
  BY TablesSpelledOut, Zenon DEF OnePinAtATime, Prepared, PinnedHash, OneIn
<1>4. \A n, slot : Kept(n, slot) <=> KeptIn(handle, call, rows, opPins, stored, lease, n, slot)
  BY TablesSpelledOut, Zenon DEF Kept, KeptIn
<1>5. SlotsKept <=> SlotsIn(handle, call, rows, opState, opPins, stored, lease)
  BY <1>4, TablesSpelledOut, Zenon DEF SlotsKept, Prepared, Opened, SlotsIn
<1> QED BY <1>1, <1>2, <1>3, <1>5 DEF HandleParts

\* The same after a step.
LEMMA PartsNext ==
    HandleParts' <=> /\ PinnedIn(handle', rows') /\ BoundIn(handle', opState', handlePins')
                     /\ OneIn(handle', call', opState', opPins')
                     /\ SlotsIn(handle', call', rows', opState', opPins', stored', lease')
<1>1. (HandleParts <=> /\ PinnedIn(handle, rows) /\ BoundIn(handle, opState, handlePins)
                       /\ OneIn(handle, call, opState, opPins)
                       /\ SlotsIn(handle, call, rows, opState, opPins, stored, lease))'
  BY PartsNow, PTL
<1> QED BY <1>1

\* A step that fits the frames keeps the pins of unfinished operations and adds
\* none that could be taken back.
LEMMA TransientStep ==
    ASSUME \A n \in Handles : PinFrame(n), NEW key, NEW h
    PROVE  TransientIn(handle', call', key, h) => TransientIn(handle, call, key, h)
<1> SUFFICES ASSUME NEW n \in Handles, Busy(handle', n), handle'[n].key = key, ~handle'[n].already,
                    StoringIn(handle', call', n)[1] = h
             PROVE  TransientIn(handle, call, key, h)
  BY DEF TransientIn
<1>1. /\ Busy(handle, n) /\ handle[n].key = key /\ ~handle[n].already
      /\ StoringIn(handle, call, n)[1] = h
  BY Zenon DEF PinFrame
<1> QED BY <1>1, Zenon DEF TransientIn

\* A step that fits the frames keeps HandleParts: every handle goes on with what
\* it had, or shows a version that is pinned.
LEMMA PartsStep ==
    ASSUME ServiceInv, ServiceTypeOK', OpsFrame, ContentFrame,
           \A n \in Handles : PinFrame(n),
           \A n \in Handles : handle'[n] # NoHandle => Carried(n) \/ Fresh(n)
    PROVE  HandleParts'
<1>1. /\ PinnedIn(handle, rows) /\ BoundIn(handle, opState, handlePins)
      /\ OneIn(handle, call, opState, opPins)
      /\ SlotsIn(handle, call, rows, opState, opPins, stored, lease)
  BY PartsNow DEF ServiceInv, HandleParts
<1>2. ASSUME NEW n \in Handles, handle'[n] # NoHandle
      PROVE  /\ handle'[n].key \in Keys \cup {NoKey}
             /\ handle'[n].key # NoKey /\ opState'[handle'[n].key] = "prepared" /\ Carried(n) =>
                   opState[handle[n].key] = "prepared" /\ handle[n].key \in Keys
             /\ handle'[n].key # NoKey => opState'[handle'[n].key] # "none"
  <2>1. handle'[n].key \in Keys \cup {NoKey}
    BY <1>2 DEF ServiceTypeOK, FileHandle
  <2>2. CASE Carried(n)
    <3>1. handle[n] # NoHandle /\ handle'[n].key = handle[n].key
      BY <2>2 DEF Carried
    <3>2. handle[n].key # NoKey => opState[handle[n].key] # "none"
      BY <1>1, <3>1, Zenon DEF BoundIn
    <3> QED BY <2>1, <3>1, <3>2 DEF OpsFrame
  <2>3. CASE Fresh(n) /\ ~Carried(n)
    BY <2>1, <2>3 DEF Fresh
  <2> QED BY <1>2, <2>2, <2>3
<1>3. ASSUME NEW n \in Handles, handle'[n] # NoHandle
      PROVE  /\ HashesOf(handle'[n].chunks) \ handle'[n].lost \subseteq rows'
             /\ HashesOf(handle'[n].chunks) \subseteq handlePins'[n]
  <2>1. CASE Carried(n)
    <3>1. handle[n] # NoHandle /\ handle'[n].chunks = handle[n].chunks /\ handlePins'[n] = handlePins[n]
          /\ handle'[n].lost = handle[n].lost
      BY <2>1 DEF Carried
    <3>2. HashesOf(handle[n].chunks) \subseteq handlePins[n] /\ HashesOf(handle[n].chunks) \ handle[n].lost \subseteq rows
      BY <1>1, <3>1, Zenon DEF BoundIn, PinnedIn
    <3>3. handlePins[n] \subseteq Pinned
      BY <1>3 DEF Pinned
    <3>4. HashesOf(handle[n].chunks) \ handle[n].lost \subseteq rows'
      BY <3>2, <3>3 DEF ContentFrame
    <3> QED BY <3>1, <3>2, <3>4
  <2>2. CASE Fresh(n)
    BY <2>2 DEF Fresh
  <2> QED BY <1>3, <2>1, <2>2
<1>4. ASSUME NEW n \in Handles, handle'[n] # NoHandle, handle'[n].key = NoKey
      PROVE  handle'[n].cache = NoCache /\ handle'[n].pinning = 0
  <2>1. CASE Carried(n)
    <3>1. handle[n] # NoHandle /\ handle[n].key = NoKey /\ handle'[n].cache = NoCache
      BY <1>4, <2>1 DEF Carried
    <3>2. ~Busy(handle, n)
      BY <1>1, <3>1, Zenon DEF BoundIn, Busy
    <3>3. ~Busy(handle', n)
      BY <3>2, Zenon DEF PinFrame
    <3> QED BY <1>4, <3>1, <3>3 DEF Busy
  <2>2. CASE Fresh(n)
    BY <1>4, <2>2 DEF Fresh
  <2> QED BY <1>4, <2>1, <2>2
<1>5. PinnedIn(handle', rows') /\ BoundIn(handle', opState', handlePins')
  BY <1>2, <1>3, <1>4, Zenon DEF PinnedIn, BoundIn
<1>6. OneIn(handle', call', opState', opPins')
  <2>1. ASSUME NEW m \in Handles, NEW n \in Handles, Busy(handle', m), Busy(handle', n), handle'[m].key = handle'[n].key
        PROVE  m = n
    <3>1. Busy(handle, m) /\ Busy(handle, n) /\ handle[m].key = handle[n].key
      BY <2>1, Zenon DEF PinFrame
    <3> QED BY <1>1, <3>1, Zenon DEF OneIn
  <2>2. ASSUME NEW n \in Handles, Busy(handle', n)
        PROVE  /\ StoringIn(handle', call', n) \in Hashes \X {NoVlog}
               /\ handle'[n].key # NoKey /\ opState'[handle'[n].key] = "prepared" =>
                     StoringIn(handle', call', n)[1] \in opPins'[handle'[n].key]
    <3>1. /\ Busy(handle, n) /\ handle'[n].key = handle[n].key
          /\ StoringIn(handle', call', n) = StoringIn(handle, call, n)
      BY <2>2, Zenon DEF PinFrame
    <3>2. /\ StoringIn(handle, call, n) \in Hashes \X {NoVlog}
          /\ handle[n].key # NoKey /\ opState[handle[n].key] = "prepared" =>
                StoringIn(handle, call, n)[1] \in opPins[handle[n].key]
      BY <1>1, <3>1, Zenon DEF OneIn
    <3>3. handle[n].key # NoKey => handle[n].key \in Keys /\ opState[handle[n].key] # "none"
      BY <1>1, <3>1 DEF Busy, BoundIn, ServiceInv, ServiceTypeOK, FileHandle
    <3>4. handle[n].key # NoKey /\ opState'[handle[n].key] = "prepared" =>
             opState[handle[n].key] = "prepared" /\ opPins[handle[n].key] \subseteq opPins'[handle[n].key]
      BY <3>3 DEF OpsFrame, ContentFrame
    <3> QED BY <3>1, <3>2, <3>4
  <2> QED BY <2>1, <2>2, Zenon DEF OneIn
<1>7. SlotsIn(handle', call', rows', opState', opPins', stored', lease')
  <2> SUFFICES ASSUME NEW n \in Handles, handle'[n] # NoHandle, handle'[n].key # NoKey,
                      opState'[handle'[n].key] = "prepared", NEW i \in Extents, CacheIn(handle', n)[i][2] \in Vlogs
               PROVE  KeptIn(handle', call', rows', opPins', stored', lease', n, CacheIn(handle', n)[i])
    BY Zenon DEF SlotsIn
  <2> DEFINE slot == CacheIn(handle', n)[i]
  <2>1. CASE Carried(n)
    <3>1. /\ handle[n] # NoHandle /\ handle'[n].key = handle[n].key /\ handle'[n].chunks = handle[n].chunks
          /\ CacheIn(handle, n)[i] = slot
      BY <2>1 DEF Carried
    <3>2. opState[handle[n].key] = "prepared" /\ handle[n].key \in Keys
      BY <1>2, <2>1
    <3>3. KeptIn(handle, call, rows, opPins, stored, lease, n, slot)
      BY <1>1, <3>1, <3>2, Zenon DEF SlotsIn
    <3>4. opPins[handle[n].key] \subseteq opPins'[handle[n].key]
      BY <3>1, <3>2 DEF ContentFrame
    <3>5. opPins[handle[n].key] \subseteq Pinned
      BY <3>2 DEF Pinned
    <3> HIDE DEF slot
    <3>6. ASSUME slot[1] \in rows, slot[1] \in opPins[handle[n].key]
          PROVE  slot[1] \in rows' /\ slot[1] \in opPins'[handle[n].key]
      BY <3>4, <3>5, <3>6 DEF ContentFrame
    <3>7. ~TransientIn(handle, call, handle[n].key, slot[1]) => ~TransientIn(handle', call', handle[n].key, slot[1])
      BY TransientStep
    <3>8. slot \in stored /\ lease[slot[2]] = handle[n].key => slot \in stored' /\ lease'[slot[2]] = handle[n].key
      BY <3>1, <3>2, NoKeyAssumption DEF ContentFrame, OpsFrame, slot
    <3>9. KeptIn(handle', call', rows', opPins', stored', lease', n, slot)
      BY <3>1, <3>3, <3>6, <3>7, <3>8, Zenon DEF KeptIn
    <3> QED BY <3>9 DEF slot
  <2>2. CASE Fresh(n)
    <3>1. slot = handle'[n].chunks[i]
      BY <2>2 DEF Fresh
    <3>2. handle'[n].chunks \in Plans
      BY DEF ServiceTypeOK, FileHandle, Plans
    <3>3. slot \in Slots
      BY <3>1, <3>2 DEF Plans
    <3>4. slot[1] # Hole
      BY <3>3, SlotTypes, NoVlogAssumption DEF Empty
    <3>5. slot[1] \in HashesOf(handle'[n].chunks)
      BY <3>1, <3>4 DEF HashesOf
    <3> QED BY <3>5 DEF KeptIn
  <2> QED BY <2>1, <2>2
<1> QED BY <1>5, <1>6, <1>7, PartsNext

\* The call that closes a handle goes on with it, or ends.
CloseFrame ==
    call'.step \in CloseSteps =>
        /\ call.step \in CloseSteps /\ call'.handle = call.handle
        /\ call'.step # "plan" => call.step # "plan" \/ handle[call.handle].pinning = 0
        /\ call'.step \in {"committed", "released"} => call.step \in {"committed", "released"}
        /\ handle'[call.handle] # NoHandle
        /\ handle'[call.handle].key = handle[call.handle].key
        /\ handle'[call.handle].unlinked = handle[call.handle].unlinked

\* The parts of the handles that ServiceInv is about, and their pins, stay.
SameHandles ==
    /\ handlePins' = handlePins
    /\ \A n \in Handles : handle'[n] # NoHandle <=> handle[n] # NoHandle
    /\ \A n \in Handles : handle[n] # NoHandle =>
          /\ handle'[n].key = handle[n].key /\ handle'[n].chunks = handle[n].chunks
          /\ handle'[n].cache = handle[n].cache /\ handle'[n].pinning = handle[n].pinning
          /\ handle'[n].already = handle[n].already /\ handle'[n].lost = handle[n].lost

\* No plan is taken, and none is dropped while its handle stores a chunk.
PlanFrame ==
    \/ call' = call
    \/ /\ call'.step # "plan"
       /\ call.step = "plan" => handle[call.handle].pinning = 0

\* A Close that goes on has its handle (finishHandle).
LEMMA CloseKept ==
    ASSUME ServiceInv, OpsFrame, \A n \in Handles : PinFrame(n), CloseFrame
    PROVE  CloseHoldsHandle'
<1> SUFFICES ASSUME call'.step \in CloseSteps
             PROVE  /\ call'.handle \in Handles /\ handle'[call'.handle] # NoHandle
                    /\ handle'[call'.handle].key # NoKey
                    /\ ~handle'[call'.handle].unlinked
                    /\ call'.step # "plan" => handle'[call'.handle].pinning = 0
                    /\ call'.step \in {"committed", "released"} => opState'[handle'[call'.handle].key] # "prepared"
                    /\ \A n \in Handles \ {call'.handle} : handle'[n] # NoHandle /\ handle'[n].key = handle'[call'.handle].key =>
                          handle'[n].pinning = 0
  BY DEF CloseHoldsHandle, Opened, Prepared
<1> DEFINE c == call.handle
<1>1. /\ call.step \in CloseSteps /\ call'.handle = c
      /\ call'.step # "plan" => call.step # "plan" \/ handle[c].pinning = 0
      /\ call'.step \in {"committed", "released"} => call.step \in {"committed", "released"}
      /\ handle'[c] # NoHandle /\ handle'[c].key = handle[c].key /\ handle'[c].unlinked = handle[c].unlinked
  BY DEF CloseFrame
<1>2. /\ c \in Handles /\ handle[c] # NoHandle /\ handle[c].key # NoKey /\ ~handle[c].unlinked
      /\ call.step # "plan" => handle[c].pinning = 0
      /\ call.step \in {"committed", "released"} => opState[handle[c].key] # "prepared"
      /\ \A n \in Handles \ {c} : handle[n] # NoHandle /\ handle[n].key = handle[c].key => handle[n].pinning = 0
  BY <1>1 DEF ServiceInv, CloseHoldsHandle, Opened, Prepared
<1> HIDE DEF c
<1>3. call'.step # "plan" => handle'[c].pinning = 0
  BY <1>1, <1>2 DEF PinFrame, Busy
<1>4. ASSUME NEW n \in Handles \ {c}, handle'[n] # NoHandle, handle'[n].key = handle'[c].key PROVE handle'[n].pinning = 0
  BY <1>1, <1>2, <1>4 DEF PinFrame, Busy
<1>5. call'.step \in {"committed", "released"} => opState'[handle'[c].key] # "prepared"
  <2>1. handle[c].key \in Keys /\ opState[handle[c].key] # "none"
    BY <1>2, HandleFields DEF ServiceInv, HandlesBound, Opened
  <2> QED BY <1>1, <1>2, <2>1 DEF OpsFrame
<1> QED BY <1>1, <1>2, <1>3, <1>4, <1>5

\* Steps that do not touch handles fit the frames.
LEMMA SameHandlesFrame ==
    ASSUME ServiceInv, SameHandles, PlanFrame
    PROVE  /\ \A n \in Handles : PinFrame(n)
           /\ \A n \in Handles : handle'[n] # NoHandle => Carried(n) \/ Fresh(n)
<1>1. ASSUME NEW n \in Handles, handle[n] # NoHandle PROVE CacheIn(handle', n) = CacheIn(handle, n)
  BY <1>1 DEF SameHandles, CacheIn
<1>2. ASSUME NEW n \in Handles PROVE PinFrame(n)
  <2>1. Busy(handle', n) <=> Busy(handle, n)
    BY DEF SameHandles, Busy
  <2>2. ASSUME Busy(handle, n) PROVE StoringIn(handle', call', n) = StoringIn(handle, call, n)
    <3>1. handle[n] # NoHandle /\ handle[n].pinning # 0 /\ handle'[n].pinning = handle[n].pinning
      BY <2>2 DEF Busy, SameHandles
    <3>2. CASE call' = call
      BY <1>1, <3>1, <3>2 DEF StoringIn, PendingIn
    <3>3. CASE call'.step # "plan" /\ (call.step = "plan" => handle[call.handle].pinning = 0)
      BY <1>1, <3>1, <3>3 DEF StoringIn, PendingIn
    <3> QED BY <3>2, <3>3 DEF PlanFrame
  <2> QED BY <2>1, <2>2 DEF PinFrame, SameHandles, Busy
<1>3. ASSUME NEW n \in Handles, handle'[n] # NoHandle PROVE Carried(n)
  <2>1. handle[n] # NoHandle
    BY <1>3 DEF SameHandles
  <2>2. handle[n].key = NoKey => handle[n].cache = NoCache
    BY <2>1 DEF ServiceInv, HandlesBound, Opened
  <2> QED BY <1>1, <2>1, <2>2 DEF Carried, SameHandles
<1> QED BY <1>2, <1>3

\* While no chunk row is moved or deleted, rows name bytes and a compaction finds
\* nothing live that it has not seen (CompactVlog).
LEMMA SteadyBytes ==
    ASSUME ServiceInv, [Steady]_catalogVars, stored' = stored, compaction' = compaction
    PROVE  RowsHaveBytes' /\ CompactionInv'
<1>1. /\ rows' = rows /\ location' = location
      /\ \A h \in rows : refcount'[h] > 0 => refcount[h] > 0
      /\ \A v \in Vlogs : lease'[v] \in {lease[v], NoKey}
  BY SteadyFrame DEF ServiceInv
<1>2. RowsHaveBytes'
  BY <1>1 DEF ServiceInv, RowsHaveBytes
<1>3. ASSUME compaction # NoCompaction
      PROVE  /\ compaction.dest # compaction.source
             /\ lease'[compaction.source] = NoKey
             /\ compaction.todo \X {compaction.dest} \subseteq stored
             /\ {h \in rows : refcount'[h] > 0 /\ location[h] = compaction.source} \subseteq compaction.todo
  BY <1>1, <1>3, CompactionFields DEF ServiceInv, CompactionInv, LiveChunksInVlog
<1>4. CompactionInv'
  BY <1>1, <1>3 DEF CompactionInv, LiveChunksInVlog
<1> QED BY <1>2, <1>4

\* The parts make the invariant.
LEMMA PartsMakeInv ==
    ASSUME CatalogInv', ServiceTypeOK', RowsHaveBytes', HandleParts', CloseHoldsHandle', CompactionInv'
    PROVE  ServiceInv'
BY DEF ServiceInv, HandleParts

\* A transaction keeps the invariant of the catalog (CatalogInvariance).
LEMMA CatalogStep == CatalogInv /\ [Next]_catalogVars => CatalogInv'
BY TypeStep, CountsStep, VersionsStep, OwnershipStep DEF CatalogInv

\* A step that moves and deletes no chunk row and fits the frames keeps the invariant.
LEMMA SteadyStep ==
    ASSUME ServiceInv, [Steady]_catalogVars, ServiceTypeOK', CloseHoldsHandle',
           stored' = stored, compaction' = compaction,
           \A k \in Keys : opState'[k] = "prepared" => opPins[k] \subseteq opPins'[k],
           \A n \in Handles : PinFrame(n),
           \A n \in Handles : handle'[n] # NoHandle => Carried(n) \/ Fresh(n)
    PROVE  ServiceInv'
<1>1. CatalogInv' /\ OpsFrame /\ rows \subseteq rows'
  BY SteadyIsNext, CatalogStep, QuietFrame DEF ServiceInv
<1>2. ContentFrame
  BY <1>1 DEF ContentFrame
<1>3. HandleParts'
  BY <1>1, <1>2, PartsStep
<1> QED BY <1>1, <1>3, SteadyBytes, PartsMakeInv

-----------------------------------------------------------------------------
(* Steps that leave handles alone.                                         *)

\* What is shown of every step: it keeps the invariant and is a transaction of
\* the catalog or leaves it alone.
Sound == ServiceInv' /\ [Next]_catalogVars

\* Steps that touch neither rows nor handles (Expire, Unlink, CreateSnapshot).
LEMMA SameStep ==
    ASSUME ServiceInv, [Steady]_catalogVars, ServiceTypeOK', SameHandles, PlanFrame, CloseFrame,
           stored' = stored, compaction' = compaction,
           \A k \in Keys : opState'[k] = "prepared" => opPins[k] \subseteq opPins'[k]
    PROVE  Sound
<1>1. /\ \A n \in Handles : PinFrame(n)
      /\ \A n \in Handles : handle'[n] # NoHandle => Carried(n) \/ Fresh(n)
  BY SameHandlesFrame
<1>2. CloseHoldsHandle'
  BY <1>1, SteadyIsNext, QuietFrame, CloseKept DEF ServiceInv
<1>3. [Next]_catalogVars
  BY SteadyIsNext
<1> QED BY <1>1, <1>2, <1>3, SteadyStep DEF Sound

\* A transaction that the service's memory does not follow (ExpireWriteResults,
\* CreateSnapshot, DeleteSnapshot, the clock).
LEMMA MemorySame ==
    ASSUME ServiceInv, [Steady]_catalogVars, UNCHANGED serviceVars
    PROVE  Sound
<1>1. /\ handle' = handle /\ opPins' = opPins /\ handlePins' = handlePins /\ stored' = stored
      /\ ahead' = ahead /\ call' = call /\ compaction' = compaction /\ job' = job
  BY DEF serviceVars
<1>2. ServiceTypeOK'
  BY <1>1 DEF ServiceInv, ServiceTypeOK
<1>3. SameHandles /\ PlanFrame
  BY <1>1 DEF SameHandles, PlanFrame
<1>4. CloseFrame
  BY <1>1 DEF CloseFrame, ServiceInv, CloseHoldsHandle, Opened
<1> QED BY <1>1, <1>2, <1>3, <1>4, SameStep

\* Elapsed results expire, snapshots come and go, and time passes.
LEMMA TransactionsSound ==
    ASSUME ServiceInv,
           \/ Expire
           \/ \E id \in Snapshots : TakeSnapshot(id) \/ DropSnapshot(id)
           \/ Tick /\ UNCHANGED serviceVars
    PROVE  Sound
<1>1. CASE Expire
  BY <1>1, MemorySame DEF Expire, Steady
<1>2. ASSUME NEW id \in Snapshots, TakeSnapshot(id) PROVE Sound
  BY <1>2, MemorySame DEF TakeSnapshot, Steady, Namespace
<1>3. ASSUME NEW id \in Snapshots, DropSnapshot(id) PROVE Sound
  <2>1. {id} \in SUBSET Snapshots
    BY <1>3
  <2> QED BY <1>3, <2>1, MemorySame DEF DropSnapshot, Steady, Namespace
<1>4. CASE Tick /\ UNCHANGED serviceVars
  BY <1>4, MemorySame DEF Steady
<1> QED BY <1>1, <1>2, <1>3, <1>4

\* The calls that hold namespaceMu, between their steps on handles.
LEMMA CallsSound ==
    ASSUME ServiceInv,
           \/ rehomePublicationChunks \/ CloseFails
           \/ NamespaceReturns \/ NamespaceFails
           \/ \E p \in Paths : Unlink(p)
           \/ \E p, q \in Paths : Rename(p, q)
           \/ \E k \in Keys : CancelMarked(k)
    PROVE  Sound
<1>1. ServiceTypeOK
  BY DEF ServiceInv
<1>2. ASSUME handle' = handle, opPins' = opPins, handlePins' = handlePins, stored' = stored, ahead' = ahead,
             compaction' = compaction, job' = job, call' \in Calls, call'.step # "plan", [Steady]_catalogVars,
             call.step \in CloseSteps => handle[call.handle].pinning = 0,
             call'.step \in CloseSteps => call'.step = "publish" /\ call.step = "plan" /\ call'.handle = call.handle
      PROVE  Sound
  <2>1. ServiceTypeOK'
    BY <1>1, <1>2 DEF ServiceTypeOK
  <2>2. SameHandles /\ PlanFrame
    BY <1>2 DEF SameHandles, PlanFrame, CloseSteps
  <2>3. CloseFrame
    BY <1>2 DEF CloseFrame, CloseSteps, ServiceInv, CloseHoldsHandle, Opened
  <2> QED BY <1>2, <2>1, <2>2, <2>3, SameStep
<1>3. CASE rehomePublicationChunks
  <2>1. call.step = "plan" /\ call.handle \in Opened /\ handle[call.handle].pinning = 0 /\ call' = [call EXCEPT !.step = "publish"]
    BY <1>3 DEF rehomePublicationChunks, Idle
  <2>2. call' \in Calls /\ call'.step = "publish" /\ call'.handle = call.handle
    BY <1>1, <2>1, CallFields DEF Calls, CloseSteps
  <2> QED BY <1>2, <1>3, <2>1, <2>2 DEF rehomePublicationChunks, pinVars, storeVars, CloseSteps
<1>4. CASE CloseFails
  <2>1. call' \in Calls /\ call'.step = "free"
    BY <1>4 DEF CloseFails, Calls, Free
  <2> QED BY <1>2, <1>4, <2>1 DEF CloseFails, Idle, pinVars, storeVars, CloseSteps
<1>5. CASE NamespaceReturns \/ NamespaceFails
  <2>1. call' \in Calls /\ call'.step = "free"
    BY <1>5 DEF NamespaceReturns, NamespaceFails, Calls, Free
  <2> QED BY <1>2, <1>5, <2>1 DEF NamespaceReturns, NamespaceFails, pinVars, storeVars, CloseSteps
<1>6. ASSUME NEW p \in Paths, Unlink(p) PROVE Sound
  <2>1. call' \in Calls /\ call'.step = "mark" /\ call.step = "free"
    BY <1>6 DEF Unlink, Calls, Free
  <2>2. [Steady]_catalogVars
    BY <1>6 DEF Unlink, Steady, Namespace
  <2> QED BY <1>2, <1>6, <2>1, <2>2 DEF Unlink, pinVars, storeVars, CloseSteps
<1>7. ASSUME NEW p \in Paths, NEW q \in Paths, Rename(p, q) PROVE Sound
  <2>1. call' \in Calls /\ call'.step = "mark" /\ call.step = "free"
    BY <1>7 DEF Rename, Calls, Free
  <2>2. [Steady]_catalogVars
    BY <1>7 DEF Rename, Steady, Namespace
  <2> QED BY <1>2, <1>7, <2>1, <2>2 DEF Rename, pinVars, storeVars, CloseSteps
<1>8. ASSUME NEW k \in Keys, CancelMarked(k) PROVE Sound
  <2>1. call.step = "cancel" /\ call' = [call EXCEPT !.keys = @ \ {k}]
    BY <1>8 DEF CancelMarked
  <2>2. call' \in Calls /\ call'.step = "cancel"
    BY <1>1, <2>1, CallFields DEF Calls
  <2>3. [Steady]_catalogVars
    BY <1>8 DEF CancelMarked, Steady
  <2> QED BY <1>2, <1>8, <2>1, <2>2, <2>3 DEF CancelMarked, pinVars, storeVars, CloseSteps
<1> QED BY <1>3, <1>4, <1>5, <1>6, <1>7, <1>8

\* An operation that ends gives its pins back (finishPreparedWriteOp).
LEMMA EndedOperation ==
    ASSUME ServiceInv, NEW key \in Keys, NEW state \in {"abandoned", "cancelled"}, finishPreparedWriteOp(key, state),
           opPins' = [opPins EXCEPT ![key] = {}]
    PROVE  /\ [Steady]_catalogVars
           /\ opPins' \in [Keys -> SUBSET Hashes]
           /\ \A k \in Keys : opState'[k] = "prepared" => opPins[k] \subseteq opPins'[k]
<1>1. [Steady]_catalogVars
  BY DEF Steady
<1>2. opState'[key] # "prepared"
  BY DEF finishPreparedWriteOp, ServiceInv, CatalogInv, TypeOK
<1> QED BY <1>1, <1>2 DEF ServiceInv, ServiceTypeOK

\* The reaper ends operations without a handle; Unlink and Rename mark and
\* retarget the handles of the names they took.
LEMMA MarkingSound ==
    ASSUME ServiceInv,
           \/ \E k \in Keys : ReapOperation(k)
           \/ markOpenHandlesUnlinked
           \/ \E n \in Handles : RetargetHandle(n)
    PROVE  Sound
<1>1. ServiceTypeOK
  BY DEF ServiceInv
<1>2. ASSUME NEW k \in Keys, ReapOperation(k) PROVE Sound
  <2>1. /\ [Steady]_catalogVars
        /\ opPins' \in [Keys -> SUBSET Hashes]
        /\ \A j \in Keys : opState'[j] = "prepared" => opPins[j] \subseteq opPins'[j]
    BY <1>2, EndedOperation DEF ReapOperation
  <2>2. handle' = handle /\ handlePins' = handlePins /\ stored' = stored /\ ahead' = ahead
        /\ call' = call /\ compaction' = compaction /\ job' = job /\ call.step = "free"
    BY <1>2 DEF ReapOperation, storeVars, Free
  <2>3. ServiceTypeOK'
    BY <1>1, <2>1, <2>2 DEF ServiceTypeOK
  <2>4. SameHandles /\ PlanFrame /\ CloseFrame
    BY <2>2 DEF SameHandles, PlanFrame, CloseFrame, CloseSteps
  <2> QED BY <2>1, <2>2, <2>3, <2>4, SameStep
<1>3. CASE markOpenHandlesUnlinked
  <2> DEFINE gone == {n \in Opened : ~handle[n].snapshot /\ handle[n].path = call.gone}
             keys == {handle[n].key : n \in gone} \ {NoKey}
  <2>1. /\ call.step = "mark"
        /\ handle' = [n \in Handles |-> IF n \in gone THEN [handle[n] EXCEPT !.unlinked = TRUE] ELSE handle[n]]
        /\ call' = [call EXCEPT !.step = "cancel", !.keys = keys]
        /\ UNCHANGED <<catalogVars, pinVars, storeVars, compaction, job>>
    BY <1>3, Zenon DEF markOpenHandlesUnlinked
  <2>2. keys \in SUBSET Keys
    BY <1>1, HandleFields
  <2>3. \A n \in gone : n \in Opened
    OBVIOUS
  <2> HIDE DEF gone, keys
  <2>4. ASSUME NEW n \in Handles, n \in gone
        PROVE  /\ handle'[n] \in FileHandle /\ handle'[n] # NoHandle
               /\ handle'[n].key = handle[n].key /\ handle'[n].chunks = handle[n].chunks
               /\ handle'[n].cache = handle[n].cache /\ handle'[n].pinning = handle[n].pinning
               /\ handle'[n].already = handle[n].already /\ handle'[n].lost = handle[n].lost
    <3>1. handle'[n] = [handle[n] EXCEPT !.unlinked = TRUE] /\ handle[n] \in FileHandle
      BY <1>1, <2>1, <2>3, <2>4, HandleFields
    <3>2. handle'[n] \in FileHandle
      BY <3>1 DEF FileHandle
    <3> QED BY <3>1, <3>2, NoHandleAssumption DEF FileHandle
  <2>5. \A n \in Handles : n \notin gone => handle'[n] = handle[n]
    BY <2>1
  <2>6. handlePins' = handlePins /\ opPins' = opPins /\ stored' = stored /\ ahead' = ahead
        /\ compaction' = compaction /\ job' = job /\ UNCHANGED catalogVars
    BY <2>1 DEF pinVars, storeVars
  <2>7. call' \in Calls /\ call'.step = "cancel"
    BY <1>1, <2>1, <2>2, CallFields DEF Calls
  <2>8. ServiceTypeOK'
    <3>1. \A n \in Handles : handle'[n] \in FileHandle \cup {NoHandle}
      BY <1>1, <2>4, <2>5 DEF ServiceTypeOK
    <3>2. handle' \in [Handles -> FileHandle \cup {NoHandle}]
      BY <2>1, <3>1
    <3> QED BY <1>1, <2>6, <2>7, <3>2 DEF ServiceTypeOK
  <2>9. SameHandles
    BY <2>3, <2>4, <2>5, <2>6 DEF SameHandles, Opened
  <2>10. PlanFrame /\ CloseFrame
    BY <2>1, <2>7 DEF PlanFrame, CloseFrame, CloseSteps
  <2> QED BY <2>6, <2>8, <2>9, <2>10, SameStep
<1>4. ASSUME NEW n \in Handles, RetargetHandle(n) PROVE Sound
  <2>1. /\ call.step = "cancel" /\ n \in Opened /\ call' = call
        /\ handle' = [handle EXCEPT ![n].path = call.gone]
        /\ handlePins' = handlePins /\ opPins' = opPins /\ stored' = stored /\ ahead' = ahead
        /\ compaction' = compaction /\ job' = job
    BY <1>4 DEF RetargetHandle, Following, pinVars, storeVars
  <2>2. call.gone \in Paths /\ handle[n] \in FileHandle /\ handle[n].key \in Keys \cup {NoKey}
    BY <1>1, <2>1, CallFields, HandleFields
  <2>3. [Steady]_catalogVars
    BY <1>4, <2>2 DEF RetargetHandle, Steady
  <2>4. handle'[n] = [handle[n] EXCEPT !.path = call.gone] /\ \A m \in Handles \ {n} : handle'[m] = handle[m]
    BY <1>1, <2>1 DEF ServiceTypeOK
  <2>5. handle'[n] \in FileHandle
    BY <2>2, <2>4 DEF FileHandle
  <2>6. SameHandles
    BY <2>1, <2>2, <2>4, <2>5, NoHandleAssumption DEF SameHandles, FileHandle, Opened
  <2>7. ServiceTypeOK'
    BY <1>1, <2>1, <2>4, <2>5 DEF ServiceTypeOK
  <2>8. PlanFrame /\ CloseFrame
    BY <2>1 DEF PlanFrame, CloseFrame, CloseSteps
  <2> QED BY <2>1, <2>3, <2>6, <2>7, <2>8, SameStep
<1> QED BY <1>2, <1>3, <1>4

-----------------------------------------------------------------------------
(* Steps on one handle that is not storing a chunk.                        *)

\* The other handles keep what they have, and a call that plans is about this one.
OnlyHandle(n) ==
    /\ \A m \in Handles \ {n} : handle'[m] = handle[m] /\ handlePins'[m] = handlePins[m]
    /\ ~Busy(handle, n) /\ ~Busy(handle', n)
    /\ \/ call' = call
       \/ (call.step = "plan" => call.handle = n) /\ (call'.step = "plan" => call'.handle = n)

\* Such steps fit the frames.
LEMMA OneHandleFrame ==
    ASSUME ServiceInv, NEW n \in Handles, OnlyHandle(n), handle'[n] # NoHandle => Carried(n) \/ Fresh(n)
    PROVE  /\ \A m \in Handles : PinFrame(m)
           /\ \A m \in Handles : handle'[m] # NoHandle => Carried(m) \/ Fresh(m)
<1>1. ASSUME NEW m \in Handles \ {n} PROVE CacheIn(handle', m) = CacheIn(handle, m)
  BY <1>1 DEF OnlyHandle, CacheIn
<1>2. ASSUME NEW m \in Handles \ {n} PROVE PinFrame(m)
  <2>1. handle'[m] = handle[m]
    BY <1>2 DEF OnlyHandle
  <2>2. Busy(handle', m) <=> Busy(handle, m)
    BY <2>1 DEF Busy
  <2>3. PendingIn(handle', call', m) = PendingIn(handle, call, m)
    BY <1>1, <1>2 DEF OnlyHandle, PendingIn
  <2>4. StoringIn(handle', call', m) = StoringIn(handle, call, m)
    BY <2>1, <2>3 DEF StoringIn
  <2> QED BY <2>1, <2>2, <2>4 DEF PinFrame
<1>3. PinFrame(n)
  BY DEF PinFrame, OnlyHandle
<1>4. ASSUME NEW m \in Handles \ {n}, handle'[m] # NoHandle PROVE Carried(m)
  <2>1. handle'[m] = handle[m] /\ handlePins'[m] = handlePins[m]
    BY <1>4 DEF OnlyHandle
  <2>2. handle[m].key = NoKey => handle[m].cache = NoCache
    BY <1>4, <2>1 DEF ServiceInv, HandlesBound, Opened
  <2> QED BY <1>1, <1>4, <2>1, <2>2 DEF Carried
<1> QED BY <1>2, <1>3, <1>4

\* A step on one handle, not the one a call is closing, that moves and deletes no row.
LEMMA OneHandleStep ==
    ASSUME ServiceInv, NEW n \in Handles, OnlyHandle(n), handle'[n] # NoHandle => Carried(n) \/ Fresh(n),
           [Steady]_catalogVars, ServiceTypeOK', stored' = stored, compaction' = compaction, call' = call,
           call.step \in CloseSteps => call.handle # n,
           \A k \in Keys : opState'[k] = "prepared" => opPins[k] \subseteq opPins'[k]
    PROVE  Sound
<1>1. /\ \A m \in Handles : PinFrame(m)
      /\ \A m \in Handles : handle'[m] # NoHandle => Carried(m) \/ Fresh(m)
  BY OneHandleFrame
<1>2. CloseFrame
  <2>1. call.step \in CloseSteps => call.handle \in Handles \ {n} /\ handle[call.handle] # NoHandle
    BY DEF ServiceInv, CloseHoldsHandle, Opened
  <2> QED BY <2>1 DEF CloseFrame, OnlyHandle
<1>3. CloseHoldsHandle'
  BY <1>1, <1>2, SteadyIsNext, QuietFrame, CloseKept DEF ServiceInv
<1>4. [Next]_catalogVars
  BY SteadyIsNext
<1> QED BY <1>1, <1>3, <1>4, SteadyStep DEF Sound

\* Opening a version pins its chunks before the handle is registered (Open).
LEMMA RegisterSound ==
    ASSUME ServiceInv, [Steady]_catalogVars,
           NEW n \in Handles, NEW path \in Paths, NEW key \in Keys \cup {NoKey}, NEW f \in FileIds \cup {NoFile}, NEW snap \in BOOLEAN,
           handle[n] = NoHandle, Readable(f), Register(n, path, key, f, snap),
           key # NoKey => opState'[key] # "none"
    PROVE  Sound
<1> DEFINE chunks == FileVersionChunks(f)
           cache  == IF key = NoKey THEN NoCache ELSE chunks
           new    == [path |-> path, snapshot |-> snap, key |-> key, chunks |-> chunks, cache |-> cache,
                      unlinked |-> FALSE, writeTouched |-> FALSE, pinning |-> 0, already |-> FALSE, lost |-> {}]
<1>1. ServiceTypeOK /\ TypeOK
  BY DEF ServiceInv, CatalogInv
<1>2. /\ handle' = [handle EXCEPT ![n] = new]
      /\ handlePins' = [handlePins EXCEPT ![n] = HashesOf(chunks)]
      /\ UNCHANGED <<opPins, storeVars, call, compaction, job>>
  BY Zenon DEF Register
<1>3. chunks \in Plans /\ HashesOf(chunks) \subseteq rows
  BY <1>1, VersionType
<1> HIDE DEF chunks
<1>4. HashesOf(chunks) \subseteq Hashes
  BY <1>3, HashesOfType
<1>5. new \in FileHandle
  BY <1>3 DEF FileHandle, Plans
<1>6. /\ new.key = key /\ new.chunks = chunks /\ new.cache = cache /\ new.pinning = 0
  OBVIOUS
<1> HIDE DEF new
<1>7. handle'[n] = new /\ handlePins'[n] = HashesOf(chunks) /\ \A m \in Handles \ {n} : handle'[m] = handle[m] /\ handlePins'[m] = handlePins[m]
  BY <1>1, <1>2 DEF ServiceTypeOK
<1>8. opPins' = opPins /\ stored' = stored /\ ahead' = ahead /\ call' = call /\ compaction' = compaction /\ job' = job
  BY <1>2 DEF storeVars
<1>9. ServiceTypeOK'
  BY <1>1, <1>2, <1>4, <1>5, <1>8 DEF ServiceTypeOK
<1>10. OnlyHandle(n)
  BY <1>6, <1>7, <1>8 DEF OnlyHandle, Busy
<1>11. Fresh(n)
  <2>1. rows' = rows
    BY SteadyFrame DEF ServiceInv
  <2>2. CacheIn(handle', n) = chunks
    BY <1>6, <1>7 DEF CacheIn
  <2> QED BY <1>3, <1>6, <1>7, <2>1, <2>2 DEF Fresh
<1>12. call.step \in CloseSteps => call.handle # n
  BY DEF ServiceInv, CloseHoldsHandle, Opened
<1> QED BY <1>8, <1>9, <1>10, <1>11, <1>12, OneHandleStep

\* Open, with and without an operation, and of a snapshot.
LEMMA OpenSound ==
    ASSUME ServiceInv, NEW n \in Handles, NEW p \in Paths,
           \/ Open(n, p)
           \/ \E k \in Keys : OpenForWrite(n, p, k)
           \/ \E id \in Snapshots : OpenSnapshot(n, id, p)
    PROVE  Sound
<1>1. TypeOK
  BY DEF ServiceInv, CatalogInv
<1>2. CASE Open(n, p)
  <2>1. [Steady]_catalogVars /\ head[p] \in FileIds \cup {NoFile}
    BY <1>1, <1>2 DEF Open, TypeOK
  <2> QED BY <1>2, <2>1, RegisterSound DEF Open
<1>3. ASSUME NEW k \in Keys, OpenForWrite(n, p, k) PROVE Sound
  <2>1. head[p] \in FileIds \cup {NoFile} /\ opFile[k] \in FileIds \cup {NoFile} /\ k # NoKey /\ handle[n] = NoHandle
    BY <1>1, <1>3, NoKeyAssumption DEF TypeOK, OpenForWrite
  <2>2. CASE CreateWriteOp(k, p) /\ Readable(head[p]) /\ Register(n, p, k, head[p], FALSE)
    <3>1. [Steady]_catalogVars /\ opState'[k] # "none"
      BY <1>1, <2>2 DEF Steady, CreateWriteOp, TypeOK
    <3> QED BY <2>1, <2>2, <3>1, RegisterSound
  <2>3. CASE opState[k] = "prepared" /\ Readable(head[p]) /\ Register(n, p, k, head[p], FALSE) /\ UNCHANGED catalogVars
    <3>1. [Steady]_catalogVars /\ opState'[k] # "none"
      BY <2>3 DEF catalogVars, opVars
    <3> QED BY <2>1, <2>3, <3>1, RegisterSound
  <2>4. CASE opState[k] = "committed" /\ Readable(opFile[k]) /\ Register(n, p, k, opFile[k], FALSE) /\ UNCHANGED catalogVars
    <3>1. [Steady]_catalogVars /\ opState'[k] # "none"
      BY <2>4 DEF catalogVars, opVars
    <3> QED BY <2>1, <2>4, <3>1, RegisterSound
  <2> QED BY <1>3, <2>2, <2>3, <2>4 DEF OpenForWrite
<1>4. ASSUME NEW id \in Snapshots, OpenSnapshot(n, id, p) PROVE Sound
  <2>1. [Steady]_catalogVars /\ snapFile[<<id, p>>] \in FileIds \cup {NoFile}
    BY <1>1, <1>4 DEF OpenSnapshot, TypeOK
  <2> QED BY <1>4, <2>1, RegisterSound DEF OpenSnapshot
<1> QED BY <1>2, <1>3, <1>4

\* A call on a handle that another call is not closing (Usable).
LEMMA UsableHandle ==
    ASSUME ServiceInv, NEW n \in Handles, Usable(n)
    PROVE  /\ n \in Opened /\ handle[n].pinning = 0 /\ ~Busy(handle, n)
           /\ call.step \in CloseSteps => call.handle # n
BY DEF Usable, Idle, Busy

\* A mutation of a handle's cache places nothing (writeLocked, truncateHandle).
LEMMA CacheSound ==
    ASSUME ServiceInv, NEW n \in Opened, Usable(n), handle[n].key # NoKey,
           NEW cache \in Plans, NEW touched \in BOOLEAN,
           \A i \in Extents : cache[i] = CacheOf(n)[i] \/ cache[i][2] \notin Vlogs,
           handle' = [handle EXCEPT ![n].cache = cache, ![n].writeTouched = touched],
           UNCHANGED <<catalogVars, pinVars, storeVars, call, compaction, job>>
    PROVE  Sound
<1>1. ServiceTypeOK
  BY DEF ServiceInv
<1>2. n \in Handles /\ handle[n] \in FileHandle /\ handle[n] # NoHandle
  BY <1>1, HandleFields DEF Opened
<1>3. opPins' = opPins /\ handlePins' = handlePins /\ stored' = stored /\ ahead' = ahead /\ call' = call
      /\ compaction' = compaction /\ job' = job
  BY DEF pinVars, storeVars
<1> DEFINE new == [handle[n] EXCEPT !.cache = cache, !.writeTouched = touched]
<1>4. handle' = [handle EXCEPT ![n] = new]
  BY <1>1, <1>2 DEF ServiceTypeOK
<1>5. new \in FileHandle /\ new.key = handle[n].key /\ new.chunks = handle[n].chunks /\ new.cache = cache /\ new.pinning = handle[n].pinning
      /\ new.lost = handle[n].lost
  BY <1>2 DEF FileHandle, Plans
<1> HIDE DEF new
<1>6. handle'[n] = new /\ \A m \in Handles \ {n} : handle'[m] = handle[m]
  BY <1>1, <1>2, <1>4 DEF ServiceTypeOK
<1>7. ServiceTypeOK'
  <2>1. handle \in [Handles -> FileHandle \cup {NoHandle}]
    BY <1>1 DEF ServiceTypeOK
  <2>2. handle' \in [Handles -> FileHandle \cup {NoHandle}]
    BY <1>4, <1>5, <2>1
  <2> QED BY <1>1, <1>3, <2>2 DEF ServiceTypeOK
<1>8. OnlyHandle(n)
  BY <1>2, <1>3, <1>5, <1>6, UsableHandle DEF OnlyHandle, Busy
<1>9. Carried(n)
  <2>1. cache # NoCache
    BY PlanIsCache
  <2>2. CacheIn(handle', n) = cache
    BY <1>5, <1>6, <2>1 DEF CacheIn
  <2>3. CacheIn(handle, n) = CacheOf(n)
    BY TablesSpelledOut
  <2> QED BY <1>2, <1>3, <1>5, <1>6, <2>2, <2>3 DEF Carried
<1>10. [Steady]_catalogVars
  OBVIOUS
<1>11. call.step \in CloseSteps => call.handle # n
  BY <1>2, UsableHandle
<1> QED BY <1>2, <1>3, <1>7, <1>8, <1>9, <1>10, <1>11, OneHandleStep

\* Write and Truncate.
LEMMA WriteSound ==
    ASSUME ServiceInv, NEW n \in Handles, NEW i \in Extents,
           Truncate(n, i) \/ \E h \in Hashes : Write(n, i, h)
    PROVE  Sound
<1>1. n \in Opened /\ handle[n].key # NoKey /\ Usable(n) /\ handle[n].writeTouched \in BOOLEAN /\ CacheOf(n) \in Plans
  BY HandleFields, CacheType DEF Write, Truncate, ServiceInv
<1>2. ASSUME NEW h \in Hashes, Write(n, i, h) PROVE Sound
  <2> DEFINE cache == [CacheOf(n) EXCEPT ![i] = <<h, NoVlog>>]
  <2>1. PICK succeeds \in BOOLEAN :
          handle' = [handle EXCEPT ![n].cache = cache, ![n].writeTouched = handle[n].writeTouched \/ succeeds]
    BY <1>2 DEF Write
  <2>2. cache \in Plans /\ \A j \in Extents : cache[j] = CacheOf(n)[j] \/ cache[j][2] \notin Vlogs
    BY <1>1, SlotTypes, NoVlogAssumption DEF Plans
  <2>3. (handle[n].writeTouched \/ succeeds) \in BOOLEAN
    OBVIOUS
  <2> HIDE DEF cache
  <2> QED BY <1>1, <1>2, <2>1, <2>2, <2>3, CacheSound DEF Write
<1>3. CASE Truncate(n, i)
  <2> DEFINE cache == [j \in Extents |-> IF j < i THEN CacheOf(n)[j] ELSE Empty]
  <2>1. handle' = [handle EXCEPT ![n].cache = cache, ![n].writeTouched = TRUE]
    BY <1>3, Zenon DEF Truncate
  <2>2. cache \in Plans /\ \A j \in Extents : cache[j] = CacheOf(n)[j] \/ cache[j][2] \notin Vlogs
    BY <1>1, SlotTypes, NoVlogAssumption DEF Plans, Empty
  <2> HIDE DEF cache
  <2> QED BY <1>1, <1>3, <2>1, <2>2, CacheSound DEF Truncate
<1> QED BY <1>2, <1>3

\* The first write of a handle without an operation creates one.
LEMMA EnsureSound ==
    ASSUME ServiceInv, NEW n \in Handles, ensureWriteOperation(n)
    PROVE  Sound
<1>1. ServiceTypeOK /\ TypeOK
  BY DEF ServiceInv, CatalogInv
<1>2. /\ n \in Opened /\ handle[n] # NoHandle /\ handle[n].pinning = 0 /\ handle[n].key = NoKey
      /\ UNCHANGED <<pinVars, storeVars, call, compaction, job>>
  BY DEF ensureWriteOperation, Opened, Idle
<1>3. PICK key \in Keys \ ClientKeys : CreateWriteOp(key, handle[n].path) /\ handle' = [handle EXCEPT ![n].key = key]
  BY DEF ensureWriteOperation
<1>4. handle[n] \in FileHandle /\ handle[n].path \in Paths
  BY <1>1, <1>2, HandleFields
<1>5. opPins' = opPins /\ handlePins' = handlePins /\ stored' = stored /\ ahead' = ahead /\ call' = call
      /\ compaction' = compaction /\ job' = job
  BY <1>2 DEF pinVars, storeVars
<1>6. handle'[n] = [handle[n] EXCEPT !.key = key] /\ \A m \in Handles \ {n} : handle'[m] = handle[m]
  BY <1>1, <1>3 DEF ServiceTypeOK
<1>7. /\ handle'[n] \in FileHandle /\ handle'[n].key = key /\ handle'[n].chunks = handle[n].chunks
      /\ handle'[n].cache = handle[n].cache /\ handle'[n].pinning = 0 /\ handle'[n].lost = handle[n].lost
  BY <1>2, <1>4, <1>6 DEF FileHandle
<1>8. ServiceTypeOK'
  <2>1. handle' \in [Handles -> FileHandle \cup {NoHandle}]
    BY <1>1, <1>3, <1>6, <1>7 DEF ServiceTypeOK
  <2> QED BY <1>1, <1>5, <2>1 DEF ServiceTypeOK
<1>9. OnlyHandle(n)
  BY <1>2, <1>5, <1>6, <1>7 DEF OnlyHandle, Busy
<1>10. [Steady]_catalogVars /\ rows' = rows /\ opState'[key] # "none"
  BY <1>1, <1>3, <1>4 DEF Steady, CreateWriteOp, chunkVars, TypeOK
<1>11. Fresh(n)
  <2>1. /\ handle[n].cache = NoCache /\ HashesOf(handle[n].chunks) \subseteq handlePins[n]
        /\ HashesOf(handle[n].chunks) \ handle[n].lost \subseteq rows
    BY <1>2 DEF ServiceInv, HandlesBound, PinnedContentSurvives
  <2>2. CacheIn(handle', n) = handle'[n].chunks
    BY <1>7, <2>1 DEF CacheIn
  <2>3. key # NoKey
    BY NoKeyAssumption
  <2> QED BY <1>5, <1>7, <1>10, <2>1, <2>2, <2>3 DEF Fresh
<1>12. call.step \in CloseSteps => call.handle # n
  BY <1>2 DEF ServiceInv, CloseHoldsHandle
<1> QED BY <1>5, <1>8, <1>9, <1>10, <1>11, <1>12, OneHandleStep

\* A handle that is given a version has its chunks pinned (refreshCommittedHandle,
\* and finishHandle after a Flush).
LEMMA RebaseEffect ==
    ASSUME ServiceInv, NEW n \in Opened, handle[n].pinning = 0, NEW key \in Keys \cup {NoKey}, NEW chunks \in Plans,
           NEW lost \in SUBSET Hashes, HashesOf(chunks) \ lost \subseteq rows', key # NoKey => opState'[key] # "none",
           Rebase(n, key, chunks, lost)
    PROVE  /\ handle' \in [Handles -> FileHandle \cup {NoHandle}] /\ handlePins' \in [Handles -> SUBSET Hashes]
           /\ \A m \in Handles \ {n} : handle'[m] = handle[m] /\ handlePins'[m] = handlePins[m]
           /\ ~Busy(handle, n) /\ ~Busy(handle', n)
           /\ Fresh(n)
<1>1. ServiceTypeOK
  BY DEF ServiceInv
<1>2. n \in Handles /\ handle[n] \in FileHandle /\ handle[n] # NoHandle
  BY <1>1, HandleFields DEF Opened
<1> DEFINE new == [handle[n] EXCEPT !.chunks = chunks, !.cache = NoCache, !.key = key, !.writeTouched = FALSE, !.lost = lost]
<1>3. handle' = [handle EXCEPT ![n] = new] /\ handlePins' = [handlePins EXCEPT ![n] = HashesOf(chunks)]
  BY <1>1, <1>2 DEF Rebase, ServiceTypeOK
<1>4. new \in FileHandle /\ new.key = key /\ new.chunks = chunks /\ new.cache = NoCache /\ new.pinning = 0 /\ new.lost = lost
  BY <1>2 DEF FileHandle, Plans
<1> HIDE DEF new
<1>5. handle'[n] = new /\ handlePins'[n] = HashesOf(chunks)
      /\ \A m \in Handles \ {n} : handle'[m] = handle[m] /\ handlePins'[m] = handlePins[m]
  BY <1>1, <1>2, <1>3 DEF ServiceTypeOK
<1>6. HashesOf(chunks) \subseteq Hashes
  BY HashesOfType
<1>7. handle' \in [Handles -> FileHandle \cup {NoHandle}] /\ handlePins' \in [Handles -> SUBSET Hashes]
  BY <1>1, <1>3, <1>4, <1>6 DEF ServiceTypeOK
<1>8. CacheIn(handle', n) = chunks
  BY <1>4, <1>5 DEF CacheIn
<1>9. Fresh(n)
  BY <1>4, <1>5, <1>8 DEF Fresh
<1> QED BY <1>4, <1>5, <1>7, <1>9 DEF Busy

\* A handle of a committed operation is given its version on a read.
LEMMA RefreshSound ==
    ASSUME ServiceInv, NEW n \in Handles, Refresh(n)
    PROVE  Sound
<1> DEFINE key == handle[n].key  chunks == FileVersionChunks(opFile[handle[n].key])
<1>1. ServiceTypeOK /\ TypeOK
  BY DEF ServiceInv, CatalogInv
<1>2. /\ n \in Opened /\ Usable(n) /\ key # NoKey /\ opState[key] = "committed" /\ Readable(opFile[key])
      /\ Rebase(n, key, chunks, {})
      /\ UNCHANGED <<catalogVars, opPins, storeVars, call, compaction, job>>
  BY DEF Refresh
<1>3. key \in Keys \cup {NoKey}
  BY <1>1, <1>2, HandleFields
<1>4. chunks \in Plans /\ HashesOf(chunks) \subseteq rows
  <2>1. opFile[key] \in FileIds \cup {NoFile}
    BY <1>1, <1>2, <1>3 DEF TypeOK
  <2> QED BY <1>1, <1>2, <2>1, VersionType
<1>5. /\ opPins' = opPins /\ stored' = stored /\ ahead' = ahead /\ call' = call /\ compaction' = compaction /\ job' = job
      /\ rows' = rows /\ opState' = opState /\ [Steady]_catalogVars
  BY <1>2 DEF storeVars, catalogVars, chunkVars, opVars
<1>6. handle[n].pinning = 0 /\ (call.step \in CloseSteps => call.handle # n)
  BY <1>2, UsableHandle
<1> HIDE DEF key, chunks
<1>7. /\ handle' \in [Handles -> FileHandle \cup {NoHandle}] /\ handlePins' \in [Handles -> SUBSET Hashes]
      /\ \A m \in Handles \ {n} : handle'[m] = handle[m] /\ handlePins'[m] = handlePins[m]
      /\ ~Busy(handle, n) /\ ~Busy(handle', n)
      /\ Fresh(n)
  BY <1>2, <1>3, <1>4, <1>5, <1>6, RebaseEffect
<1>8. ServiceTypeOK'
  BY <1>1, <1>5, <1>7 DEF ServiceTypeOK
<1>9. OnlyHandle(n)
  BY <1>5, <1>7 DEF OnlyHandle
<1> QED BY <1>5, <1>6, <1>7, <1>8, <1>9, OneHandleStep

-----------------------------------------------------------------------------
(* Close, AbortHandle and the reaper, up to publication.                   *)

\* Removing a handle leaves the others (removeHandle).
LEMMA RemoveEffect ==
    ASSUME ServiceInv, NEW n \in Opened, handle[n].pinning = 0, RemoveHandle(n)
    PROVE  /\ handle' \in [Handles -> FileHandle \cup {NoHandle}] /\ handlePins' \in [Handles -> SUBSET Hashes]
           /\ \A m \in Handles \ {n} : handle'[m] = handle[m] /\ handlePins'[m] = handlePins[m]
           /\ ~Busy(handle, n) /\ ~Busy(handle', n)
           /\ handle'[n] = NoHandle
BY DEF RemoveHandle, ServiceInv, ServiceTypeOK, Opened, Busy

\* A handle goes away while no other call holds namespaceMu.
LEMMA RemoveSound ==
    ASSUME ServiceInv, NEW n \in Opened, handle[n].pinning = 0, RemoveHandle(n), call = Free,
           [Steady]_catalogVars, UNCHANGED <<storeVars, call, compaction, job>>,
           opPins' \in [Keys -> SUBSET Hashes],
           \A k \in Keys : opState'[k] = "prepared" => opPins[k] \subseteq opPins'[k]
    PROVE  Sound
<1>1. /\ handle' \in [Handles -> FileHandle \cup {NoHandle}] /\ handlePins' \in [Handles -> SUBSET Hashes]
      /\ \A m \in Handles \ {n} : handle'[m] = handle[m] /\ handlePins'[m] = handlePins[m]
      /\ ~Busy(handle, n) /\ ~Busy(handle', n) /\ handle'[n] = NoHandle
  BY RemoveEffect
<1>2. stored' = stored /\ ahead' = ahead /\ call' = call /\ compaction' = compaction /\ job' = job /\ call.step = "free"
  BY DEF storeVars, Free
<1>3. ServiceTypeOK'
  BY <1>1, <1>2 DEF ServiceInv, ServiceTypeOK
<1>4. OnlyHandle(n) /\ n \in Handles
  BY <1>1, <1>2 DEF OnlyHandle, Opened
<1> QED BY <1>1, <1>2, <1>3, <1>4, OneHandleStep DEF CloseSteps

\* Close of a reader and of an unlinked handle; AbortHandle; the reaper.
LEMMA FinishSound ==
    ASSUME ServiceInv, NEW n \in Handles,
           \/ CloseReader(n) \/ CloseUnlinked(n)
           \/ \E done \in BOOLEAN : AbortHandle(n, done) \/ ReapHandle(n, done)
    PROVE  Sound
<1> DEFINE key == handle[n].key
<1>1. ServiceTypeOK /\ TypeOK /\ opPins \in [Keys -> SUBSET Hashes]
  BY DEF ServiceInv, CatalogInv, ServiceTypeOK
<1>2. n \in Opened /\ handle[n].pinning = 0 /\ call = Free
  BY DEF CloseReader, CloseUnlinked, AbortHandle, ReapHandle, MayFinish, Idle
<1>3. key \in Keys \cup {NoKey}
  BY <1>1, <1>2, HandleFields
<1>4. ASSUME RemoveHandle(n), UNCHANGED <<storeVars, call, compaction, job>>, UNCHANGED <<catalogVars, opPins>> PROVE Sound
  BY <1>1, <1>2, <1>4, RemoveSound
<1>5. ASSUME RemoveHandle(n), UNCHANGED <<storeVars, call, compaction, job>>, key # NoKey,
             NEW state \in {"abandoned", "cancelled"}, finishPreparedWriteOp(key, state), opPins' = [opPins EXCEPT ![key] = {}]
      PROVE  Sound
  <2>1. key \in Keys
    BY <1>3, <1>5
  <2> HIDE DEF key
  <2>2. /\ [Steady]_catalogVars /\ opPins' \in [Keys -> SUBSET Hashes]
        /\ \A k \in Keys : opState'[k] = "prepared" => opPins[k] \subseteq opPins'[k]
    BY <1>5, <2>1, EndedOperation
  <2> QED BY <1>2, <1>5, <2>2, RemoveSound
<1>6. CASE CloseReader(n)
  BY <1>4, <1>6 DEF CloseReader
<1>7. CASE CloseUnlinked(n)
  BY <1>5, <1>7 DEF CloseUnlinked
<1>8. ASSUME NEW done \in BOOLEAN, AbortHandle(n, done) PROVE Sound
  <2>1. CASE key # NoKey /\ done
    BY <1>5, <1>8, <2>1 DEF AbortHandle
  <2>2. CASE ~(key # NoKey /\ done)
    BY <1>4, <1>8, <2>2 DEF AbortHandle
  <2> QED BY <2>1, <2>2
<1>9. ASSUME NEW done \in BOOLEAN, ReapHandle(n, done) PROVE Sound
  <2> DEFINE last == /\ key # NoKey /\ done
                     /\ opState[key] = "prepared"
                     /\ \A m \in Opened \ {n} : handle[m].key # key
  <2>1. CASE last
    BY <1>5, <1>9, <2>1 DEF ReapHandle
  <2>2. CASE ~last
    BY <1>4, <1>9, <2>2 DEF ReapHandle
  <2> QED BY <2>1, <2>2
<1> QED BY <1>6, <1>7, <1>8, <1>9

\* A retry of a committed operation looks up what was published (finishHandle).
LEMMA CommittedSound ==
    ASSUME ServiceInv, NEW n \in Handles, NEW remove \in BOOLEAN, CloseCommitted(n, remove)
    PROVE  Sound
<1> DEFINE key == handle[n].key  plan == FileVersionChunks(opFile[key])
<1>1. ServiceTypeOK /\ TypeOK
  BY DEF ServiceInv, CatalogInv
<1>2. /\ n \in Opened /\ handle[n] # NoHandle /\ handle[n].pinning = 0 /\ call = Free /\ call.step = "free"
      /\ key # NoKey /\ ~handle[n].unlinked /\ opState[key] = "committed" /\ Readable(opFile[key])
      /\ \A m \in Opened : handle[m].key = key => handle[m].pinning = 0
      /\ call' = [step |-> "committed", handle |-> n, remove |-> remove, plan |-> plan]
      /\ UNCHANGED <<catalogVars, handle, pinVars, storeVars, compaction, job>>
  BY DEF CloseCommitted, MayFinish, Idle, OperationFree, Free, Opened
<1>3. plan \in Plans
  <2>1. key \in Keys /\ opFile[key] \in FileIds \cup {NoFile}
    BY <1>1, <1>2, HandleFields DEF TypeOK
  <2> QED BY <1>1, <1>2, <2>1, VersionType
<1> HIDE DEF plan
<1>4. handle' = handle /\ opPins' = opPins /\ handlePins' = handlePins /\ stored' = stored /\ ahead' = ahead
      /\ compaction' = compaction /\ job' = job /\ opState' = opState /\ [Steady]_catalogVars
  BY <1>2 DEF pinVars, storeVars, catalogVars, opVars
<1>5. call'.step = "committed" /\ call'.handle = n /\ call' \in Calls
  BY <1>2, <1>3 DEF Calls, CloseSteps
<1>6. ServiceTypeOK'
  BY <1>1, <1>4, <1>5 DEF ServiceTypeOK
<1>7. SameHandles /\ PlanFrame
  BY <1>2, <1>4, <1>5 DEF SameHandles, PlanFrame
<1>8. CloseHoldsHandle'
  BY <1>2, <1>4, <1>5 DEF CloseHoldsHandle, Opened, Prepared
<1>9. [Next]_catalogVars
  BY <1>4, SteadyIsNext
<1> QED BY <1>4, <1>6, <1>7, <1>8, <1>9, SameHandlesFrame, SteadyStep DEF Sound

\* It then gives back the pins of the operation, which has ended (releasePins).
LEMMA ReleaseSound ==
    ASSUME ServiceInv, ReleaseCommitted
    PROVE  Sound
<1> DEFINE n == call.handle  key == handle[n].key
<1>1. ServiceTypeOK
  BY DEF ServiceInv
<1>2. /\ call.step = "committed" /\ call' = [call EXCEPT !.step = "released"]
      /\ opPins' = [opPins EXCEPT ![key] = {}]
      /\ UNCHANGED <<catalogVars, handle, handlePins, storeVars, compaction, job>>
  BY DEF ReleaseCommitted
<1>3. n \in Opened /\ handle[n] # NoHandle /\ key # NoKey /\ handle[n].pinning = 0 /\ opState[key] # "prepared"
  BY <1>2 DEF ServiceInv, CloseHoldsHandle, CloseSteps, Prepared, Opened
<1>4. key \in Keys
  BY <1>1, <1>3, HandleFields
<1>5. call' \in Calls /\ call'.step = "released" /\ call'.handle = n
  BY <1>1, <1>2, CallFields DEF Calls, CloseSteps
<1>6. handle' = handle /\ handlePins' = handlePins /\ stored' = stored /\ ahead' = ahead
      /\ compaction' = compaction /\ job' = job /\ opState' = opState /\ [Steady]_catalogVars
  BY <1>2 DEF storeVars, catalogVars, opVars
<1> HIDE DEF key
<1>7. /\ opPins' \in [Keys -> SUBSET Hashes]
      /\ \A k \in Keys : opState'[k] = "prepared" => opPins[k] \subseteq opPins'[k]
  BY <1>1, <1>2, <1>3, <1>4, <1>6 DEF ServiceTypeOK
<1>8. ServiceTypeOK'
  BY <1>1, <1>5, <1>6, <1>7 DEF ServiceTypeOK
<1>9. SameHandles /\ PlanFrame /\ CloseFrame
  BY <1>2, <1>3, <1>5, <1>6 DEF SameHandles, PlanFrame, CloseFrame, CloseSteps
<1> QED BY <1>6, <1>7, <1>8, <1>9, SameStep

\* And it closes the handle, or gives it what the lookup found: chunks that were
\* collected since are lost to it (replacePins).
LEMMA FinishCommittedSound ==
    ASSUME ServiceInv, FinishCommitted
    PROVE  Sound
<1> DEFINE n == call.handle  lost == HashesOf(call.plan) \ rows
<1>1. ServiceTypeOK
  BY DEF ServiceInv
<1>2. /\ call.step = "released" /\ call' = Free
      /\ IF call.remove THEN RemoveHandle(n) ELSE Rebase(n, NoKey, call.plan, lost)
      /\ UNCHANGED <<catalogVars, opPins, storeVars, compaction, job>>
  BY DEF FinishCommitted
<1>3. n \in Opened /\ n \in Handles /\ handle[n].pinning = 0 /\ call.plan \in Plans
  BY <1>1, <1>2, CallFields DEF ServiceInv, CloseHoldsHandle, CloseSteps, Opened
<1>4. lost \in SUBSET Hashes
  BY <1>3, HashesOfType
<1>5. opPins' = opPins /\ stored' = stored /\ ahead' = ahead /\ compaction' = compaction /\ job' = job
      /\ rows' = rows /\ [Steady]_catalogVars
  BY <1>2 DEF storeVars, catalogVars, chunkVars
<1>6. HashesOf(call.plan) \ lost \subseteq rows'
  BY <1>5
<1> HIDE DEF n, lost
<1>7. /\ handle' \in [Handles -> FileHandle \cup {NoHandle}] /\ handlePins' \in [Handles -> SUBSET Hashes]
      /\ \A m \in Handles \ {n} : handle'[m] = handle[m] /\ handlePins'[m] = handlePins[m]
      /\ ~Busy(handle, n) /\ ~Busy(handle', n)
      /\ handle'[n] # NoHandle => Fresh(n)
  <2>1. CASE call.remove
    <3>1. RemoveHandle(n)
      BY <1>2, <2>1
    <3> QED BY <1>3, <3>1, RemoveEffect
  <2>2. CASE ~call.remove
    <3>1. Rebase(n, NoKey, call.plan, lost)
      BY <1>2, <2>2
    <3> QED BY <1>3, <1>4, <1>6, <3>1, RebaseEffect
  <2> QED BY <2>1, <2>2
<1>8. call' \in Calls /\ call'.step = "free"
  BY <1>2 DEF Calls, Free
<1>9. ServiceTypeOK'
  BY <1>1, <1>5, <1>7, <1>8 DEF ServiceTypeOK
<1>10. OnlyHandle(n)
  BY <1>2, <1>7, <1>8 DEF OnlyHandle
<1>11. /\ \A m \in Handles : PinFrame(m)
       /\ \A m \in Handles : handle'[m] # NoHandle => Carried(m) \/ Fresh(m)
  BY <1>3, <1>7, <1>10, OneHandleFrame
<1>12. CloseHoldsHandle'
  BY <1>8 DEF CloseHoldsHandle, CloseSteps
<1>13. [Next]_catalogVars
  BY <1>5, SteadyIsNext
<1> QED BY <1>5, <1>9, <1>11, <1>12, <1>13, SteadyStep DEF Sound

\* Close takes its plan while no handle of the operation stores a chunk.
LEMMA BeginSound ==
    ASSUME ServiceInv, NEW n \in Handles, NEW remove \in BOOLEAN, BeginPublish(n, remove)
    PROVE  Sound
<1> DEFINE cache == CacheOf(n)
<1>1. ServiceTypeOK
  BY DEF ServiceInv
<1>2. /\ n \in Opened /\ handle[n].pinning = 0 /\ call = Free /\ call.step = "free"
      /\ handle[n].key # NoKey /\ ~handle[n].unlinked
      /\ \A m \in Opened : handle[m].key = handle[n].key => handle[m].pinning = 0
      /\ handle' = [handle EXCEPT ![n].cache = cache]
      /\ call' = [step |-> "plan", handle |-> n, remove |-> remove, plan |-> cache]
      /\ UNCHANGED <<catalogVars, pinVars, storeVars, compaction, job>>
  BY DEF BeginPublish, MayFinish, Idle, OperationFree, Free
<1>3. cache \in Plans /\ handle[n] \in FileHandle /\ handle[n] # NoHandle /\ CacheIn(handle, n) = cache
  BY <1>1, <1>2, CacheType, HandleFields, TablesSpelledOut DEF Opened
<1> HIDE DEF cache
<1>4. opPins' = opPins /\ handlePins' = handlePins /\ stored' = stored /\ ahead' = ahead
      /\ compaction' = compaction /\ job' = job /\ [Steady]_catalogVars /\ opState' = opState
  BY <1>2 DEF pinVars, storeVars, catalogVars, opVars
<1>5. handle'[n] = [handle[n] EXCEPT !.cache = cache] /\ \A m \in Handles \ {n} : handle'[m] = handle[m]
  BY <1>1, <1>2 DEF ServiceTypeOK
<1>6. /\ handle'[n] \in FileHandle /\ handle'[n].key = handle[n].key /\ handle'[n].chunks = handle[n].chunks
      /\ handle'[n].cache = cache /\ handle'[n].pinning = 0 /\ ~handle'[n].unlinked
      /\ handle'[n].lost = handle[n].lost
  BY <1>2, <1>3, <1>5 DEF FileHandle, Plans
<1>7. handle'[n] # NoHandle
  BY <1>6, NoHandleAssumption
<1>8. call'.step = "plan" /\ call'.handle = n /\ call' \in Calls
  BY <1>2, <1>3 DEF Calls, CloseSteps
<1>9. ServiceTypeOK'
  <2>1. handle' \in [Handles -> FileHandle \cup {NoHandle}]
    BY <1>1, <1>2, <1>5, <1>6 DEF ServiceTypeOK
  <2> QED BY <1>1, <1>4, <1>8, <2>1 DEF ServiceTypeOK
<1>10. OnlyHandle(n)
  BY <1>2, <1>4, <1>5, <1>6, <1>8 DEF OnlyHandle, Busy
<1>11. Carried(n)
  <2>1. CacheIn(handle', n) = cache
    BY <1>3, <1>6, PlanIsCache DEF CacheIn
  <2> QED BY <1>2, <1>3, <1>4, <1>6, <2>1 DEF Carried
<1>12. /\ \A m \in Handles : PinFrame(m)
       /\ \A m \in Handles : handle'[m] # NoHandle => Carried(m) \/ Fresh(m)
  BY <1>10, <1>11, OneHandleFrame
<1>13. CloseHoldsHandle'
  <2>1. \A m \in Handles \ {n} : handle'[m] # NoHandle /\ handle'[m].key = handle'[n].key => handle'[m].pinning = 0
    BY <1>2, <1>5, <1>6 DEF Opened
  <2> QED BY <1>2, <1>6, <1>7, <1>8, <2>1 DEF CloseHoldsHandle, Opened
<1>14. [Next]_catalogVars
  BY <1>4, SteadyIsNext
<1> QED BY <1>4, <1>9, <1>12, <1>13, <1>14, SteadyStep DEF Sound

-----------------------------------------------------------------------------
(* Publication.                                                            *)

\* The chunks that a version counts are those of the plan (publishFileVersion).
LEMMA CountsPlan ==
    ASSUME NEW plan \in Plans, NEW h \in Hashes
    PROVE  Count([i \in Extents |-> plan[i][1]], h) > 0 <=> h \in HashesOf(plan)
<1> DEFINE version == [i \in Extents |-> plan[i][1]]
           at == {i \in Extents : version[i] = h}
<1>1. IsFiniteSet(at) /\ Cardinality(at) \in Nat
  <2>1. IsFiniteSet(Extents)
    BY NumbersAssumption, FS_Interval DEF Extents
  <2>2. at \subseteq Extents
    OBVIOUS
  <2> HIDE DEF at
  <2> QED BY <2>1, <2>2, FS_Subset, FS_CardinalityType
<1>2. Count(version, h) = Cardinality(at)
  BY Zenon DEF Count
<1>3. at # {} <=> h \in HashesOf(plan)
  <2>1. \A i \in Extents : version[i] = plan[i][1]
    OBVIOUS
  <2>2. h # Hole
    BY HoleAssumption
  <2> HIDE DEF version
  <2> QED BY <2>1, <2>2 DEF HashesOf
<1>4. Cardinality(at) = 0 <=> at = {}
  BY <1>1, FS_EmptySet
<1> HIDE DEF at, version
<1>5. Count(version, h) > 0 <=> h \in HashesOf(plan)
  BY <1>1, <1>2, <1>3, <1>4
<1> QED BY <1>5 DEF version

\* Only the placements of the version's own chunks matter (upsertChunkRefs).
LEMMA PlacementRestricted ==
    ASSUME NEW path, NEW version, NEW placement, NEW w, NEW owners, PublishChunks(path, version, placement, owners),
           \A h \in Hashes : Count(version, h) > 0 => w[h] = placement[h]
    PROVE  PublishChunks(path, version, w, owners)
<1> DEFINE released == Released(head, {path})
           Before(h) == IF Count(version, h) > 0 /\ (h \in rows => released[h] = 0) THEN placement[h] ELSE location[h]
           After(h) == IF Count(version, h) > 0 /\ (h \in rows => released[h] = 0) THEN w[h] ELSE location[h]
<1>1. location' = [h \in Hashes |-> Before(h)]
  BY Zenon DEF PublishChunks
<1>2. ASSUME NEW h \in Hashes PROVE Before(h) = After(h)
  BY <1>2, Zenon
<1>3. location' = [h \in Hashes |-> After(h)]
  <2> HIDE DEF Before, After
  <2> QED BY <1>1, <1>2, Zenon
<1> QED BY <1>3, Zenon DEF PublishChunks

\* Publication under vlogMu and pinMu is the catalog's commit: verification has
\* bound every planned chunk to bytes in an active vlog (publishPreparedVersion).
LEMMA PublishCommits ==
    ASSUME ServiceInv, NEW replies \in BOOLEAN, publishPreparedVersion(replies)
    PROVE  /\ call.handle \in Opened /\ handle[call.handle].key \in Keys /\ handle[call.handle].pinning = 0
           /\ call.plan \in Plans /\ call.remove \in BOOLEAN
           /\ opState'[handle[call.handle].key] = "committed"
           /\ [Quiet]_catalogVars
           /\ \A h \in HashesOf(call.plan) : h \in rows' /\ Placement[h] \in Vlogs /\ <<h, Placement[h]>> \in stored
           /\ \A h \in rows' : (location'[h] = location[h] /\ h \in rows) \/ (h \in HashesOf(call.plan) /\ location'[h] = Placement[h])
<1> DEFINE n == call.handle  key == handle[call.handle].key
           version == [i \in Extents |-> call.plan[i][1]]
           chunks == {g \in Hashes : Count(version, g) > 0}
           w == [h \in chunks |-> Placement[h]]
           retain == key \in ClientKeys
<1>1. ServiceTypeOK /\ TypeOK
  BY DEF ServiceInv, CatalogInv
<1>2. /\ call.step = "publish"
      /\ \A h \in HashesOf(call.plan) : vlog[Placement[h]] = "active" /\ <<h, Placement[h]>> \in stored
      /\ CommitWriteOpVersion(key, handle[n].path, version, Placement, retain)
  BY Zenon DEF publishPreparedVersion
<1>3. /\ n \in Opened /\ handle[n].pinning = 0 /\ key # NoKey /\ call.plan \in Plans /\ call.remove \in BOOLEAN
  BY <1>1, <1>2, CallFields DEF ServiceInv, CloseHoldsHandle, CloseSteps
<1>4. key \in Keys /\ handle[n].path \in Paths
  BY <1>1, <1>3, HandleFields
<1>5. version \in Versions
  BY <1>3, SlotTypes DEF Plans, Versions
<1>6. \A h \in Hashes : h \in chunks <=> h \in HashesOf(call.plan)
  BY <1>3, CountsPlan
<1>7. HashesOf(call.plan) \subseteq Hashes
  BY <1>3, HashesOfType
<1>8. \A h \in HashesOf(call.plan) : Placement[h] \in Vlogs
  BY <1>1, <1>2 DEF ServiceTypeOK
<1>9. w \in Placements(version)
  <2>1. \A h \in chunks : Placement[h] \in {id \in Vlogs : vlog[id] = "active"}
    BY <1>2, <1>6, <1>8
  <2> HIDE DEF chunks
  <2>2. w \in [chunks -> {id \in Vlogs : vlog[id] = "active"}]
    BY <2>1
  <2> QED BY <2>2 DEF Placements, chunks
<1>10. \A h \in Hashes : Count(version, h) > 0 => w[h] = Placement[h]
  <2> HIDE DEF version
  <2> QED OBVIOUS
<1> HIDE DEF version, key, n, retain, w
<1>11. CommitWriteOpVersion(key, handle[n].path, version, w, retain)
  <2> DEFINE path == handle[n].path  owners == IF retain THEN 2 ELSE 1
  <2>1. PublishChunks(path, version, Placement, owners)
    BY <1>2, Zenon DEF CommitWriteOpVersion
  <2> HIDE DEF path, owners
  <2>2. PublishChunks(path, version, w, owners)
    BY <1>10, <2>1, PlacementRestricted
  <2>3. PublishChunks(handle[n].path, version, w, IF retain THEN 2 ELSE 1)
    BY <2>2 DEF path, owners
  <2> QED BY <1>2, <2>3, Zenon DEF CommitWriteOpVersion
<1>12. retain \in BOOLEAN
  BY DEF retain
<1>13. [Quiet]_catalogVars
  <2>1. Operations
    BY <1>4, <1>5, <1>9, <1>11, <1>12, Zenon DEF Operations
  <2> QED BY <2>1 DEF Quiet
<1>14. opState'[key] = "committed"
  <2>1. opState' = [opState EXCEPT ![key] = "committed"]
    BY <1>2, Zenon DEF CommitWriteOpVersion
  <2> QED BY <1>1, <1>4, <2>1 DEF TypeOK
<1>15. rows' = rows \cup chunks
  BY <1>2, Zenon DEF CommitWriteOpVersion, PublishChunks
<1>16. \A h \in Hashes : location'[h] =
          IF Count(version, h) > 0 /\ (h \in rows => Released(head, {handle[n].path})[h] = 0) THEN Placement[h] ELSE location[h]
  BY <1>2, Zenon DEF CommitWriteOpVersion, PublishChunks
<1>17. ASSUME NEW h \in rows'
       PROVE (location'[h] = location[h] /\ h \in rows) \/ (h \in HashesOf(call.plan) /\ location'[h] = Placement[h])
  <2> DEFINE taken == Count(version, h) > 0 /\ (h \in rows => Released(head, {handle[n].path})[h] = 0)
  <2>1. h \in Hashes
    BY <1>1, <1>15, <1>17 DEF TypeOK
  <2>2. h \in chunks <=> Count(version, h) > 0
    BY <2>1
  <2>3. h \in rows \/ h \in chunks
    BY <1>15, <1>17
  <2>4. h \in chunks => h \in HashesOf(call.plan)
    BY <1>6, <2>1
  <2>5. taken => h \in chunks
    BY <2>2
  <2>6. ~taken => h \in rows
    BY <2>2, <2>3
  <2>7. (taken => location'[h] = Placement[h]) /\ (~taken => location'[h] = location[h])
    BY <1>16, <2>1, Zenon
  <2> HIDE DEF taken, chunks
  <2>8. CASE taken
    BY <2>4, <2>5, <2>7, <2>8, Zenon
  <2>9. CASE ~taken
    BY <2>6, <2>7, <2>9, Zenon
  <2> QED BY <2>8, <2>9
<1>18. \A h \in HashesOf(call.plan) : h \in rows'
  BY <1>6, <1>7, <1>15
<1> QED BY <1>2, <1>3, <1>4, <1>8, <1>13, <1>14, <1>17, <1>18 DEF key, n

\* Publication: its rows name verified bytes, the handle goes or shows what it
\* published, and a lost reply leaves the memory alone (publishPreparedVersion).
LEMMA PublishSound ==
    ASSUME ServiceInv, NEW replies \in BOOLEAN, publishPreparedVersion(replies)
    PROVE  Sound
<1> DEFINE n == call.handle  key == handle[call.handle].key
           Chunk(i) == IF call.plan[i] = Empty THEN Empty ELSE <<call.plan[i][1], Placement[call.plan[i][1]]>>
           chunks == [i \in Extents |-> Chunk(i)]
<1>1. ServiceTypeOK /\ TypeOK
  BY DEF ServiceInv, CatalogInv
<1>2. /\ n \in Opened /\ key \in Keys /\ handle[n].pinning = 0
      /\ call.plan \in Plans
      /\ opState'[key] = "committed"
      /\ [Quiet]_catalogVars
      /\ \A h \in HashesOf(call.plan) : h \in rows' /\ Placement[h] \in Vlogs /\ <<h, Placement[h]>> \in stored
      /\ \A h \in rows' : (location'[h] = location[h] /\ h \in rows) \/ (h \in HashesOf(call.plan) /\ location'[h] = Placement[h])
  BY PublishCommits
<1>3. /\ call.step = "publish" /\ compaction = NoCompaction
      /\ ahead' = {v \in ahead : lease[v] # key}
      /\ call' = Free
      /\ IF replies
         THEN /\ opPins' = [opPins EXCEPT ![key] = {}]
              /\ IF call.remove THEN RemoveHandle(n) ELSE Rebase(n, NoKey, chunks, {})
         ELSE UNCHANGED <<handle, pinVars>>
      /\ UNCHANGED <<stored, compaction, job>>
  BY Zenon DEF publishPreparedVersion
<1>4. chunks \in Plans /\ HashesOf(chunks) \subseteq rows'
  <2>1. ASSUME NEW i \in Extents PROVE Chunk(i) \in Slots /\ Chunk(i)[1] \in rows' \cup {Hole}
    <3>1. call.plan[i] \in Slots
      BY <1>2, <2>1 DEF Plans
    <3>2. CASE call.plan[i] = Empty
      BY <3>2, SlotTypes DEF Empty
    <3>3. CASE call.plan[i] # Empty
      <4> DEFINE h == call.plan[i][1]
      <4>1. h # Hole
        BY <3>1, <3>3, SlotTypes
      <4>2. h \in HashesOf(call.plan)
        BY <2>1, <4>1 DEF HashesOf
      <4>3. h \in Hashes
        BY <1>2, <4>2, HashesOfType
      <4>4. Chunk(i) = <<h, Placement[h]>>
        BY <3>3
      <4>5. h \in rows' /\ Placement[h] \in Vlogs
        BY <1>2, <4>2
      <4> HIDE DEF h
      <4> QED BY <4>3, <4>4, <4>5, SlotTypes
    <3> QED BY <3>2, <3>3
  <2> HIDE DEF Chunk
  <2>2. chunks \in Plans
    BY <2>1 DEF Plans
  <2> QED BY <2>1, <2>2 DEF HashesOf
<1> HIDE DEF n, key, chunks, Chunk
<1>5. CatalogInv' /\ OpsFrame /\ rows \subseteq rows' /\ [Next]_catalogVars
  BY <1>2, SteadyIsNext, CatalogStep, QuietFrame DEF ServiceInv
<1>6. RowsHaveBytes'
  <2>1. \A h \in rows' : <<h, location'[h]>> \in stored
    BY <1>2 DEF ServiceInv, RowsHaveBytes
  <2> QED BY <1>3, <2>1 DEF RowsHaveBytes
<1>7. CloseHoldsHandle' /\ CompactionInv'
  BY <1>3 DEF CloseHoldsHandle, CompactionInv, Free, CloseSteps
<1>8. opPins' \in [Keys -> SUBSET Hashes] /\ \A k \in Keys : opState'[k] = "prepared" => opPins[k] \subseteq opPins'[k]
  <2>1. opPins \in [Keys -> SUBSET Hashes]
    BY <1>1 DEF ServiceTypeOK
  <2>2. CASE replies
    <3>1. opPins' = [opPins EXCEPT ![key] = {}]
      BY <1>3, <2>2
    <3> QED BY <1>2, <2>1, <3>1
  <2>3. CASE ~replies
    <3>1. opPins' = opPins
      BY <1>3, <2>3 DEF pinVars
    <3> QED BY <2>1, <3>1
  <2> QED BY <2>2, <2>3
<1>9. ContentFrame
  BY <1>3, <1>5, <1>8 DEF ContentFrame
<1>10. /\ handle' \in [Handles -> FileHandle \cup {NoHandle}] /\ handlePins' \in [Handles -> SUBSET Hashes]
       /\ \A m \in Handles : PinFrame(m)
       /\ \A m \in Handles : handle'[m] # NoHandle => Carried(m) \/ Fresh(m)
  <2>1. ASSUME /\ handle' \in [Handles -> FileHandle \cup {NoHandle}] /\ handlePins' \in [Handles -> SUBSET Hashes]
               /\ \A m \in Handles \ {n} : handle'[m] = handle[m] /\ handlePins'[m] = handlePins[m]
               /\ ~Busy(handle, n) /\ ~Busy(handle', n),
               handle'[n] # NoHandle => Fresh(n)
        PROVE  /\ handle' \in [Handles -> FileHandle \cup {NoHandle}] /\ handlePins' \in [Handles -> SUBSET Hashes]
               /\ \A m \in Handles : PinFrame(m)
               /\ \A m \in Handles : handle'[m] # NoHandle => Carried(m) \/ Fresh(m)
    <3>1. n \in Handles /\ OnlyHandle(n)
      BY <1>2, <1>3, <2>1 DEF Opened, OnlyHandle, n, Free
    <3> QED BY <2>1, <3>1, OneHandleFrame
  <2>2. CASE replies /\ call.remove
    <3>1. RemoveHandle(n)
      BY <1>3, <2>2
    <3> QED BY <1>2, <2>1, <3>1, RemoveEffect
  <2>3. CASE replies /\ ~call.remove
    <3>1. Rebase(n, NoKey, chunks, {})
      BY <1>3, <2>3
    <3> QED BY <1>2, <1>4, <2>1, <3>1, RebaseEffect
  <2>4. CASE ~replies
    <3>1. handle' = handle /\ handlePins' = handlePins
      BY <1>3, <2>4 DEF pinVars
    <3>2. SameHandles /\ PlanFrame
      BY <1>2, <1>3, <3>1 DEF SameHandles, PlanFrame, Free
    <3> QED BY <1>1, <3>1, <3>2, SameHandlesFrame DEF ServiceTypeOK
  <2> QED BY <2>2, <2>3, <2>4
<1>11. ServiceTypeOK'
  <2>1. ahead' \subseteq Vlogs /\ call' \in Calls
    BY <1>1, <1>3 DEF ServiceTypeOK, Calls
  <2> QED BY <1>1, <1>3, <1>8, <1>10, <2>1 DEF ServiceTypeOK
<1>12. HandleParts'
  BY <1>5, <1>9, <1>10, <1>11, PartsStep
<1> QED BY <1>5, <1>6, <1>7, <1>11, <1>12, PartsMakeInv DEF Sound

-----------------------------------------------------------------------------
(* Storing a chunk.                                                        *)

\* A step of the one handle of its operation that stores a chunk: rows stay, bytes
\* are only added, leases are only granted.
Storing(n) ==
    LET key == handle[n].key IN
    /\ handlePins' = handlePins /\ compaction' = compaction /\ job' = job
    /\ rows' = rows /\ location' = location /\ refcount' = refcount /\ opState' = opState
    /\ stored \subseteq stored'
    /\ \A v \in Vlogs : lease[v] # NoKey => lease'[v] = lease[v]
    /\ compaction # NoCompaction => lease' = lease
    /\ \A m \in Handles \ {n} : handle'[m] = handle[m]
    /\ handle[n] # NoHandle /\ handle'[n] # NoHandle
    /\ key # NoKey /\ handle'[n].key = key
    /\ handle'[n].chunks = handle[n].chunks /\ handle'[n].unlinked = handle[n].unlinked /\ handle'[n].lost = handle[n].lost
    /\ \/ call' = call
       \/ /\ call.step = "plan" /\ call.handle = n
          /\ call'.step = "free" \/ (call'.step = "plan" /\ call'.handle = n)
    /\ \A k \in Keys \ {key} : opPins'[k] = opPins[k]
    /\ \A m \in Handles \ {n} : Busy(handle, m) => handle[m].key # key

\* Only that handle can have a pin of the operation that would be taken back.
LEMMA StoringTransient ==
    ASSUME ServiceInv, NEW n \in Handles, Storing(n)
    PROVE  /\ \A m \in Handles \ {n} : Busy(handle', m) <=> Busy(handle, m)
           /\ \A m \in Handles \ {n} : CacheIn(handle', m) = CacheIn(handle, m)
           /\ \A m \in Handles \ {n} : StoringIn(handle', call', m) = StoringIn(handle, call, m)
           /\ \A k, h : k # handle[n].key =>
                 (TransientIn(handle', call', k, h) <=> TransientIn(handle, call, k, h))
           /\ \A h : TransientIn(handle, call, handle[n].key, h) <=>
                 Busy(handle, n) /\ ~handle[n].already /\ StoringIn(handle, call, n)[1] = h
           /\ \A h : TransientIn(handle', call', handle[n].key, h) <=>
                 Busy(handle', n) /\ ~handle'[n].already /\ StoringIn(handle', call', n)[1] = h
<1>1. /\ \A m \in Handles \ {n} : handle'[m] = handle[m]
      /\ handle'[n].key = handle[n].key
      /\ \A m \in Handles \ {n} : Busy(handle, m) => handle[m].key # handle[n].key
  BY Zenon DEF Storing
<1>2. \A m \in Handles \ {n} : (Busy(handle', m) <=> Busy(handle, m)) /\ CacheIn(handle', m) = CacheIn(handle, m)
  BY <1>1 DEF Busy, CacheIn
<1>3. ASSUME NEW m \in Handles \ {n} PROVE StoringIn(handle', call', m) = StoringIn(handle, call, m)
  <2>1. \/ call' = call
        \/ /\ call.step = "plan" /\ call.handle = n
           /\ call'.step = "free" \/ (call'.step = "plan" /\ call'.handle = n)
    BY Zenon DEF Storing
  <2>2. PendingIn(handle', call', m) = PendingIn(handle, call, m)
    BY <1>2, <1>3, <2>1 DEF PendingIn
  <2> QED BY <1>1, <1>3, <2>2 DEF StoringIn
<1>4. ASSUME NEW k, NEW h, k # handle[n].key
      PROVE  TransientIn(handle', call', k, h) <=> TransientIn(handle, call, k, h)
  <2>1. ASSUME NEW m \in Handles
        PROVE  (Busy(handle', m) /\ handle'[m].key = k /\ ~handle'[m].already /\ StoringIn(handle', call', m)[1] = h) <=>
               (Busy(handle, m) /\ handle[m].key = k /\ ~handle[m].already /\ StoringIn(handle, call, m)[1] = h)
    <3>1. CASE m = n
      BY <1>1, <1>4, <3>1
    <3>2. CASE m # n
      <4>1. m \in Handles \ {n}
        BY <3>2
      <4> QED BY <1>1, <1>2, <1>3, <4>1, Zenon
    <3> QED BY <3>1, <3>2
  <2> QED BY <2>1, Zenon DEF TransientIn
<1>5. ASSUME NEW h
      PROVE  TransientIn(handle, call, handle[n].key, h) <=>
                Busy(handle, n) /\ ~handle[n].already /\ StoringIn(handle, call, n)[1] = h
  BY <1>1 DEF TransientIn
<1>6. ASSUME NEW h
      PROVE  TransientIn(handle', call', handle[n].key, h) <=>
                Busy(handle', n) /\ ~handle'[n].already /\ StoringIn(handle', call', n)[1] = h
  BY <1>1, <1>2 DEF TransientIn
<1> QED BY <1>2, <1>3, <1>4, <1>5, <1>6

\* Such a step keeps the invariant when it pins what it is storing, takes back no
\* pin that something relies on, and places chunks where they will stay.
LEMMA StoringStep ==
    ASSUME ServiceInv, NEW n \in Handles, Storing(n), ServiceTypeOK', [Next]_catalogVars,
           Busy(handle', n) => /\ StoringIn(handle', call', n) \in Hashes \X {NoVlog}
                               /\ StoringIn(handle', call', n)[1] \in opPins'[handle[n].key],
           \A h \in rows : h \in opPins[handle[n].key] /\ ~TransientIn(handle, call, handle[n].key, h) =>
                 h \in opPins'[handle[n].key] /\ ~TransientIn(handle', call', handle[n].key, h),
           \A i \in Extents :
              \/ CacheIn(handle', n)[i] = CacheIn(handle, n)[i]
              \/ opState[handle[n].key] = "prepared" =>
                    KeptIn(handle', call', rows', opPins', stored', lease', n, CacheIn(handle', n)[i]),
           call.step \in CloseSteps =>
              \/ call.handle = n /\ call.step = "plan"
              \/ call.handle # n /\ (handle[n].key = handle[call.handle].key => handle'[n].pinning = 0)
    PROVE  Sound
<1> DEFINE key == handle[n].key
<1>1. /\ PinnedIn(handle, rows) /\ BoundIn(handle, opState, handlePins)
      /\ OneIn(handle, call, opState, opPins)
      /\ SlotsIn(handle, call, rows, opState, opPins, stored, lease)
  BY PartsNow DEF ServiceInv, HandleParts
<1>2. /\ handlePins' = handlePins /\ compaction' = compaction
      /\ rows' = rows /\ location' = location /\ refcount' = refcount /\ opState' = opState /\ stored \subseteq stored'
      /\ \A v \in Vlogs : lease[v] # NoKey => lease'[v] = lease[v]
      /\ compaction # NoCompaction => lease' = lease
      /\ \A m \in Handles \ {n} : handle'[m] = handle[m]
      /\ handle[n] # NoHandle /\ handle'[n] # NoHandle
      /\ key # NoKey /\ handle'[n].key = key
      /\ handle'[n].chunks = handle[n].chunks /\ handle'[n].unlinked = handle[n].unlinked /\ handle'[n].lost = handle[n].lost
      /\ \A k \in Keys \ {key} : opPins'[k] = opPins[k]
      /\ \A m \in Handles \ {n} : Busy(handle, m) => handle[m].key # key
  BY Zenon DEF Storing
<1>3. \/ call' = call
      \/ /\ call.step = "plan" /\ call.handle = n
         /\ call'.step = "free" \/ (call'.step = "plan" /\ call'.handle = n)
  BY Zenon DEF Storing
<1>4. /\ \A m \in Handles \ {n} : Busy(handle', m) <=> Busy(handle, m)
      /\ \A m \in Handles \ {n} : CacheIn(handle', m) = CacheIn(handle, m)
      /\ \A m \in Handles \ {n} : StoringIn(handle', call', m) = StoringIn(handle, call, m)
      /\ \A k, h : k # key => (TransientIn(handle', call', k, h) <=> TransientIn(handle, call, k, h))
  BY StoringTransient
<1> HIDE DEF key
<1>5. PinnedIn(handle', rows')
  <2>1. \A m \in Handles : handle'[m] # NoHandle => handle[m] # NoHandle /\ handle'[m].chunks = handle[m].chunks
                                                   /\ handle'[m].lost = handle[m].lost
    BY <1>2
  <2> QED BY <1>1, <1>2, <2>1, Zenon DEF PinnedIn
<1>6. BoundIn(handle', opState', handlePins')
  <2>1. ASSUME NEW m \in Handles \ {n}, handle'[m] # NoHandle
        PROVE  /\ handle'[m].key = NoKey => handle'[m].cache = NoCache /\ handle'[m].pinning = 0
               /\ handle'[m].key # NoKey => opState'[handle'[m].key] # "none"
               /\ HashesOf(handle'[m].chunks) \subseteq handlePins'[m]
    <3>1. handle'[m] = handle[m] /\ m \in Handles
      BY <1>2, <2>1
    <3> QED BY <1>1, <1>2, <2>1, <3>1, Zenon DEF BoundIn
  <2>2. /\ handle'[n].key # NoKey
        /\ opState'[handle'[n].key] # "none"
        /\ HashesOf(handle'[n].chunks) \subseteq handlePins'[n]
    BY <1>1, <1>2, Zenon DEF BoundIn, key
  <2> QED BY <2>1, <2>2 DEF BoundIn
<1>7. OneIn(handle', call', opState', opPins')
  <2>1. ASSUME NEW l \in Handles, NEW m \in Handles, Busy(handle', l), Busy(handle', m), handle'[l].key = handle'[m].key
        PROVE  l = m
    <3>1. ASSUME l # n, m # n PROVE l = m
      <4>1. Busy(handle, l) /\ Busy(handle, m) /\ handle[l].key = handle[m].key
        BY <1>2, <1>4, <2>1, <3>1
      <4> QED BY <1>1, <4>1, Zenon DEF OneIn
    <3>2. ASSUME l # n, m = n PROVE FALSE
      BY <1>2, <1>4, <2>1, <3>2
    <3>3. ASSUME m # n, l = n PROVE FALSE
      BY <1>2, <1>4, <2>1, <3>3
    <3> QED BY <3>1, <3>2, <3>3
  <2>2. ASSUME NEW m \in Handles, Busy(handle', m)
        PROVE  /\ StoringIn(handle', call', m) \in Hashes \X {NoVlog}
               /\ handle'[m].key # NoKey /\ opState'[handle'[m].key] = "prepared" =>
                     StoringIn(handle', call', m)[1] \in opPins'[handle'[m].key]
    <3>1. CASE m = n
      BY <1>2, <2>2, <3>1 DEF key
    <3>2. CASE m # n
      <4>1. /\ Busy(handle, m) /\ handle'[m] = handle[m] /\ handle[m].key # key
            /\ StoringIn(handle', call', m) = StoringIn(handle, call, m)
        BY <1>2, <1>4, <2>2, <3>2
      <4>2. handle[m].key # NoKey => opPins'[handle[m].key] = opPins[handle[m].key]
        BY <1>2, <4>1, HandleFields DEF ServiceInv, Busy, Opened
      <4> QED BY <1>1, <1>2, <4>1, <4>2, Zenon DEF OneIn
    <3> QED BY <3>1, <3>2
  <2> QED BY <2>1, <2>2, Zenon DEF OneIn
<1>8. SlotsIn(handle', call', rows', opState', opPins', stored', lease')
  <2> SUFFICES ASSUME NEW m \in Handles, handle'[m] # NoHandle, handle'[m].key # NoKey,
                      opState'[handle'[m].key] = "prepared", NEW i \in Extents, CacheIn(handle', m)[i][2] \in Vlogs
               PROVE  KeptIn(handle', call', rows', opPins', stored', lease', m, CacheIn(handle', m)[i])
    BY Zenon DEF SlotsIn
  <2> DEFINE slot == CacheIn(handle', m)[i]
  <2>1. handle[m] # NoHandle /\ handle'[m].key = handle[m].key /\ handle'[m].chunks = handle[m].chunks
    BY <1>2 DEF key
  <2>2. handle[m].key \in Keys
    BY <2>1, HandleFields DEF ServiceInv, Opened
  <2>3. CASE CacheIn(handle, m)[i] = slot
    <3>1. KeptIn(handle, call, rows, opPins, stored, lease, m, slot)
      BY <1>1, <1>2, <2>1, <2>3, Zenon DEF SlotsIn
    <3>2. slot[2] \in Vlogs
      OBVIOUS
    <3> HIDE DEF slot
    <3>3. ASSUME slot[1] \in rows, slot[1] \in opPins[handle[m].key], ~TransientIn(handle, call, handle[m].key, slot[1])
          PROVE  slot[1] \in opPins'[handle[m].key] /\ ~TransientIn(handle', call', handle[m].key, slot[1])
      <4>1. CASE handle[m].key = key
        <5>1. /\ slot[1] \in opPins[handle[n].key] /\ ~TransientIn(handle, call, handle[n].key, slot[1])
              /\ handle[m].key = handle[n].key
          BY <3>3, <4>1 DEF key
        <5> QED BY <3>3, <5>1
      <4>2. CASE handle[m].key # key
        BY <1>2, <1>4, <2>2, <3>3, <4>2
      <4> QED BY <4>1, <4>2
    <3>4. slot \in stored /\ lease[slot[2]] = handle[m].key => slot \in stored' /\ lease'[slot[2]] = handle[m].key
      BY <1>2, <2>2, <3>2, NoKeyAssumption
    <3>5. KeptIn(handle', call', rows', opPins', stored', lease', m, slot)
      BY <1>2, <2>1, <3>1, <3>3, <3>4, Zenon DEF KeptIn
    <3> QED BY <3>5 DEF slot
  <2>4. CASE CacheIn(handle, m)[i] # slot
    <3>1. m = n
      BY <1>4, <2>4
    <3> QED BY <1>2, <2>1, <2>4, <3>1
  <2> QED BY <2>3, <2>4
<1>9. HandleParts'
  BY <1>5, <1>6, <1>7, <1>8, PartsNext
<1>10. CloseHoldsHandle'
  <2> DEFINE c == call.handle
  <2> SUFFICES ASSUME call'.step \in CloseSteps
               PROVE  /\ call'.handle \in Handles /\ handle'[call'.handle] # NoHandle
                      /\ handle'[call'.handle].key # NoKey
                      /\ ~handle'[call'.handle].unlinked
                      /\ call'.step # "plan" => handle'[call'.handle].pinning = 0
                      /\ call'.step \in {"committed", "released"} => opState'[handle'[call'.handle].key] # "prepared"
                      /\ \A m \in Handles \ {call'.handle} : handle'[m] # NoHandle /\ handle'[m].key = handle'[call'.handle].key =>
                            handle'[m].pinning = 0
    BY DEF CloseHoldsHandle, Opened, Prepared
  <2>1. call'.step = call.step /\ call'.handle = c /\ call.step \in CloseSteps
    BY <1>3 DEF CloseSteps
  <2>2. /\ c \in Handles /\ handle[c] # NoHandle /\ handle[c].key # NoKey /\ ~handle[c].unlinked
        /\ call.step # "plan" => handle[c].pinning = 0
        /\ call.step \in {"committed", "released"} => opState[handle[c].key] # "prepared"
        /\ \A m \in Handles \ {c} : handle[m] # NoHandle /\ handle[m].key = handle[c].key => handle[m].pinning = 0
    BY <2>1 DEF ServiceInv, CloseHoldsHandle, Opened, Prepared
  <2>3. \/ c = n /\ call.step = "plan"
        \/ c # n /\ (handle[n].key = handle[c].key => handle'[n].pinning = 0)
    BY <2>1
  <2> HIDE DEF c
  <2>4. CASE c = n /\ call.step = "plan"
    BY <1>2, <2>1, <2>2, <2>4 DEF key
  <2>5. CASE c # n /\ (handle[n].key = handle[c].key => handle'[n].pinning = 0)
    BY <1>2, <2>1, <2>2, <2>5 DEF key
  <2> QED BY <2>3, <2>4, <2>5
<1>11. RowsHaveBytes' /\ CompactionInv'
  BY <1>2 DEF ServiceInv, RowsHaveBytes, CompactionInv, LiveChunksInVlog
<1>12. CatalogInv'
  BY CatalogStep DEF ServiceInv
<1> QED BY <1>9, <1>10, <1>11, <1>12, PartsMakeInv DEF Sound

\* The pin is published before the chunk is looked up (pinAndResolveChunk).
LEMMA PinSound ==
    ASSUME ServiceInv, NEW n \in Handles, NEW i \in Extents, PinChunk(n, i)
    PROVE  Sound
<1> DEFINE key == handle[n].key  h == Pending(n)[i][1]  known == h \in opPins[key]
           new == [handle[n] EXCEPT !.pinning = i, !.already = known]
<1>1. ServiceTypeOK
  BY DEF ServiceInv
<1>2. /\ n \in Opened /\ key # NoKey /\ handle[n].pinning = 0
      /\ Closes(n) \/ Usable(n)
      /\ Pending(n)[i] \in Hashes \X {NoVlog}
      /\ handle' = [handle EXCEPT ![n].pinning = i, ![n].already = known]
      /\ opPins' = [opPins EXCEPT ![key] = @ \cup {h}]
      /\ UNCHANGED <<catalogVars, handlePins, storeVars, call, compaction, job>>
  BY Zenon DEF PinChunk, Idle
<1>3. handle[n] \in FileHandle /\ handle[n] # NoHandle /\ key \in Keys /\ known \in BOOLEAN /\ h \in Hashes
  BY <1>1, <1>2, HandleFields DEF Opened
<1>4. handle' = [handle EXCEPT ![n] = new]
  BY <1>1, <1>2 DEF ServiceTypeOK
<1>5. Pending(n)[i] = <<h, NoVlog>>
  BY <1>2
<1>6. i # 0 /\ i \in Extents
  BY DEF Extents
<1> HIDE DEF h
<1>7. /\ new \in FileHandle /\ new.key = key /\ new.chunks = handle[n].chunks /\ new.cache = handle[n].cache
      /\ new.unlinked = handle[n].unlinked /\ new.lost = handle[n].lost /\ new.pinning = i /\ new.already = known
  BY <1>3, <1>6 DEF FileHandle
<1> HIDE DEF new, key, known
<1>8. handle'[n] = new /\ \A m \in Handles \ {n} : handle'[m] = handle[m]
  BY <1>1, <1>4 DEF ServiceTypeOK
<1>9. /\ handlePins' = handlePins /\ stored' = stored /\ ahead' = ahead /\ call' = call /\ compaction' = compaction /\ job' = job
      /\ rows' = rows /\ location' = location /\ refcount' = refcount /\ opState' = opState /\ lease' = lease
  BY <1>2 DEF storeVars, catalogVars, chunkVars, opVars
<1>10. opPins' \in [Keys -> SUBSET Hashes] /\ opPins'[key] = opPins[key] \cup {h} /\ \A k \in Keys \ {key} : opPins'[k] = opPins[k]
  BY <1>1, <1>2, <1>3 DEF ServiceTypeOK
<1>11. ServiceTypeOK'
  BY <1>1, <1>4, <1>7, <1>9, <1>10 DEF ServiceTypeOK
<1>12. \A m \in Handles \ {n} : Busy(handle, m) => handle[m].key # key
  BY <1>2 DEF Busy, Closes, Usable, OperationFree, Opened, ServiceInv, CloseHoldsHandle, CloseSteps, key
<1>13. handle'[n] # NoHandle
  BY <1>7, <1>8, NoHandleAssumption
<1>14. Storing(n)
  BY <1>2, <1>3, <1>7, <1>8, <1>9, <1>10, <1>12, <1>13 DEF Storing, key
<1>15. CacheIn(handle', n) = CacheIn(handle, n)
  BY <1>7, <1>8 DEF CacheIn
<1>16. StoringIn(handle', call', n) = <<h, NoVlog>>
  <2>1. PendingIn(handle', call', n) = Pending(n)
    BY <1>9, <1>15, TablesSpelledOut DEF PendingIn
  <2> QED BY <1>5, <1>7, <1>8, <2>1 DEF StoringIn
<1>17. ASSUME NEW g \in opPins[key] PROVE g \in opPins'[key] /\ ~TransientIn(handle', call', key, g)
  <2>1. TransientIn(handle', call', key, g) <=> Busy(handle', n) /\ ~handle'[n].already /\ StoringIn(handle', call', n)[1] = g
    BY <1>14, StoringTransient DEF key
  <2>2. g = h => handle'[n].already
    BY <1>7, <1>8, <1>17 DEF known
  <2>3. StoringIn(handle', call', n)[1] = h
    BY <1>16
  <2> QED BY <1>10, <1>17, <2>1, <2>2, <2>3
<1>18. call.step \in CloseSteps =>
          \/ call.handle = n /\ call.step = "plan"
          \/ call.handle # n /\ handle[n].key # handle[call.handle].key
  BY <1>2 DEF Closes, Usable
<1>19. [Next]_catalogVars
  BY <1>2
<1>20. StoringIn(handle', call', n) \in Hashes \X {NoVlog} /\ StoringIn(handle', call', n)[1] \in opPins'[key]
  BY <1>3, <1>10, <1>16
<1> QED BY <1>11, <1>14, <1>15, <1>17, <1>18, <1>19, <1>20, StoringStep DEF key

\* What is known of a handle that stores a chunk (planChunk).
LEMMA BusyHandle ==
    ASSUME ServiceInv, NEW n \in Opened, handle[n].pinning # 0
    PROVE  /\ n \in Handles /\ Busy(handle, n) /\ handle[n] \in FileHandle /\ handle[n] # NoHandle
           /\ handle[n].key \in Keys /\ handle[n].pinning \in Extents
           /\ Pending(n) \in Plans
           /\ Pending(n)[handle[n].pinning] = StoringIn(handle, call, n)
           /\ StoringIn(handle, call, n) \in Hashes \X {NoVlog} /\ PinnedHash(n) = StoringIn(handle, call, n)[1]
           /\ opState[handle[n].key] = "prepared" => PinnedHash(n) \in opPins[handle[n].key]
           /\ \A m \in Handles \ {n} : Busy(handle, m) => handle[m].key # handle[n].key
           /\ call.step \in CloseSteps => call.handle # n \/ Closes(n)
<1>1. ServiceTypeOK /\ OneIn(handle, call, opState, opPins)
  BY PartsNow DEF ServiceInv, HandleParts
<1>2. n \in Handles /\ handle[n] # NoHandle /\ Busy(handle, n) /\ handle[n] \in FileHandle
  BY <1>1, HandleFields DEF Opened, Busy
<1>3. handle[n].key \in Keys /\ handle[n].pinning \in Extents
  BY <1>1, HandleFields DEF ServiceInv, HandlesBound
<1>4. Pending(n) \in Plans /\ Pending(n)[handle[n].pinning] = StoringIn(handle, call, n)
  BY <1>1, PendingType, TablesSpelledOut
<1>5. PinnedHash(n) = StoringIn(handle, call, n)[1]
  BY <1>4 DEF PinnedHash
<1>6. /\ StoringIn(handle, call, n) \in Hashes \X {NoVlog}
      /\ opState[handle[n].key] = "prepared" => PinnedHash(n) \in opPins[handle[n].key]
  BY <1>1, <1>2, <1>3, <1>5, NoKeyAssumption DEF OneIn
<1>7. \A m \in Handles \ {n} : Busy(handle, m) => handle[m].key # handle[n].key
  BY <1>1, <1>2 DEF OneIn
<1>8. call.step \in CloseSteps => call.handle # n \/ Closes(n)
  BY DEF ServiceInv, CloseHoldsHandle, Closes
<1> QED BY <1>2, <1>3, <1>4, <1>5, <1>6, <1>7, <1>8

\* A handle that has stored its chunk, or failed to, is idle again (planChunk).
Settled(n) ==
    /\ handle' \in [Handles -> FileHandle \cup {NoHandle}] /\ call' \in Calls
    /\ \A m \in Handles \ {n} : handle'[m] = handle[m]
    /\ handle'[n] # NoHandle /\ handle'[n].pinning = 0
    /\ handle'[n].key = handle[n].key
    /\ handle'[n].chunks = handle[n].chunks /\ handle'[n].unlinked = handle[n].unlinked /\ handle'[n].lost = handle[n].lost
    /\ \/ call' = call
       \/ /\ call.step = "plan" /\ call.handle = n
          /\ call'.step = "free" \/ (call'.step = "plan" /\ call'.handle = n)

\* The placed chunk is the only one that changes (planChunk).
LEMMA PlaceEffect ==
    ASSUME ServiceInv, NEW n \in Opened, handle[n].pinning # 0, NEW v \in Vlogs, Place(n, v)
    PROVE  /\ Settled(n)
           /\ \A i \in Extents : \/ CacheIn(handle', n)[i] = CacheIn(handle, n)[i]
                                 \/ CacheIn(handle', n)[i] = <<PinnedHash(n), v>>
<1> DEFINE i == handle[n].pinning  slot == <<PinnedHash(n), v>>
           cache == IF Closes(n) THEN handle[n].cache ELSE [CacheOf(n) EXCEPT ![i] = slot]
           new == [handle[n] EXCEPT !.pinning = 0, !.already = FALSE, !.cache = cache]
<1>1. ServiceTypeOK
  BY DEF ServiceInv
<1>2. /\ n \in Handles /\ handle[n] \in FileHandle /\ handle[n] # NoHandle /\ i \in Extents /\ PinnedHash(n) \in Hashes
  BY BusyHandle
<1>3. /\ handle' = [handle EXCEPT ![n].pinning = 0, ![n].already = FALSE, ![n].cache = cache]
      /\ call' = IF Closes(n) THEN [call EXCEPT !.plan[i] = slot] ELSE call
  BY Zenon DEF Place, PinnedHash
<1>4. slot \in Slots
  BY <1>2, SlotTypes
<1>5. CacheOf(n) \in Plans /\ CacheOf(n) = CacheIn(handle, n) /\ handle[n].cache \in Plans \cup {NoCache}
  BY <1>1, CacheType, HandleFields, TablesSpelledOut
<1> HIDE DEF slot, i
<1>6. [CacheOf(n) EXCEPT ![i] = slot] \in Plans
  BY <1>2, <1>4, <1>5 DEF Plans
<1>7. cache \in Plans \cup {NoCache}
  BY <1>5, <1>6
<1>8. ~Closes(n) => cache = [CacheOf(n) EXCEPT ![i] = slot]
  OBVIOUS
<1>9. Closes(n) => cache = handle[n].cache
  OBVIOUS
<1> HIDE DEF cache
<1>10. handle' = [handle EXCEPT ![n] = new]
  BY <1>1, <1>2, <1>3 DEF ServiceTypeOK
<1>11. /\ new \in FileHandle /\ new.key = handle[n].key /\ new.chunks = handle[n].chunks /\ new.cache = cache
       /\ new.unlinked = handle[n].unlinked /\ new.lost = handle[n].lost /\ new.pinning = 0
  BY <1>2, <1>7 DEF FileHandle, Plans
<1> HIDE DEF new
<1>12. handle'[n] = new /\ \A m \in Handles \ {n} : handle'[m] = handle[m]
  BY <1>1, <1>2, <1>10 DEF ServiceTypeOK
<1>13. handle' \in [Handles -> FileHandle \cup {NoHandle}] /\ handle'[n] # NoHandle
  BY <1>1, <1>10, <1>11, <1>12, NoHandleAssumption DEF ServiceTypeOK
<1>14. /\ call' \in Calls
       /\ \/ call' = call
          \/ call.step = "plan" /\ call.handle = n /\ call'.step = "plan" /\ call'.handle = n
  <2>1. CASE Closes(n)
    <3>1. call.step = "plan" /\ call.handle = n /\ call' = [call EXCEPT !.plan[i] = slot]
      BY <1>3, <2>1 DEF Closes
    <3>2. call \in [step : CloseSteps, handle : Handles, remove : BOOLEAN, plan : Plans] /\ call.plan \in Plans
      BY <1>1, <3>1, CallFields DEF CloseSteps
    <3>3. [call.plan EXCEPT ![i] = slot] \in Plans
      BY <1>2, <1>4, <3>2 DEF Plans
    <3>4. call' = [call EXCEPT !.plan = [call.plan EXCEPT ![i] = slot]]
      BY <3>1
    <3>5. call' \in [step : CloseSteps, handle : Handles, remove : BOOLEAN, plan : Plans]
          /\ call'.step = "plan" /\ call'.handle = n
      BY <3>1, <3>2, <3>3, <3>4
    <3> QED BY <3>1, <3>5 DEF Calls
  <2>2. CASE ~Closes(n)
    BY <1>1, <1>3, <2>2 DEF ServiceTypeOK
  <2> QED BY <2>1, <2>2
<1>15. ASSUME NEW j \in Extents PROVE CacheIn(handle', n)[j] = CacheIn(handle, n)[j] \/ CacheIn(handle', n)[j] = slot
  <2>1. CASE Closes(n)
    BY <1>9, <1>11, <1>12, <2>1 DEF CacheIn
  <2>2. CASE ~Closes(n)
    <3>1. cache # NoCache
      BY <1>6, <1>8, <2>2, PlanIsCache
    <3>2. CacheIn(handle', n) = cache
      BY <1>11, <1>12, <3>1 DEF CacheIn
    <3> QED BY <1>2, <1>5, <1>8, <2>2, <3>2 DEF Plans
  <2> QED BY <2>1, <2>2
<1>16. Settled(n)
  BY <1>11, <1>12, <1>13, <1>14 DEF Settled
<1> QED BY <1>15, <1>16 DEF slot

\* The step that settles a chunk: it takes back at most the pin it had put, and
\* what it places is in a row or in the operation's leased vlog.
LEMMA SettledStep ==
    ASSUME ServiceInv, NEW n \in Opened, handle[n].pinning # 0, Settled(n), [Next]_catalogVars,
           handlePins' = handlePins, compaction' = compaction, job' = job,
           rows' = rows, location' = location, refcount' = refcount, opState' = opState,
           stored \subseteq stored', stored' \subseteq Hashes \X Vlogs, ahead' \subseteq Vlogs,
           \A v \in Vlogs : lease[v] # NoKey => lease'[v] = lease[v],
           compaction # NoCompaction => lease' = lease,
           \/ opPins' = opPins
           \/ UnpinMissed(n, PinnedHash(n)),
           \A i \in Extents :
              \/ CacheIn(handle', n)[i] = CacheIn(handle, n)[i]
              \/ LET slot == CacheIn(handle', n)[i] IN
                 \/ slot[1] = PinnedHash(n) /\ slot[1] \in rows /\ opPins' = opPins
                 \/ slot \in stored' /\ lease'[slot[2]] = handle[n].key
    PROVE  Sound
<1> DEFINE key == handle[n].key
<1>1. /\ n \in Handles /\ Busy(handle, n) /\ handle[n] # NoHandle /\ key \in Keys
      /\ PinnedHash(n) = StoringIn(handle, call, n)[1]
      /\ opState[key] = "prepared" => PinnedHash(n) \in opPins[key]
      /\ \A m \in Handles \ {n} : Busy(handle, m) => handle[m].key # key
      /\ call.step \in CloseSteps => call.handle # n \/ Closes(n)
  BY BusyHandle
<1>2. ServiceTypeOK /\ opPins \in [Keys -> SUBSET Hashes]
  BY DEF ServiceInv, ServiceTypeOK
<1>3. /\ opPins' \in [Keys -> SUBSET Hashes] /\ \A k \in Keys \ {key} : opPins'[k] = opPins[k]
      /\ opPins[key] \subseteq opPins'[key] \/ (~handle[n].already /\ opPins[key] \subseteq opPins'[key] \cup {PinnedHash(n)})
  <2>1. CASE opPins' = opPins
    BY <1>2, <2>1
  <2>2. CASE opPins' = [opPins EXCEPT ![key] = IF handle[n].already THEN @ ELSE @ \ {PinnedHash(n)}]
    BY <1>1, <1>2, <2>2
  <2> QED BY <2>1, <2>2 DEF UnpinMissed
<1>4. ServiceTypeOK'
  BY <1>2, <1>3 DEF ServiceTypeOK, Settled
<1>5. Storing(n)
  BY <1>1, <1>3, NoKeyAssumption DEF Storing, Settled
<1>6. ~Busy(handle', n) /\ handle'[n].key = key /\ handle'[n].pinning = 0
  BY DEF Settled, Busy
<1>7. \A h : ~TransientIn(handle', call', key, h)
  BY <1>1, <1>5, <1>6, StoringTransient
<1>8. ASSUME NEW h \in opPins[key], ~TransientIn(handle, call, key, h) PROVE h \in opPins'[key]
  <2>1. TransientIn(handle, call, key, h) <=> Busy(handle, n) /\ ~handle[n].already /\ StoringIn(handle, call, n)[1] = h
    BY <1>1, <1>5, StoringTransient
  <2> QED BY <1>1, <1>3, <1>8, <2>1
<1>9. ASSUME NEW i \in Extents, CacheIn(handle', n)[i] # CacheIn(handle, n)[i], opState[key] = "prepared"
      PROVE  KeptIn(handle', call', rows', opPins', stored', lease', n, CacheIn(handle', n)[i])
  <2> DEFINE slot == CacheIn(handle', n)[i]
  <2>1. \/ slot[1] = PinnedHash(n) /\ slot[1] \in rows /\ opPins' = opPins
        \/ slot \in stored' /\ lease'[slot[2]] = key
    BY <1>9
  <2> HIDE DEF slot
  <2>2. KeptIn(handle', call', rows', opPins', stored', lease', n, slot)
    BY <1>1, <1>6, <1>7, <1>9, <2>1 DEF KeptIn
  <2> QED BY <2>2 DEF slot
<1>10. call.step \in CloseSteps =>
          \/ call.handle = n /\ call.step = "plan"
          \/ call.handle # n /\ handle'[n].pinning = 0
  BY <1>1, <1>6 DEF Closes
<1> QED BY <1>1, <1>4, <1>5, <1>6, <1>7, <1>8, <1>9, <1>10, StoringStep

\* A live chunk is reused where it is (pinAndResolveChunk).
LEMMA ReuseSound ==
    ASSUME ServiceInv, NEW n \in Handles, ReuseChunk(n)
    PROVE  Sound
<1>1. /\ n \in Opened /\ handle[n].pinning # 0
      /\ Live(PinnedHash(n)) /\ Place(n, location[PinnedHash(n)])
      /\ UNCHANGED <<catalogVars, pinVars, storeVars, compaction, job>>
  BY Zenon DEF ReuseChunk, PinnedHash
<1>2. PinnedHash(n) \in rows /\ location[PinnedHash(n)] \in Vlogs
  BY <1>1 DEF Live, ServiceInv, CatalogInv, TypeOK
<1> DEFINE v == location[PinnedHash(n)]
<1>3. /\ Settled(n)
      /\ \A i \in Extents : \/ CacheIn(handle', n)[i] = CacheIn(handle, n)[i]
                            \/ CacheIn(handle', n)[i] = <<PinnedHash(n), v>>
  BY <1>1, <1>2, PlaceEffect
<1>4. /\ opPins' = opPins /\ handlePins' = handlePins /\ stored' = stored /\ ahead' = ahead /\ compaction' = compaction /\ job' = job
      /\ rows' = rows /\ location' = location /\ refcount' = refcount /\ opState' = opState /\ lease' = lease
      /\ [Next]_catalogVars
  BY <1>1 DEF pinVars, storeVars, catalogVars, chunkVars, opVars
<1>5. stored' \subseteq Hashes \X Vlogs /\ ahead' \subseteq Vlogs
  BY <1>4 DEF ServiceInv, ServiceTypeOK
<1> HIDE DEF v
<1>6. ASSUME NEW i \in Extents
      PROVE  \/ CacheIn(handle', n)[i] = CacheIn(handle, n)[i]
             \/ CacheIn(handle', n)[i][1] = PinnedHash(n) /\ CacheIn(handle', n)[i][1] \in rows /\ opPins' = opPins
  BY <1>2, <1>3, <1>4, <1>6
<1> QED BY <1>1, <1>3, <1>4, <1>5, <1>6, SettledStep

\* The bytes of a missing chunk go to a vlog that the operation has leased.
LEMMA StoreSound ==
    ASSUME ServiceInv, NEW n \in Handles, NEW v \in Vlogs, StoreChunk(n, v)
    PROVE  Sound
<1> DEFINE key == handle[n].key
<1>1. /\ n \in Opened /\ handle[n].pinning # 0
      /\ compaction = NoCompaction
      /\ \/ lease[v] = key /\ UNCHANGED catalogVars
         \/ ClaimVlogLease(v, key)
      /\ Place(n, v)
      /\ UnpinMissed(n, PinnedHash(n))
      /\ stored' = stored \cup {<<PinnedHash(n), v>>}
      /\ ahead' = ahead \cup {v}
      /\ UNCHANGED <<handlePins, compaction, job>>
  BY Zenon DEF StoreChunk, PinnedHash
<1>2. key \in Keys /\ PinnedHash(n) \in Hashes
  BY <1>1, BusyHandle
<1>3. /\ Settled(n)
      /\ \A i \in Extents : \/ CacheIn(handle', n)[i] = CacheIn(handle, n)[i]
                            \/ CacheIn(handle', n)[i] = <<PinnedHash(n), v>>
  BY <1>1, PlaceEffect
<1>4. /\ rows' = rows /\ location' = location /\ refcount' = refcount /\ opState' = opState
      /\ lease'[v] = key /\ \A w \in Vlogs : lease[w] # NoKey => lease'[w] = lease[w]
  <2>1. CASE lease[v] = key /\ UNCHANGED catalogVars
    BY <2>1 DEF catalogVars, chunkVars, opVars
  <2>2. CASE ClaimVlogLease(v, key)
    BY <2>2 DEF ClaimVlogLease, chunkVars, opVars, ServiceInv, CatalogInv, TypeOK
  <2> QED BY <1>1, <2>1, <2>2
<1>5. [Next]_catalogVars
  BY <1>1, <1>2 DEF Next, Operations
<1>6. stored \subseteq stored' /\ stored' \subseteq Hashes \X Vlogs /\ ahead' \subseteq Vlogs /\ <<PinnedHash(n), v>> \in stored'
  BY <1>1, <1>2 DEF ServiceInv, ServiceTypeOK
<1>7. ASSUME NEW i \in Extents
      PROVE  \/ CacheIn(handle', n)[i] = CacheIn(handle, n)[i]
             \/ CacheIn(handle', n)[i] \in stored' /\ lease'[CacheIn(handle', n)[i][2]] = key
  <2>1. <<PinnedHash(n), v>>[2] = v
    OBVIOUS
  <2> QED BY <1>3, <1>4, <1>6, <1>7, <2>1, Zenon
<1> QED BY <1>1, <1>3, <1>4, <1>5, <1>6, <1>7, SettledStep

\* A failed store takes its pin back (planChunk).
LEMMA StoreFailsSound ==
    ASSUME ServiceInv, NEW n \in Handles, StoreFails(n)
    PROVE  Sound
<1>1. /\ n \in Opened /\ handle[n].pinning # 0
      /\ UnpinMissed(n, PinnedHash(n))
      /\ handle' = [handle EXCEPT ![n].pinning = 0, ![n].already = FALSE]
      /\ call' = IF Closes(n) THEN Free ELSE call
      /\ UNCHANGED <<catalogVars, handlePins, storeVars, compaction, job>>
  BY Zenon DEF StoreFails, PinnedHash
<1>2. ServiceTypeOK
  BY DEF ServiceInv
<1>3. handle[n] \in FileHandle
  BY <1>1, BusyHandle
<1> DEFINE new == [handle[n] EXCEPT !.pinning = 0, !.already = FALSE]
<1>4. handle' = [handle EXCEPT ![n] = new]
  BY <1>1, <1>2 DEF ServiceTypeOK
<1>5. /\ new \in FileHandle /\ new.key = handle[n].key /\ new.chunks = handle[n].chunks /\ new.cache = handle[n].cache
      /\ new.unlinked = handle[n].unlinked /\ new.lost = handle[n].lost /\ new.pinning = 0
  BY <1>3 DEF FileHandle
<1> HIDE DEF new
<1>6. handle'[n] = new /\ \A m \in Handles \ {n} : handle'[m] = handle[m]
  BY <1>2, <1>4 DEF ServiceTypeOK
<1>7. handle' \in [Handles -> FileHandle \cup {NoHandle}] /\ handle'[n] # NoHandle
  BY <1>2, <1>4, <1>5, <1>6, NoHandleAssumption DEF ServiceTypeOK
<1>8. /\ call' \in Calls
      /\ call' = call \/ (call.step = "plan" /\ call.handle = n /\ call'.step = "free")
  BY <1>1, <1>2 DEF Closes, Calls, Free, ServiceTypeOK
<1>9. Settled(n)
  BY <1>5, <1>6, <1>7, <1>8 DEF Settled
<1>10. CacheIn(handle', n) = CacheIn(handle, n)
  BY <1>5, <1>6 DEF CacheIn
<1>11. /\ handlePins' = handlePins /\ stored' = stored /\ ahead' = ahead /\ compaction' = compaction /\ job' = job
       /\ rows' = rows /\ location' = location /\ refcount' = refcount /\ opState' = opState /\ lease' = lease
       /\ [Next]_catalogVars
  BY <1>1 DEF storeVars, catalogVars, chunkVars, opVars
<1>12. stored' \subseteq Hashes \X Vlogs /\ ahead' \subseteq Vlogs
  BY <1>2, <1>11 DEF ServiceTypeOK
<1> QED BY <1>1, <1>9, <1>10, <1>11, <1>12, SettledStep

-----------------------------------------------------------------------------
(* Maintenance.                                                            *)

\* A step of maintenance that leaves handles and calls alone and fits the frames.
LEMMA MaintenanceStep ==
    ASSUME ServiceInv, [Next]_catalogVars, UNCHANGED <<handle, pinVars, call>>,
           stored' \subseteq Hashes \X Vlogs, ahead' \subseteq Vlogs, compaction' \in Compactions,
           job' \in [Vlogs -> Vlogs \cup {NoVlog}],
           OpsFrame, ContentFrame, RowsHaveBytes', CompactionInv'
    PROVE  Sound
<1>1. handle' = handle /\ opPins' = opPins /\ handlePins' = handlePins /\ call' = call
  BY DEF pinVars
<1>2. ServiceTypeOK'
  BY <1>1 DEF ServiceInv, ServiceTypeOK
<1>3. SameHandles /\ PlanFrame
  BY <1>1 DEF SameHandles, PlanFrame
<1>4. CloseFrame
  BY <1>1 DEF CloseFrame, ServiceInv, CloseHoldsHandle, Opened
<1>5. /\ \A n \in Handles : PinFrame(n)
      /\ \A n \in Handles : handle'[n] # NoHandle => Carried(n) \/ Fresh(n)
  BY <1>3, SameHandlesFrame
<1>6. CloseHoldsHandle'
  BY <1>4, <1>5, CloseKept
<1>7. HandleParts'
  BY <1>2, <1>5, PartsStep
<1>8. CatalogInv'
  BY CatalogStep DEF ServiceInv
<1> QED BY <1>2, <1>6, <1>7, <1>8, PartsMakeInv DEF Sound

\* Collection spares what is pinned; new vlogs disturb nothing.
LEMMA CollectSound ==
    ASSUME ServiceInv, CollectChunks \/ CollectVersions \/ \E v \in Vlogs : ProvisionVlog(v)
    PROVE  Sound
<1>1. ServiceTypeOK /\ TypeOK
  BY DEF ServiceInv, CatalogInv
<1>2. /\ compaction = NoCompaction /\ handle' = handle /\ opPins' = opPins /\ handlePins' = handlePins
      /\ stored' = stored /\ ahead' = ahead /\ call' = call /\ compaction' = compaction /\ job' = job
  BY DEF CollectChunks, CollectVersions, ProvisionVlog, serviceVars
<1>3. Pinned \in SUBSET Hashes
  BY <1>1 DEF Pinned, ServiceTypeOK
<1>4. /\ [Next]_catalogVars /\ opState' = opState /\ lease' = lease /\ location' = location /\ rows' \subseteq rows
      /\ rows \cap Pinned \subseteq rows'
  <2>1. CASE CollectChunks
    <3>1. GCChunks(Pinned)
      BY <2>1 DEF CollectChunks
    <3>2. [Next]_catalogVars
      BY <1>3, <3>1 DEF Next, Reclamation
    <3> HIDE DEF Pinned
    <3> QED BY <3>1, <3>2 DEF GCChunks, opVars
  <2>2. CASE CollectVersions
    BY <2>2 DEF CollectVersions, Next, Reclamation, GCFileVersions, chunkVars, opVars
  <2>3. ASSUME NEW v \in Vlogs, ProvisionVlog(v)
        PROVE  /\ [Next]_catalogVars /\ opState' = opState /\ lease' = lease /\ location' = location /\ rows' = rows
    BY <2>3 DEF ProvisionVlog, Next, Reclamation, MakeVlog, chunkVars, opVars
  <2> QED BY <2>1, <2>2, <2>3
<1>5. OpsFrame
  BY <1>4 DEF OpsFrame
<1>6. ContentFrame
  BY <1>2, <1>4 DEF ContentFrame
<1>7. RowsHaveBytes'
  BY <1>2, <1>4 DEF ServiceInv, RowsHaveBytes
<1>8. CompactionInv'
  BY <1>2 DEF CompactionInv
<1>9. UNCHANGED <<handle, pinVars, call>>
  BY <1>2 DEF pinVars
<1> QED BY <1>1, <1>2, <1>4, <1>5, <1>6, <1>7, <1>8, <1>9, MaintenanceStep DEF ServiceTypeOK

\* Compaction copies what is live before it moves a row, and retires its source
\* when nothing in it is live or pinned (CompactVlog, retireVlogLocked).
LEMMA CompactSound ==
    ASSUME ServiceInv,
           \/ \E source, dest \in Vlogs : CompactBegin(source, dest)
           \/ \E h \in Hashes : CompactRelocate(h)
           \/ CompactFinish
           \/ CompactFails
    PROVE  Sound
<1>1. ServiceTypeOK /\ TypeOK /\ RowsHaveBytes /\ CompactionInv
  BY DEF ServiceInv, CatalogInv
<1>2. UNCHANGED <<handle, pinVars, call>> /\ opPins' = opPins
  BY DEF CompactBegin, CompactRelocate, CompactFinish, CompactFails, pinVars
<1>3. ASSUME NEW source \in Vlogs, NEW dest \in Vlogs, CompactBegin(source, dest) PROVE Sound
  <2>1. /\ compaction = NoCompaction /\ vlog[source] = "active" /\ lease[source] = NoKey /\ ~RunningDestination(source)
        /\ (job[source] = NoVlog /\ MakeVlog(dest)) \/ (job[source] = dest /\ UNCHANGED catalogVars)
        /\ job' = [job EXCEPT ![source] = dest]
        /\ stored' = stored \cup CopiedChunks(source, dest)
        /\ compaction' = [step |-> "relocate", source |-> source, dest |-> dest, todo |-> LiveChunksInVlog(source)]
        /\ ahead' = ahead
    BY <1>3 DEF CompactBegin
  <2>2. dest # source
    BY <2>1 DEF MakeVlog, RunningDestination
  <2>3. /\ [Next]_catalogVars /\ opState' = opState /\ lease' = lease
        /\ rows' = rows /\ location' = location /\ refcount' = refcount
    <3>1. CASE MakeVlog(dest)
      BY <3>1 DEF Next, Reclamation, MakeVlog, chunkVars, opVars
    <3>2. CASE UNCHANGED catalogVars
      BY <3>2 DEF catalogVars, chunkVars, opVars
    <3> QED BY <2>1, <3>1, <3>2
  <2>4. LiveChunksInVlog(source) \subseteq Hashes /\ LiveChunksInVlog(source)' = LiveChunksInVlog(source)
    BY <1>1, <2>3 DEF LiveChunksInVlog, TypeOK
  <2>5. stored \subseteq stored' /\ stored' \subseteq Hashes \X Vlogs /\ LiveChunksInVlog(source) \X {dest} \subseteq stored'
    BY <1>1, <2>1, <2>4 DEF CopiedChunks, ServiceTypeOK
  <2>6. compaction'.dest = dest /\ compaction'.source = source /\ compaction'.todo = LiveChunksInVlog(source)
    BY <2>1
  <2>7. CompactionInv'
    BY <2>1, <2>2, <2>3, <2>4, <2>5, <2>6 DEF CompactionInv, LiveChunksInVlog
  <2>8. RowsHaveBytes'
    BY <1>1, <2>3, <2>5 DEF RowsHaveBytes
  <2>9. compaction' \in Compactions
    BY <2>1, <2>4 DEF Compactions
  <2>10. job' \in [Vlogs -> Vlogs \cup {NoVlog}] /\ ahead' \subseteq Vlogs
    BY <1>1, <2>1 DEF ServiceTypeOK
  <2>11. OpsFrame /\ ContentFrame
    BY <1>2, <2>3, <2>5 DEF OpsFrame, ContentFrame
  <2> QED BY <1>2, <2>3, <2>5, <2>7, <2>8, <2>9, <2>10, <2>11, MaintenanceStep
<1>4. ASSUME NEW h \in Hashes, CompactRelocate(h) PROVE Sound
  <2> DEFINE dest == compaction.dest  source == compaction.source
  <2>1. /\ compaction.step = "relocate" /\ h \in compaction.todo /\ RelocateChunk(h, dest)
        /\ compaction' = [compaction EXCEPT !.todo = @ \ {h}]
        /\ stored' = stored /\ ahead' = ahead /\ job' = job
    BY <1>4 DEF CompactRelocate, storeVars
  <2>2. compaction # NoCompaction
    BY <2>1 DEF NoCompaction
  <2>3. compaction \in [step : {"relocate"}, source : Vlogs, dest : Vlogs, todo : SUBSET Hashes]
        /\ dest \in Vlogs /\ source \in Vlogs
    BY <1>1, <2>2, CompactionFields
  <2>4. /\ compaction' \in [step : {"relocate"}, source : Vlogs, dest : Vlogs, todo : SUBSET Hashes]
        /\ compaction'.dest = dest /\ compaction'.source = source /\ compaction'.todo = compaction.todo \ {h}
    BY <2>1, <2>3
  <2>5. /\ dest # source /\ lease[source] = NoKey
        /\ \A g \in compaction.todo : <<g, dest>> \in stored
        /\ \A g \in rows : refcount[g] > 0 /\ location[g] = source => g \in compaction.todo
    BY <1>1, <2>2 DEF CompactionInv, LiveChunksInVlog
  <2> HIDE DEF dest, source
  <2>6. /\ [Next]_catalogVars /\ opState' = opState /\ lease' = lease /\ rows' = rows /\ refcount' = refcount
        /\ location'[h] = dest /\ \A g \in Hashes \ {h} : location'[g] = location[g]
    <3>1. [Next]_catalogVars
      BY <2>1, <2>3 DEF Next, Reclamation
    <3> QED BY <1>1, <2>1, <3>1 DEF RelocateChunk, opVars, TypeOK
  <2>7. RowsHaveBytes'
    <3>1. \A g \in rows : <<g, location'[g]>> \in stored
      BY <1>1, <2>1, <2>5, <2>6 DEF RowsHaveBytes, TypeOK
    <3> QED BY <2>1, <2>6, <3>1 DEF RowsHaveBytes
  <2>8. CompactionInv'
    <3>1. \A g \in rows : refcount[g] > 0 /\ location'[g] = source => g \in compaction.todo \ {h}
      BY <1>1, <2>5, <2>6 DEF TypeOK
    <3> QED BY <2>1, <2>4, <2>5, <2>6, <3>1 DEF CompactionInv, LiveChunksInVlog
  <2>9. OpsFrame /\ ContentFrame
    BY <1>2, <2>1, <2>6 DEF OpsFrame, ContentFrame
  <2>10. compaction' \in Compactions
    BY <2>4 DEF Compactions
  <2> QED BY <1>1, <1>2, <2>1, <2>6, <2>7, <2>8, <2>9, <2>10, MaintenanceStep DEF ServiceTypeOK
<1>5. ASSUME CompactFinish \/ CompactFails PROVE compaction # NoCompaction /\ compaction' = NoCompaction /\ job' = job
  BY <1>5 DEF CompactFinish, CompactFails, NoCompaction
<1>6. ASSUME CompactFinish \/ CompactFails, UNCHANGED <<catalogVars, storeVars>> PROVE Sound
  <2>1. /\ stored' = stored /\ ahead' = ahead
        /\ opState' = opState /\ lease' = lease /\ rows' = rows /\ location' = location
    BY <1>6 DEF storeVars, catalogVars, chunkVars, opVars
  <2>2. OpsFrame /\ ContentFrame
    BY <1>2, <2>1 DEF OpsFrame, ContentFrame
  <2>3. RowsHaveBytes' /\ CompactionInv' /\ compaction' \in Compactions
    BY <1>1, <1>5, <1>6, <2>1 DEF RowsHaveBytes, CompactionInv, Compactions
  <2>4. [Next]_catalogVars
    BY <1>6
  <2> QED BY <1>1, <1>2, <1>5, <1>6, <2>1, <2>2, <2>3, <2>4, MaintenanceStep DEF ServiceTypeOK
<1>7. CASE CompactFails
  BY <1>6, <1>7 DEF CompactFails
<1>8. CASE CompactFinish
  <2> DEFINE source == compaction.source
  <2>1. CASE \E h \in rows \cap Pinned : location[h] = source
    BY <1>6, <1>8, <2>1 DEF CompactFinish
  <2>2. CASE \A h \in rows \cap Pinned : location[h] # source
    <3>1. RetireVlog(source) /\ stored' = {b \in stored : b[2] # source} /\ ahead' = ahead \ {source}
      BY <1>8, <2>2, Zenon DEF CompactFinish
    <3>2. source \in Vlogs /\ lease[source] = NoKey
      BY <1>1, <1>5, <1>8, CompactionFields DEF CompactionInv
    <3> HIDE DEF source
    <3>3. /\ [Next]_catalogVars /\ opState' = opState /\ location' = location
          /\ rows' = {h \in rows : location[h] # source} /\ lease' = [lease EXCEPT ![source] = NoKey]
      BY <3>1, <3>2 DEF Next, Reclamation, RetireVlog, opVars
    <3>4. \A v \in Vlogs : lease'[v] = lease[v]
      BY <1>1, <3>2, <3>3 DEF TypeOK
    <3>5. OpsFrame
      BY <3>3, <3>4 DEF OpsFrame
    <3>6. ContentFrame
      BY <1>2, <2>2, <3>1, <3>2, <3>3 DEF ContentFrame
    <3>7. RowsHaveBytes'
      <4>1. \A h \in rows' : <<h, location[h]>> \in stored /\ location[h] # source
        BY <1>1, <3>3 DEF RowsHaveBytes
      <4>2. \A h \in rows' : <<h, location[h]>> \in stored'
        BY <3>1, <4>1
      <4> QED BY <3>3, <4>2 DEF RowsHaveBytes
    <3>8. CompactionInv' /\ compaction' \in Compactions
      BY <1>5, <1>8 DEF CompactionInv, Compactions
    <3>9. stored' \subseteq Hashes \X Vlogs /\ ahead' \subseteq Vlogs /\ job' \in [Vlogs -> Vlogs \cup {NoVlog}]
      BY <1>1, <1>5, <1>8, <3>1 DEF ServiceTypeOK
    <3> QED BY <1>2, <3>3, <3>5, <3>6, <3>7, <3>8, <3>9, MaintenanceStep
  <2> QED BY <2>1, <2>2
<1> QED BY <1>3, <1>4, <1>7, <1>8

\* After a crash there is no handle and no pin, and rows still name bytes.
LEMMA CrashSound ==
    ASSUME ServiceInv, Crash
    PROVE  Sound
<1>1. ServiceTypeOK /\ TypeOK /\ RowsHaveBytes
  BY DEF ServiceInv, CatalogInv
<1>2. /\ handle' = [n \in Handles |-> NoHandle]
      /\ opPins' = [k \in Keys |-> {}]
      /\ handlePins' = [n \in Handles |-> {}]
      /\ stored' = {b \in stored : b[1] \in rows /\ location[b[1]] = b[2]}
      /\ ahead' = {} /\ call' = Free /\ compaction' = NoCompaction /\ job' = job
      /\ rows' = rows /\ location' = location /\ [Next]_catalogVars
  BY DEF Crash, catalogVars, chunkVars
<1>3. ServiceTypeOK'
  BY <1>1, <1>2 DEF ServiceTypeOK, Calls, Compactions
<1>4. RowsHaveBytes'
  BY <1>1, <1>2 DEF RowsHaveBytes
<1>5. CloseHoldsHandle' /\ CompactionInv'
  BY <1>2 DEF CloseHoldsHandle, CompactionInv, Free, CloseSteps
<1>6. \A n \in Handles : handle'[n] = NoHandle /\ ~Busy(handle', n)
  BY <1>2 DEF Busy
<1>7. HandleParts'
  BY <1>6, PartsNext, Zenon DEF PinnedIn, BoundIn, OneIn, SlotsIn
<1>8. CatalogInv'
  BY <1>2, CatalogStep DEF ServiceInv
<1> QED BY <1>2, <1>3, <1>4, <1>5, <1>7, <1>8, PartsMakeInv DEF Sound

-----------------------------------------------------------------------------
(* The theorems.                                                           *)

\* The service starts without handles and bytes, on an empty catalog.
LEMMA ServiceInitInv == ServiceInit => ServiceInv
<1> SUFFICES ASSUME ServiceInit PROVE ServiceInv
  OBVIOUS
<1>1. CatalogInv /\ rows = {}
  BY InitInv DEF ServiceInit, Init
<1>2. ServiceTypeOK
  BY DEF ServiceInit, ServiceTypeOK, Calls, Compactions
<1>3. RowsHaveBytes /\ CloseHoldsHandle /\ CompactionInv
  BY <1>1 DEF ServiceInit, RowsHaveBytes, CloseHoldsHandle, CompactionInv, Free, CloseSteps
<1>4. Opened = {}
  BY DEF ServiceInit, Opened
<1>5. PinnedContentSurvives /\ HandlesBound /\ OnePinAtATime /\ SlotsKept
  BY <1>4 DEF PinnedContentSurvives, HandlesBound, OnePinAtATime, SlotsKept, Pinning
<1> QED BY <1>1, <1>2, <1>3, <1>5 DEF ServiceInv

\* Every step of the service keeps the invariant and is a transaction of the
\* catalog or leaves it alone.
LEMMA ServiceStep ==
    ASSUME ServiceInv, [ServiceNext]_<<catalogVars, serviceVars>>
    PROVE  Sound
<1>1. CASE HandleSteps
  BY <1>1, OpenSound, EnsureSound, RefreshSound, WriteSound, PinSound, ReuseSound, StoreFailsSound, StoreSound, Zenon DEF HandleSteps
<1>2. CASE FinishSteps
  BY <1>2, FinishSound, CommittedSound, ReleaseSound, FinishCommittedSound, BeginSound, CallsSound, PublishSound, MarkingSound, Zenon DEF FinishSteps
<1>3. CASE NamespaceSteps
  BY <1>3, CallsSound, MarkingSound, TransactionsSound, Zenon DEF NamespaceSteps
<1>4. CASE MaintenanceSteps
  BY <1>4, TransactionsSound, CollectSound, CompactSound, CrashSound, Zenon DEF MaintenanceSteps
<1>5. CASE UNCHANGED <<catalogVars, serviceVars>>
  BY <1>5, MemorySame
<1> QED BY <1>1, <1>2, <1>3, <1>4, <1>5 DEF ServiceNext

\* The inductive invariant of the file service holds in every reachable state,
\* for any numbers of handles, keys, chunks, vlogs and extents (package server).
THEOREM ServiceInvariance == ServiceSpec => []ServiceInv
<1>1. ServiceInv /\ [ServiceNext]_<<catalogVars, serviceVars>> => ServiceInv'
  BY ServiceStep DEF Sound
<1> QED
  BY ServiceInitInv, <1>1, PTL DEF ServiceSpec

\* Everything the service does to the catalog is one of its transactions
\* (api.go, maintenance.go and reaper.go through package meta).
THEOREM ServiceUsesCatalog == ServiceSpec => UsesCatalog
<1>1. ServiceInv /\ [ServiceNext]_<<catalogVars, serviceVars>> => [Next]_catalogVars
  BY ServiceStep DEF Sound
<1> QED
  BY ServiceInvariance, <1>1, PTL DEF ServiceSpec, UsesCatalog

\* So the service implements the catalog, and what is proved of the catalog holds
\* under it: exact reference counts, nothing owned is collected, outcomes are
\* decided once.
THEOREM ServiceImplementsCatalog ==
    ServiceSpec => Spec /\ []RefcountsExact /\ []OwnedVersionsIntact /\ OutcomesStable
<1>1. ServiceInit => Init
  BY DEF ServiceInit
<1>2. ServiceSpec => Spec
  BY <1>1, ServiceUsesCatalog, PTL DEF ServiceSpec, UsesCatalog, Spec
<1> QED
  BY <1>2, RefcountsCorrect, NothingOwnedIsCollected, OutcomesDecidedOnce, PTL

\* Every chunk row names bytes that exist (publishPreparedVersion, CompactVlog,
\* retireVlogLocked and a crash between their steps).
THEOREM RowsNameBytes == ServiceSpec => []RowsHaveBytes
<1>1. ServiceInv => RowsHaveBytes
  BY DEF ServiceInv
<1> QED
  BY ServiceInvariance, <1>1, PTL

\* The content a head, a snapshot or a retained result owns is on disk.
OwnedContentOnDisk ==
    \A f \in AllOwned, i \in Extents :
        file[f][i] # Hole => file[f][i] \in rows /\ <<file[f][i], location[file[f][i]]>> \in stored

\* Whatever collections, compactions and crashes run, no byte of a version that
\* is owned is lost (GCChunks with pins, CompactVlog, recovery).
THEOREM OwnedContentIsOnDisk == ServiceSpec => []OwnedContentOnDisk
<1>1. RowsHaveBytes /\ OwnedVersionsIntact => OwnedContentOnDisk
  BY DEF RowsHaveBytes, OwnedVersionsIntact, OwnedContentOnDisk
<1> QED
  BY RowsNameBytes, ServiceImplementsCatalog, <1>1, PTL

\* What a handle has pinned survives: all of the version it shows, but for chunks
\* that were collected before a retried Flush pinned it (pinnedChunks of handles,
\* finishHandle, GCChunks, retireVlogLocked).
THEOREM OpenContentSurvives == ServiceSpec => []PinnedContentSurvives
<1>1. ServiceInv => PinnedContentSurvives
  BY DEF ServiceInv
<1> QED
  BY ServiceInvariance, <1>1, PTL

\* What an unfinished operation has stored or reused is there for its Close
\* (planChunk, pinAndResolveChunk, ClaimVlogLease).
THEOREM PlansSurvive == ServiceSpec => []PlannedContentSurvives
<1>1. ASSUME ServiceInv PROVE PlannedContentSurvives
  <2> SUFFICES ASSUME NEW n \in Opened, handle[n].key # NoKey, opState[handle[n].key] = "prepared",
                      NEW i \in Extents, CacheOf(n)[i][2] \in Vlogs
               PROVE  LET slot == CacheOf(n)[i] IN
                      slot[1] \in rows \cup handle[n].lost \/ (slot \in stored /\ lease[slot[2]] = handle[n].key)
    BY DEF PlannedContentSurvives
  <2>1. Kept(n, CacheOf(n)[i])
    BY <1>1 DEF ServiceInv, SlotsKept, Prepared
  <2>2. HashesOf(handle[n].chunks) \ handle[n].lost \subseteq rows
    BY <1>1 DEF ServiceInv, PinnedContentSurvives
  <2> QED BY <2>1, <2>2 DEF Kept
<1> QED
  BY ServiceInvariance, <1>1, PTL

\* A compaction that has moved its chunks can retire its source (CompactVlog).
THEOREM DrainedSourcesRetire == ServiceSpec => []DrainedSourceRetires
<1>1. ASSUME ServiceInv PROVE DrainedSourceRetires
  <2> SUFFICES ASSUME compaction # NoCompaction, compaction.todo = {}, NEW h \in rows, location[h] = compaction.source
               PROVE  refcount[h] <= 0
    BY DEF DrainedSourceRetires
  <2>1. refcount[h] \in Int
    BY <1>1 DEF ServiceInv, CatalogInv, TypeOK
  <2>2. ~(refcount[h] > 0)
    BY <1>1 DEF ServiceInv, CompactionInv, LiveChunksInVlog
  <2> QED BY <2>1, <2>2
<1> QED
  BY ServiceInvariance, <1>1, PTL
=============================================================================
