-------------------------- MODULE PublicationProofs --------------------------
(***************************************************************************)
(* Proofs about the names of FileService: a version is published under the *)
(* name its operation has, and an operation whose name is gone publishes   *)
(* nothing, as long as no Unlink or Rename loses its context midway.       *)
(***************************************************************************)
EXTENDS FileServiceProofs

\* The service while every Unlink and Rename that committed finishes its work on
\* the open handles (markOpenHandlesUnlinked, retargetOpenHandles).
NamesSpec == ServiceSpec /\ [][~NamespaceFails]_<<catalogVars, serviceVars>>

-----------------------------------------------------------------------------
(* What a step does with operations, names and calls.                      *)

\* No operation is created, renamed or committed.
OpsKept ==
    /\ opPath' = opPath
    /\ \A k \in Keys : opState'[k] = "prepared" => opState[k] = "prepared"
    /\ \A k \in Keys : opState'[k] = "committed" => opState[k] = "committed"

\* Transactions that create, rename and commit no operation.
Bystander ==
    \/ \E k \in Keys, id \in Vlogs : ClaimVlogLease(id, k)
    \/ \E k \in Keys, state \in {"abandoned", "cancelled"} : finishPreparedWriteOp(k, state)
    \/ ExpireWriteResults
    \/ \E p \in Paths : UnlinkFile(p)
    \/ \E id \in Snapshots : CreateSnapshot(id) \/ DeleteSnapshots({id})
    \/ Reclamation
    \/ Tick

\* They leave the operations their names, and end some (write_ops.go).
LEMMA BystanderKeeps ==
    ASSUME TypeOK, [Bystander]_catalogVars
    PROVE  OpsKept
<1> USE DEF OpsKept
<1>1. ASSUME NEW k \in Keys, NEW id \in Vlogs, ClaimVlogLease(id, k) PROVE OpsKept
  BY <1>1 DEF ClaimVlogLease, opVars
<1>2. ASSUME NEW k \in Keys, NEW state \in {"abandoned", "cancelled"}, finishPreparedWriteOp(k, state) PROVE OpsKept
  BY <1>2 DEF finishPreparedWriteOp, TypeOK
<1>3. ASSUME ExpireWriteResults PROVE OpsKept
  BY <1>3 DEF ExpireWriteResults
<1>4. ASSUME NEW p \in Paths, UnlinkFile(p) PROVE OpsKept
  BY <1>4 DEF UnlinkFile, Cancelled, PreparedAt
<1>5. ASSUME NEW id \in Snapshots, CreateSnapshot(id) \/ DeleteSnapshots({id}) PROVE OpsKept
  BY <1>5 DEF CreateSnapshot, DeleteSnapshots, opVars
<1>6. ASSUME Reclamation PROVE OpsKept
  BY <1>6 DEF Reclamation, GCChunks, GCFileVersions, MakeVlog, RelocateChunk, RetireVlog, opVars
<1>7. ASSUME Tick PROVE OpsKept
  BY <1>7 DEF Tick, opVars
<1>8. ASSUME UNCHANGED catalogVars PROVE OpsKept
  BY <1>8 DEF catalogVars, opVars
<1> QED BY <1>1, <1>2, <1>3, <1>4, <1>5, <1>6, <1>7, <1>8 DEF Bystander

\* A handle keeps its name and its operation, or has none.
NameKept(n) ==
    handle'[n] # NoHandle =>
        \/ handle'[n].key = NoKey
        \/ /\ handle[n] # NoHandle /\ handle'[n].key = handle[n].key
           /\ handle'[n].path = handle[n].path /\ handle'[n].unlinked = handle[n].unlinked

\* An Unlink or Rename in progress goes on.
NamesCallKept == call' = call \/ call.step \notin {"mark", "cancel"}

\* What is shown of every step but publication: names stay right and nothing is committed.
NamesSound ==
    /\ NamesInv'
    /\ \A k \in Keys : opState[k] = "prepared" => opState'[k] # "committed"

\* NamesInv with the tables it reads.
NamesIn(hs, c, states, paths) ==
    /\ \A n \in Handles :
          hs[n] # NoHandle /\ hs[n].key # NoKey /\ states[hs[n].key] = "prepared" /\ ~hs[n].unlinked =>
             \/ hs[n].path = paths[hs[n].key]
             \/ /\ c.step \in {"mark", "cancel"} /\ c.from # c.gone
                /\ hs[n].path = c.from /\ paths[hs[n].key] = c.gone
    /\ \A n \in Handles :
          hs[n] # NoHandle /\ hs[n].key # NoKey /\ states[hs[n].key] = "prepared" /\ hs[n].unlinked
             /\ hs[n].key \in ClientKeys => c.step = "cancel" /\ hs[n].key \in c.keys
    /\ \A m, n \in Handles :
          hs[m] # NoHandle /\ hs[n] # NoHandle /\ hs[m].key = hs[n].key /\ hs[n].key \in Keys \ ClientKeys => m = n

\* The definition is the invariant's.
LEMMA NamesNow == NamesInv <=> NamesIn(handle, call, opState, opPath)
BY Zenon DEF NamesInv, NamesIn, Prepared, Opened

\* The same after a step.
LEMMA NamesNext == NamesInv' <=> NamesIn(handle', call', opState', opPath')
<1>1. (NamesInv <=> NamesIn(handle, call, opState, opPath))'
  BY NamesNow, PTL
<1> QED BY <1>1

\* The keys of handles are keys (FileHandle).
LEMMA KeysOfHandles ==
    ASSUME ServiceInv
    PROVE  /\ \A n \in Handles : handle[n] # NoHandle => handle[n] \in FileHandle /\ handle[n].key \in Keys \cup {NoKey}
           /\ \A n \in Handles : handle[n] # NoHandle /\ handle[n].key # NoKey => opState[handle[n].key] # "none"
BY HandleFields DEF ServiceInv, HandlesBound, Opened

\* A step that neither opens nor renames keeps the names.
LEMMA NamesStay ==
    ASSUME ServiceInv, NamesInv, \A n \in Handles : NameKept(n), NamesCallKept,
           opPath' = opPath, \A k \in Keys : opState'[k] = "prepared" => opState[k] = "prepared"
    PROVE  NamesInv'
<1>1. NamesIn(handle, call, opState, opPath)
  BY NamesNow
<1>2. NamesIn(handle', call', opState', opPath')
  <2>1. ASSUME NEW n \in Handles, handle'[n] # NoHandle, handle'[n].key # NoKey
        PROVE  /\ handle[n] # NoHandle /\ handle'[n].key = handle[n].key /\ handle[n].key \in Keys
               /\ handle'[n].path = handle[n].path /\ handle'[n].unlinked = handle[n].unlinked
    BY <2>1, KeysOfHandles DEF NameKept
  <2>2. ASSUME NEW n \in Handles, handle'[n] # NoHandle, handle'[n].key # NoKey, opState'[handle'[n].key] = "prepared"
        PROVE  /\ ~handle'[n].unlinked =>
                     \/ handle'[n].path = opPath'[handle'[n].key]
                     \/ /\ call'.step \in {"mark", "cancel"} /\ call'.from # call'.gone
                        /\ handle'[n].path = call'.from /\ opPath'[handle'[n].key] = call'.gone
               /\ handle'[n].unlinked /\ handle'[n].key \in ClientKeys => call'.step = "cancel" /\ handle'[n].key \in call'.keys
    BY <1>1, <2>1, <2>2 DEF NamesIn, NamesCallKept
  <2>3. ASSUME NEW m \in Handles, NEW n \in Handles, handle'[m] # NoHandle, handle'[n] # NoHandle,
               handle'[m].key = handle'[n].key, handle'[n].key \in Keys \ ClientKeys
        PROVE  m = n
    BY <1>1, <2>1, <2>3, NoKeyAssumption DEF NamesIn
  <2> QED BY <2>2, <2>3, Zenon DEF NamesIn
<1> QED BY <1>2, NamesNext

\* If it commits nothing either, it is as every step but publication should be.
LEMMA NamesFrame ==
    ASSUME ServiceInv, NamesInv, OpsKept, \A n \in Handles : NameKept(n), NamesCallKept
    PROVE  NamesSound
BY NamesStay DEF NamesSound, OpsKept

\* A step that leaves handles and calls alone keeps the names.
LEMMA NamesMemory ==
    ASSUME ServiceInv, NamesInv, [Bystander]_catalogVars, handle' = handle, NamesCallKept
    PROVE  NamesSound
<1>1. OpsKept
  BY BystanderKeeps DEF ServiceInv, CatalogInv
<1>2. \A n \in Handles : NameKept(n)
  BY DEF NameKept
<1> QED BY <1>1, <1>2, NamesFrame

\* A step that changes one handle but not its name keeps the names.
LEMMA NamesOneHandle ==
    ASSUME ServiceInv, NamesInv, [Bystander]_catalogVars, NamesCallKept, NEW n \in Handles, NameKept(n),
           \A m \in Handles \ {n} : handle'[m] = handle[m]
    PROVE  NamesSound
<1>1. OpsKept
  BY BystanderKeeps DEF ServiceInv, CatalogInv
<1>2. \A m \in Handles : NameKept(m)
  BY DEF NameKept
<1> QED BY <1>1, <1>2, NamesFrame

-----------------------------------------------------------------------------
(* Steps that rename nothing.                                              *)

\* Transactions on their own, maintenance, and the calls between their steps.
LEMMA MemoryNames ==
    ASSUME ServiceInv, NamesInv,
           \/ Expire \/ CollectChunks \/ CollectVersions
           \/ \E v \in Vlogs : ProvisionVlog(v)
           \/ \E id \in Snapshots : TakeSnapshot(id) \/ DropSnapshot(id)
           \/ \E source, dest \in Vlogs : CompactBegin(source, dest)
           \/ \E h \in Hashes : CompactRelocate(h)
           \/ CompactFinish \/ CompactFails
           \/ \E k \in Keys : ReapOperation(k)
           \/ rehomePublicationChunks \/ CloseFails \/ ReleaseCommitted
           \/ \E n \in Handles, remove \in BOOLEAN : CloseCommitted(n, remove)
           \/ \E p \in Paths : Unlink(p)
           \/ Tick /\ UNCHANGED serviceVars
    PROVE  NamesSound
<1>1. ServiceTypeOK
  BY DEF ServiceInv
<1>2. ASSUME [Bystander]_catalogVars, UNCHANGED serviceVars PROVE NamesSound
  BY <1>2, NamesMemory DEF serviceVars, NamesCallKept
<1>3. CASE Expire
  BY <1>2, <1>3 DEF Expire, Bystander
<1>4. CASE CollectChunks
  <2>1. Pinned \in SUBSET Hashes
    BY <1>1 DEF Pinned, ServiceTypeOK
  <2>2. GCChunks(Pinned) /\ UNCHANGED serviceVars
    BY <1>4 DEF CollectChunks
  <2> HIDE DEF Pinned
  <2> QED BY <1>2, <2>1, <2>2 DEF Bystander, Reclamation
<1>5. CASE CollectVersions
  BY <1>2, <1>5 DEF CollectVersions, Bystander, Reclamation
<1>6. ASSUME NEW v \in Vlogs, ProvisionVlog(v) PROVE NamesSound
  BY <1>2, <1>6 DEF ProvisionVlog, Bystander, Reclamation
<1>7. ASSUME NEW id \in Snapshots, TakeSnapshot(id) \/ DropSnapshot(id) PROVE NamesSound
  BY <1>2, <1>7 DEF TakeSnapshot, DropSnapshot, Bystander
<1>8. CASE Tick /\ UNCHANGED serviceVars
  BY <1>2, <1>8 DEF Bystander
<1>9. ASSUME NEW source \in Vlogs, NEW dest \in Vlogs, CompactBegin(source, dest) PROVE NamesSound
  <2>1. [Bystander]_catalogVars /\ handle' = handle /\ NamesCallKept
    BY <1>9 DEF CompactBegin, Bystander, Reclamation, NamesCallKept
  <2> QED BY <2>1, NamesMemory
<1>10. ASSUME NEW h \in Hashes, CompactRelocate(h) PROVE NamesSound
  <2>1. compaction # NoCompaction
    BY <1>10 DEF CompactRelocate, NoCompaction
  <2>2. compaction.dest \in Vlogs
    BY <1>1, <2>1, CompactionFields
  <2>3. [Bystander]_catalogVars /\ handle' = handle /\ NamesCallKept
    BY <1>10, <2>2 DEF CompactRelocate, Bystander, Reclamation, NamesCallKept
  <2> QED BY <2>3, NamesMemory
<1>11. CASE CompactFinish
  <2>1. compaction # NoCompaction
    BY <1>11 DEF CompactFinish, NoCompaction
  <2>2. compaction.source \in Vlogs
    BY <1>1, <2>1, CompactionFields
  <2>3. UNCHANGED catalogVars \/ RetireVlog(compaction.source)
    BY <1>11, Zenon DEF CompactFinish
  <2>4. [Bystander]_catalogVars
    BY <2>2, <2>3 DEF Bystander, Reclamation
  <2>5. handle' = handle /\ NamesCallKept
    BY <1>11 DEF CompactFinish, NamesCallKept
  <2> QED BY <2>4, <2>5, NamesMemory
<1>12. CASE CompactFails
  BY <1>12, NamesMemory DEF CompactFails, NamesCallKept
<1>13. ASSUME NEW k \in Keys, ReapOperation(k) PROVE NamesSound
  <2>1. [Bystander]_catalogVars /\ handle' = handle /\ NamesCallKept
    BY <1>13 DEF ReapOperation, Bystander, NamesCallKept
  <2> QED BY <2>1, NamesMemory
<1>14. CASE \/ rehomePublicationChunks \/ CloseFails \/ ReleaseCommitted
           \/ \E n \in Handles, remove \in BOOLEAN : CloseCommitted(n, remove)
  BY <1>14, NamesMemory
     DEF rehomePublicationChunks, CloseFails, ReleaseCommitted, CloseCommitted, MayFinish, Free, CloseSteps, NamesCallKept
<1>15. ASSUME NEW p \in Paths, Unlink(p) PROVE NamesSound
  <2>1. [Bystander]_catalogVars /\ handle' = handle /\ NamesCallKept
    BY <1>15 DEF Unlink, Bystander, NamesCallKept, Free
  <2> QED BY <2>1, NamesMemory
<1> QED BY <1>3, <1>4, <1>5, <1>6, <1>7, <1>8, <1>9, <1>10, <1>11, <1>12, <1>13, <1>14, <1>15

\* Reads, writes, spills and the beginning of a Close.
LEMMA HandleNames ==
    ASSUME ServiceInv, NamesInv, NEW n \in Handles,
           \/ \E p \in Paths : Open(n, p)
           \/ \E id \in Snapshots, p \in Paths : OpenSnapshot(n, id, p)
           \/ \E i \in Extents, h \in Hashes : Write(n, i, h)
           \/ \E i \in Extents : Truncate(n, i) \/ PinChunk(n, i)
           \/ Refresh(n) \/ ReuseChunk(n) \/ StoreFails(n)
           \/ \E v \in Vlogs : StoreChunk(n, v)
           \/ \E remove \in BOOLEAN : BeginPublish(n, remove)
    PROVE  NamesSound
<1>1. ServiceTypeOK /\ handle \in [Handles -> FileHandle \cup {NoHandle}]
  BY DEF ServiceInv, ServiceTypeOK
<1> DEFINE Goal == NameKept(n) /\ \A m \in Handles \ {n} : handle'[m] = handle[m]
<1>2. ASSUME NEW new, handle' = [handle EXCEPT ![n] = new], new.key = NoKey PROVE Goal
  BY <1>1, <1>2 DEF NameKept
<1>3. ASSUME NEW path, NEW f, NEW snap, Register(n, path, NoKey, f, snap) PROVE Goal /\ call' = call
  <2> DEFINE new == [path |-> path, snapshot |-> snap, key |-> NoKey, chunks |-> FileVersionChunks(f),
                     cache |-> IF NoKey = NoKey THEN NoCache ELSE FileVersionChunks(f),
                     unlinked |-> FALSE, writeTouched |-> FALSE, pinning |-> 0, already |-> FALSE, lost |-> {}]
  <2>1. handle' = [handle EXCEPT ![n] = new] /\ call' = call
    BY <1>3, Zenon DEF Register
  <2>2. new.key = NoKey
    OBVIOUS
  <2> HIDE DEF new
  <2> QED BY <1>2, <2>1, <2>2
<1>4. ASSUME n \in Opened, NEW new, handle' = [handle EXCEPT ![n] = new],
             new.key = handle[n].key, new.path = handle[n].path, new.unlinked = handle[n].unlinked
      PROVE  Goal
  BY <1>1, <1>4 DEF NameKept, Opened
<1>5. ASSUME n \in Opened, NEW pinning, NEW already, NEW cache,
             handle' = [handle EXCEPT ![n].pinning = pinning, ![n].already = already, ![n].cache = cache]
      PROVE  Goal
  <2>1. handle[n] \in FileHandle
    BY <1>1, <1>5, HandleFields
  <2> DEFINE new == [handle[n] EXCEPT !.pinning = pinning, !.already = already, !.cache = cache]
  <2>2. handle' = [handle EXCEPT ![n] = new]
    BY <1>1, <1>5
  <2>3. new.key = handle[n].key /\ new.path = handle[n].path /\ new.unlinked = handle[n].unlinked
    BY <2>1 DEF FileHandle
  <2> HIDE DEF new
  <2> QED BY <1>4, <1>5, <2>2, <2>3
<1>6. ASSUME n \in Opened, NEW cache, NEW touched,
             handle' = [handle EXCEPT ![n].cache = cache, ![n].writeTouched = touched]
      PROVE  Goal
  <2>1. handle[n] \in FileHandle
    BY <1>1, <1>6, HandleFields
  <2> DEFINE new == [handle[n] EXCEPT !.cache = cache, !.writeTouched = touched]
  <2>2. handle' = [handle EXCEPT ![n] = new]
    BY <1>1, <1>6
  <2>3. new.key = handle[n].key /\ new.path = handle[n].path /\ new.unlinked = handle[n].unlinked
    BY <2>1 DEF FileHandle
  <2> HIDE DEF new
  <2> QED BY <1>4, <1>6, <2>2, <2>3
<1>7. ASSUME NEW p \in Paths, Open(n, p) PROVE NamesSound
  <2>1. Register(n, p, NoKey, head[p], FALSE) /\ UNCHANGED catalogVars
    BY <1>7 DEF Open
  <2> QED BY <1>3, <2>1, NamesOneHandle DEF NamesCallKept
<1>8. ASSUME NEW id \in Snapshots, NEW p \in Paths, OpenSnapshot(n, id, p) PROVE NamesSound
  <2>1. Register(n, p, NoKey, snapFile[<<id, p>>], TRUE) /\ UNCHANGED catalogVars
    BY <1>8 DEF OpenSnapshot
  <2> QED BY <1>3, <2>1, NamesOneHandle DEF NamesCallKept
<1>9. ASSUME NEW i \in Extents, NEW h \in Hashes, Write(n, i, h) PROVE NamesSound
  <2>1. n \in Opened /\ UNCHANGED <<catalogVars, call>>
    BY <1>9 DEF Write
  <2>2. PICK succeeds \in BOOLEAN :
          handle' = [handle EXCEPT ![n].cache = [CacheOf(n) EXCEPT ![i] = <<h, NoVlog>>],
                                   ![n].writeTouched = handle[n].writeTouched \/ succeeds]
    BY <1>9 DEF Write
  <2>3. Goal
    BY <1>6, <2>1, <2>2
  <2> QED BY <2>1, <2>3, NamesOneHandle DEF NamesCallKept
<1>10. ASSUME NEW i \in Extents, Truncate(n, i) PROVE NamesSound
  <2>1. /\ n \in Opened /\ UNCHANGED <<catalogVars, call>>
        /\ handle' = [handle EXCEPT ![n].cache = [j \in Extents |-> IF j < i THEN CacheOf(n)[j] ELSE Empty],
                                    ![n].writeTouched = TRUE]
    BY <1>10, Zenon DEF Truncate
  <2>2. Goal
    BY <1>6, <2>1
  <2> QED BY <2>1, <2>2, NamesOneHandle DEF NamesCallKept
<1>11. ASSUME NEW i \in Extents, PinChunk(n, i) PROVE NamesSound
  <2> DEFINE known == Pending(n)[i][1] \in opPins[handle[n].key]
             new == [handle[n] EXCEPT !.pinning = i, !.already = known]
  <2>1. /\ n \in Opened /\ UNCHANGED <<catalogVars, call>>
        /\ handle' = [handle EXCEPT ![n].pinning = i, ![n].already = known]
    BY <1>11, Zenon DEF PinChunk
  <2>2. handle[n] \in FileHandle
    BY <1>1, <2>1, HandleFields
  <2> HIDE DEF known
  <2>3. handle' = [handle EXCEPT ![n] = new]
    BY <1>1, <2>1
  <2>4. new.key = handle[n].key /\ new.path = handle[n].path /\ new.unlinked = handle[n].unlinked
    BY <2>2 DEF FileHandle
  <2> HIDE DEF new
  <2>5. Goal
    BY <1>4, <2>1, <2>3, <2>4
  <2> QED BY <2>1, <2>5, NamesOneHandle DEF NamesCallKept
<1>12. CASE Refresh(n)
  <2> DEFINE chunks == FileVersionChunks(opFile[handle[n].key])
             new == [handle[n] EXCEPT !.chunks = chunks, !.cache = NoCache, !.key = handle[n].key, !.writeTouched = FALSE, !.lost = {}]
  <2>1. /\ n \in Opened /\ UNCHANGED <<catalogVars, call>>
        /\ handle' = [handle EXCEPT ![n].chunks = chunks, ![n].cache = NoCache, ![n].key = handle[n].key, ![n].writeTouched = FALSE,
                                    ![n].lost = {}]
    BY <1>12, Zenon DEF Refresh, Rebase
  <2>2. handle[n] \in FileHandle
    BY <1>1, <2>1, HandleFields
  <2> HIDE DEF chunks
  <2>3. handle' = [handle EXCEPT ![n] = new]
    BY <1>1, <2>1
  <2>4. new.key = handle[n].key /\ new.path = handle[n].path /\ new.unlinked = handle[n].unlinked
    BY <2>2 DEF FileHandle
  <2> HIDE DEF new
  <2>5. Goal
    BY <1>4, <2>1, <2>3, <2>4
  <2> QED BY <2>1, <2>5, NamesOneHandle DEF NamesCallKept
<1>13. ASSUME n \in Opened, NEW v, Place(n, v), [Bystander]_catalogVars PROVE NamesSound
  <2> DEFINE slot == <<Pending(n)[handle[n].pinning][1], v>>
             cache == IF Closes(n) THEN handle[n].cache ELSE [CacheOf(n) EXCEPT ![handle[n].pinning] = slot]
  <2>1. /\ handle' = [handle EXCEPT ![n].pinning = 0, ![n].already = FALSE, ![n].cache = cache]
        /\ call' = IF Closes(n) THEN [call EXCEPT !.plan[handle[n].pinning] = slot] ELSE call
    BY <1>13, Zenon DEF Place
  <2> HIDE DEF cache
  <2>2. Goal
    BY <1>5, <1>13, <2>1
  <2>3. NamesCallKept
    BY <2>1 DEF Closes, NamesCallKept
  <2> QED BY <1>13, <2>2, <2>3, NamesOneHandle
<1>14. CASE ReuseChunk(n)
  BY <1>13, <1>14, Zenon DEF ReuseChunk
<1>15. ASSUME NEW v \in Vlogs, StoreChunk(n, v) PROVE NamesSound
  <2>1. n \in Opened /\ handle[n].pinning # 0 /\ Place(n, v) /\ (UNCHANGED catalogVars \/ ClaimVlogLease(v, handle[n].key))
    BY <1>15, Zenon DEF StoreChunk
  <2>2. handle[n].key \in Keys
    BY <2>1, BusyHandle
  <2> QED BY <1>13, <1>15, <2>1, <2>2 DEF Bystander
<1>16. CASE StoreFails(n)
  <2> DEFINE new == [handle[n] EXCEPT !.pinning = 0, !.already = FALSE]
  <2>1. /\ n \in Opened /\ UNCHANGED catalogVars
        /\ call' = IF Closes(n) THEN Free ELSE call
        /\ handle' = [handle EXCEPT ![n].pinning = 0, ![n].already = FALSE]
    BY <1>16, Zenon DEF StoreFails
  <2>2. handle[n] \in FileHandle
    BY <1>1, <2>1, HandleFields
  <2>3. handle' = [handle EXCEPT ![n] = new]
    BY <1>1, <2>1
  <2>4. new.key = handle[n].key /\ new.path = handle[n].path /\ new.unlinked = handle[n].unlinked
    BY <2>2 DEF FileHandle
  <2> HIDE DEF new
  <2>5. Goal
    BY <1>4, <2>1, <2>3, <2>4
  <2>6. NamesCallKept
    BY <2>1 DEF Closes, NamesCallKept
  <2> QED BY <2>1, <2>5, <2>6, NamesOneHandle
<1>17. ASSUME NEW remove \in BOOLEAN, BeginPublish(n, remove) PROVE NamesSound
  <2> DEFINE new == [handle[n] EXCEPT !.cache = CacheOf(n)]
  <2>1. /\ n \in Opened /\ UNCHANGED catalogVars /\ call.step = "free"
        /\ handle' = [handle EXCEPT ![n].cache = CacheOf(n)]
    BY <1>17 DEF BeginPublish, MayFinish, Idle, Free
  <2>2. handle[n] \in FileHandle
    BY <1>1, <2>1, HandleFields
  <2>3. handle' = [handle EXCEPT ![n] = new]
    BY <1>1, <2>1
  <2>4. new.key = handle[n].key /\ new.path = handle[n].path /\ new.unlinked = handle[n].unlinked
    BY <2>2 DEF FileHandle
  <2> HIDE DEF new
  <2>5. Goal
    BY <1>4, <2>1, <2>3, <2>4
  <2> QED BY <2>1, <2>5, NamesOneHandle DEF NamesCallKept
<1> QED BY <1>7, <1>8, <1>9, <1>10, <1>11, <1>12, <1>14, <1>15, <1>16, <1>17

\* A handle that is removed or given a version without an operation has no name to keep.
LEMMA SettledName ==
    ASSUME handle \in [Handles -> FileHandle \cup {NoHandle}], NEW n \in Handles, handle[n] \in FileHandle,
           RemoveHandle(n) \/ \E chunks, lost : Rebase(n, NoKey, chunks, lost)
    PROVE  NameKept(n) /\ \A m \in Handles \ {n} : handle'[m] = handle[m]
<1>1. CASE RemoveHandle(n)
  BY <1>1 DEF RemoveHandle, NameKept
<1>2. ASSUME NEW chunks, NEW lost, Rebase(n, NoKey, chunks, lost) PROVE NameKept(n) /\ \A m \in Handles \ {n} : handle'[m] = handle[m]
  <2> DEFINE new == [handle[n] EXCEPT !.chunks = chunks, !.cache = NoCache, !.key = NoKey, !.writeTouched = FALSE, !.lost = lost]
  <2>1. handle' = [handle EXCEPT ![n] = new]
    BY <1>2 DEF Rebase
  <2>2. new.key = NoKey
    BY DEF FileHandle
  <2> HIDE DEF new
  <2> QED BY <2>1, <2>2 DEF NameKept
<1> QED BY <1>1, <1>2

\* Handles that go away, or end their operation (finishHandle, AbortHandle, reaper).
LEMMA FinishNames ==
    ASSUME ServiceInv, NamesInv, NEW n \in Handles,
           \/ CloseReader(n) \/ CloseUnlinked(n)
           \/ FinishCommitted /\ call.handle = n
           \/ \E done \in BOOLEAN : AbortHandle(n, done) \/ ReapHandle(n, done)
    PROVE  NamesSound
<1>1. handle \in [Handles -> FileHandle \cup {NoHandle}] /\ ServiceTypeOK
  BY DEF ServiceInv, ServiceTypeOK
<1>2. n \in Opened /\ NamesCallKept
  <2>1. CASE FinishCommitted /\ call.handle = n
    BY <2>1 DEF FinishCommitted, ServiceInv, CloseHoldsHandle, CloseSteps, NamesCallKept
  <2>2. CASE ~(FinishCommitted /\ call.handle = n)
    BY <2>2 DEF CloseReader, CloseUnlinked, AbortHandle, ReapHandle, MayFinish, Idle, NamesCallKept
  <2> QED BY <2>1, <2>2
<1>3. handle[n] \in FileHandle /\ handle[n].key \in Keys \cup {NoKey}
  BY <1>1, <1>2, HandleFields
<1>4. [Bystander]_catalogVars
  <2>1. CASE CloseReader(n)
    BY <2>1 DEF CloseReader
  <2>2. CASE CloseUnlinked(n)
    BY <1>3, <2>2 DEF CloseUnlinked, Bystander
  <2>3. CASE FinishCommitted
    BY <2>3 DEF FinishCommitted
  <2>4. ASSUME NEW done \in BOOLEAN, AbortHandle(n, done) PROVE [Bystander]_catalogVars
    BY <1>3, <2>4 DEF AbortHandle, Bystander
  <2>5. ASSUME NEW done \in BOOLEAN, ReapHandle(n, done) PROVE [Bystander]_catalogVars
    BY <1>3, <2>5 DEF ReapHandle, Bystander
  <2> QED BY <2>1, <2>2, <2>3, <2>4, <2>5
<1>5. RemoveHandle(n) \/ \E chunks, lost : Rebase(n, NoKey, chunks, lost)
  BY Zenon DEF CloseReader, CloseUnlinked, FinishCommitted, AbortHandle, ReapHandle
<1>6. NameKept(n) /\ \A m \in Handles \ {n} : handle'[m] = handle[m]
  BY <1>1, <1>3, <1>5, SettledName
<1> QED BY <1>2, <1>4, <1>6, NamesOneHandle

\* A crash leaves no handle.
LEMMA CrashNames ==
    ASSUME ServiceInv, NamesInv, Crash
    PROVE  NamesSound
<1>1. OpsKept /\ \A n \in Handles : handle'[n] = NoHandle
  BY DEF Crash, OpsKept, catalogVars, opVars
<1>2. NamesIn(handle', call', opState', opPath')
  BY <1>1, Zenon DEF NamesIn
<1> QED BY <1>1, <1>2, NamesNext DEF NamesSound, OpsKept

-----------------------------------------------------------------------------
(* Steps on names.                                                         *)

\* An operation is created or joined under the handle's name (Open with a key,
\* ensureWriteOperation).
LEMMA JoinNames ==
    ASSUME ServiceInv, NamesInv, NEW n \in Handles, NEW key \in Keys, call' = call,
           \A m \in Handles \ {n} : handle'[m] = handle[m],
           handle'[n].key = key,
           \/ CreateWriteOp(key, handle'[n].path) /\ (key \in ClientKeys => ~handle'[n].unlinked)
           \/ /\ key \in ClientKeys /\ ~handle'[n].unlinked /\ UNCHANGED catalogVars
              /\ opState[key] = "prepared" => opPath[key] = handle'[n].path
    PROVE  NamesSound
<1>1. NamesIn(handle, call, opState, opPath) /\ TypeOK
  BY NamesNow DEF ServiceInv, CatalogInv
<1>2. /\ opState'[key] = "prepared" => opPath'[key] = handle'[n].path
      /\ \A k \in Keys \ {key} : opState'[k] = opState[k] /\ opPath'[k] = opPath[k]
      /\ \A k \in Keys : opState'[k] = "committed" => opState[k] = "committed"
      /\ key \in ClientKeys => ~handle'[n].unlinked
      /\ \/ opState[key] = "none"
         \/ key \in ClientKeys /\ opState' = opState /\ opPath' = opPath
  <2>1. CASE CreateWriteOp(key, handle'[n].path) /\ (key \in ClientKeys => ~handle'[n].unlinked)
    BY <1>1, <2>1 DEF CreateWriteOp, TypeOK
  <2>2. CASE /\ key \in ClientKeys /\ ~handle'[n].unlinked /\ UNCHANGED catalogVars
             /\ opState[key] = "prepared" => opPath[key] = handle'[n].path
    BY <2>2 DEF catalogVars, opVars
  <2> QED BY <2>1, <2>2
<1>3. opState[key] = "none" => \A m \in Handles : handle[m] # NoHandle => handle[m].key # key
  BY KeysOfHandles, NoKeyAssumption
<1>4. \A m \in Handles \ {n} : handle[m] # NoHandle => handle[m].key \in Keys \cup {NoKey}
  BY KeysOfHandles
<1>5. ASSUME NEW m \in Handles, handle'[m] # NoHandle, handle'[m].key # NoKey, opState'[handle'[m].key] = "prepared"
      PROVE  /\ ~handle'[m].unlinked =>
                   \/ handle'[m].path = opPath'[handle'[m].key]
                   \/ /\ call'.step \in {"mark", "cancel"} /\ call'.from # call'.gone
                      /\ handle'[m].path = call'.from /\ opPath'[handle'[m].key] = call'.gone
             /\ handle'[m].unlinked /\ handle'[m].key \in ClientKeys => call'.step = "cancel" /\ handle'[m].key \in call'.keys
  <2>1. CASE m = n
    BY <1>2, <1>5, <2>1
  <2>2. CASE m # n
    <3>1. handle'[m] = handle[m] /\ handle[m].key \in Keys /\ handle[m] # NoHandle
      BY <1>4, <1>5, <2>2
    <3>2. opState'[handle[m].key] = opState[handle[m].key] /\ opPath'[handle[m].key] = opPath[handle[m].key]
      BY <1>2, <1>3, <3>1
    <3> QED BY <1>1, <1>5, <3>1, <3>2 DEF NamesIn
  <2> QED BY <2>1, <2>2
<1>6. ASSUME NEW l \in Handles, NEW m \in Handles, handle'[l] # NoHandle, handle'[m] # NoHandle,
             handle'[l].key = handle'[m].key, handle'[m].key \in Keys \ ClientKeys
      PROVE  l = m
  <2>1. CASE l # n /\ m # n
    BY <1>1, <1>6, <2>1 DEF NamesIn
  <2>2. CASE (l = n /\ m # n) \/ (l # n /\ m = n)
    BY <1>2, <1>3, <1>6, <2>2
  <2> QED BY <2>1, <2>2
<1>7. NamesIn(handle', call', opState', opPath')
  BY <1>5, <1>6, Zenon DEF NamesIn
<1> QED BY <1>2, <1>7, NamesNext DEF NamesSound

\* Open with an operation key, and the first write without one.
LEMMA OperationNames ==
    ASSUME ServiceInv, NamesInv, NEW n \in Handles,
           \/ \E p \in Paths, k \in Keys : OpenForWrite(n, p, k)
           \/ ensureWriteOperation(n)
    PROVE  NamesSound
<1>1. ServiceTypeOK /\ handle \in [Handles -> FileHandle \cup {NoHandle}]
  BY DEF ServiceInv, ServiceTypeOK
<1>2. ASSUME NEW p \in Paths, NEW k \in Keys, OpenForWrite(n, p, k) PROVE NamesSound
  <2>1. k \in ClientKeys
    BY <1>2 DEF OpenForWrite
  <2>2. ASSUME NEW f, Register(n, p, k, f, FALSE)
        PROVE  /\ \A m \in Handles \ {n} : handle'[m] = handle[m]
               /\ handle'[n].key = k /\ handle'[n].path = p /\ ~handle'[n].unlinked /\ call' = call
    <3> DEFINE new == [path |-> p, snapshot |-> FALSE, key |-> k, chunks |-> FileVersionChunks(f),
                       cache |-> IF k = NoKey THEN NoCache ELSE FileVersionChunks(f),
                       unlinked |-> FALSE, writeTouched |-> FALSE, pinning |-> 0, already |-> FALSE, lost |-> {}]
    <3>1. handle' = [handle EXCEPT ![n] = new] /\ call' = call
      BY <2>2, Zenon DEF Register
    <3>2. new.key = k /\ new.path = p /\ ~new.unlinked
      OBVIOUS
    <3> HIDE DEF new
    <3> QED BY <1>1, <3>1, <3>2
  <2>3. CASE CreateWriteOp(k, p) /\ Register(n, p, k, head[p], FALSE)
    BY <2>1, <2>2, <2>3, JoinNames
  <2>4. CASE opPath[k] = p /\ Register(n, p, k, head[p], FALSE) /\ UNCHANGED catalogVars
    BY <2>1, <2>2, <2>4, JoinNames
  <2>5. CASE opState[k] = "committed" /\ Register(n, p, k, opFile[k], FALSE) /\ UNCHANGED catalogVars
    BY <2>1, <2>2, <2>5, JoinNames
  <2> QED BY <1>2, <2>3, <2>4, <2>5, Zenon DEF OpenForWrite
<1>3. CASE ensureWriteOperation(n)
  <2>1. n \in Opened /\ call' = call
    BY <1>3 DEF ensureWriteOperation
  <2>2. PICK key \in Keys \ ClientKeys : CreateWriteOp(key, handle[n].path) /\ handle' = [handle EXCEPT ![n].key = key]
    BY <1>3 DEF ensureWriteOperation
  <2>3. handle[n] \in FileHandle
    BY <1>1, <2>1, HandleFields
  <2>4. handle'[n] = [handle[n] EXCEPT !.key = key] /\ \A m \in Handles \ {n} : handle'[m] = handle[m]
    BY <1>1, <2>2
  <2>5. handle'[n].key = key /\ handle'[n].path = handle[n].path
    BY <2>3, <2>4 DEF FileHandle
  <2> QED BY <2>1, <2>2, <2>4, <2>5, JoinNames
<1> QED BY <1>2, <1>3

\* RenameFile takes the operations of the old name along; their handles follow later.
LEMMA RenameNames ==
    ASSUME ServiceInv, NamesInv, NEW p \in Paths, NEW q \in Paths, Rename(p, q)
    PROVE  NamesSound
<1>1. NamesIn(handle, call, opState, opPath) /\ TypeOK
  BY NamesNow DEF ServiceInv, CatalogInv
<1>2. /\ call.step = "free" /\ p # q /\ handle' = handle
      /\ call' = [step |-> "mark", gone |-> q, from |-> p, keys |-> {}]
      /\ RenameFile(p, q) \/ UNCHANGED catalogVars
  BY DEF Rename, Free
<1>3. call'.step = "mark" /\ call'.gone = q /\ call'.from = p
  BY <1>2
<1>4. /\ \A k \in Keys : opState'[k] = "prepared" => opState[k] = "prepared"
      /\ \A k \in Keys : opState'[k] = "committed" => opState[k] = "committed"
      /\ \A k \in Keys : opPath'[k] = opPath[k] \/ (opPath[k] = p /\ opPath'[k] = q)
  <2>1. CASE RenameFile(p, q)
    BY <2>1 DEF RenameFile, Cancelled, PreparedAt
  <2>2. CASE UNCHANGED catalogVars
    BY <2>2 DEF catalogVars, opVars
  <2> QED BY <1>2, <2>1, <2>2
<1>5. ASSUME NEW n \in Handles, handle[n] # NoHandle, handle[n].key # NoKey, opState'[handle[n].key] = "prepared"
      PROVE  /\ ~handle[n].unlinked =>
                   handle[n].path = opPath'[handle[n].key] \/ (handle[n].path = p /\ opPath'[handle[n].key] = q)
             /\ ~(handle[n].unlinked /\ handle[n].key \in ClientKeys)
  <2>1. handle[n].key \in Keys /\ opState[handle[n].key] = "prepared"
    BY <1>4, <1>5, KeysOfHandles
  <2> QED BY <1>1, <1>2, <1>4, <1>5, <2>1 DEF NamesIn
<1>6. \A m, n \in Handles :
         handle[m] # NoHandle /\ handle[n] # NoHandle /\ handle[m].key = handle[n].key /\ handle[n].key \in Keys \ ClientKeys => m = n
  BY <1>1, Zenon DEF NamesIn
<1>7. NamesIn(handle', call', opState', opPath')
  BY <1>2, <1>3, <1>5, <1>6 DEF NamesIn
<1> QED BY <1>4, <1>7, NamesNext DEF NamesSound

\* The handles that had the name are marked, and their operations are to be cancelled.
LEMMA MarkNames ==
    ASSUME ServiceInv, NamesInv, markOpenHandlesUnlinked
    PROVE  NamesSound
<1> DEFINE gone == {n \in Opened : ~handle[n].snapshot /\ handle[n].path = call.gone}
           keys == {handle[n].key : n \in gone} \ {NoKey}
<1>1. NamesIn(handle, call, opState, opPath) /\ ServiceTypeOK
  BY NamesNow DEF ServiceInv
<1>2. /\ call.step = "mark"
      /\ handle' = [n \in Handles |-> IF n \in gone THEN [handle[n] EXCEPT !.unlinked = TRUE] ELSE handle[n]]
      /\ call' = [call EXCEPT !.step = "cancel", !.keys = keys]
      /\ UNCHANGED catalogVars
  BY Zenon DEF markOpenHandlesUnlinked
<1>3. \A n \in gone : n \in Opened /\ (handle[n].key # NoKey => handle[n].key \in keys)
  OBVIOUS
<1> HIDE DEF gone, keys
<1>4. call'.step = "cancel" /\ call'.gone = call.gone /\ call'.from = call.from /\ call'.keys = keys
  BY <1>1, <1>2, CallFields
<1>5. opState' = opState /\ opPath' = opPath
  BY <1>2 DEF catalogVars, opVars
<1>6. ASSUME NEW n \in Handles
      PROVE  /\ n \in gone => /\ handle[n] # NoHandle /\ handle'[n].key = handle[n].key /\ handle'[n].path = handle[n].path
                              /\ handle'[n].unlinked
             /\ n \notin gone => handle'[n] = handle[n]
  <2>1. CASE n \in gone
    <3>1. handle'[n] = [handle[n] EXCEPT !.unlinked = TRUE] /\ handle[n] \in FileHandle /\ handle[n] # NoHandle
      BY <1>1, <1>2, <1>3, <2>1, HandleFields DEF Opened
    <3> QED BY <2>1, <3>1 DEF FileHandle
  <2>2. CASE n \notin gone
    BY <1>2, <2>2
  <2> QED BY <2>1, <2>2
<1>7. ASSUME NEW n \in Handles, handle'[n] # NoHandle, handle'[n].key # NoKey, opState'[handle'[n].key] = "prepared"
      PROVE  /\ ~handle'[n].unlinked =>
                   \/ handle'[n].path = opPath'[handle'[n].key]
                   \/ /\ call'.step \in {"mark", "cancel"} /\ call'.from # call'.gone
                      /\ handle'[n].path = call'.from /\ opPath'[handle'[n].key] = call'.gone
             /\ handle'[n].unlinked /\ handle'[n].key \in ClientKeys => call'.step = "cancel" /\ handle'[n].key \in call'.keys
  <2>1. CASE n \in gone
    BY <1>3, <1>4, <1>6, <1>7, <2>1
  <2>2. CASE n \notin gone
    BY <1>1, <1>2, <1>4, <1>5, <1>6, <1>7, <2>2 DEF NamesIn
  <2> QED BY <2>1, <2>2
<1>8. ASSUME NEW m \in Handles, NEW n \in Handles, handle'[m] # NoHandle, handle'[n] # NoHandle,
             handle'[m].key = handle'[n].key, handle'[n].key \in Keys \ ClientKeys
      PROVE  m = n
  <2>1. handle[m] # NoHandle /\ handle[n] # NoHandle /\ handle[m].key = handle[n].key /\ handle[n].key \in Keys \ ClientKeys
    BY <1>6, <1>8
  <2> QED BY <1>1, <2>1, Zenon DEF NamesIn
<1>9. NamesIn(handle', call', opState', opPath')
  BY <1>7, <1>8, Zenon DEF NamesIn
<1> QED BY <1>5, <1>9, NamesNext DEF NamesSound

\* The marked operations are cancelled one by one.
LEMMA CancelNames ==
    ASSUME ServiceInv, NamesInv, NEW key \in Keys, CancelMarked(key)
    PROVE  NamesSound
<1>1. NamesIn(handle, call, opState, opPath) /\ ServiceTypeOK /\ TypeOK
  BY NamesNow DEF ServiceInv, CatalogInv
<1>2. call.step = "cancel" /\ finishPreparedWriteOp(key, "cancelled") /\ handle' = handle /\ call' = [call EXCEPT !.keys = @ \ {key}]
  BY DEF CancelMarked
<1>3. call'.step = "cancel" /\ call'.gone = call.gone /\ call'.from = call.from /\ call'.keys = call.keys \ {key}
  BY <1>1, <1>2, CallFields
<1>4. OpsKept /\ opState'[key] # "prepared"
  BY <1>1, <1>2 DEF finishPreparedWriteOp, OpsKept, TypeOK
<1>5. ASSUME NEW n \in Handles, handle[n] # NoHandle, handle[n].key # NoKey, opState'[handle[n].key] = "prepared"
      PROVE  /\ ~handle[n].unlinked =>
                   \/ handle[n].path = opPath'[handle[n].key]
                   \/ /\ call'.step \in {"mark", "cancel"} /\ call'.from # call'.gone
                      /\ handle[n].path = call'.from /\ opPath'[handle[n].key] = call'.gone
             /\ handle[n].unlinked /\ handle[n].key \in ClientKeys => call'.step = "cancel" /\ handle[n].key \in call'.keys
  <2>1. handle[n].key \in Keys /\ opState[handle[n].key] = "prepared" /\ handle[n].key # key
    BY <1>4, <1>5, KeysOfHandles DEF OpsKept
  <2> QED BY <1>1, <1>2, <1>3, <1>4, <1>5, <2>1 DEF NamesIn, OpsKept
<1>6. \A m, n \in Handles :
         handle[m] # NoHandle /\ handle[n] # NoHandle /\ handle[m].key = handle[n].key /\ handle[n].key \in Keys \ ClientKeys => m = n
  BY <1>1, Zenon DEF NamesIn
<1>7. NamesIn(handle', call', opState', opPath')
  BY <1>2, <1>5, <1>6, Zenon DEF NamesIn
<1> QED BY <1>4, <1>7, NamesNext DEF NamesSound, OpsKept

\* A handle follows the file to its new name, with its operation; other handles
\* of the operation are still to follow.
LEMMA RetargetNames ==
    ASSUME ServiceInv, NamesInv, NEW n \in Handles, RetargetHandle(n)
    PROVE  NamesSound
<1> DEFINE key == handle[n].key
<1>1. NamesIn(handle, call, opState, opPath) /\ ServiceTypeOK /\ TypeOK
  BY NamesNow DEF ServiceInv, CatalogInv
<1>2. /\ call.step = "cancel" /\ call.keys = {} /\ call' = call
      /\ n \in Opened /\ ~handle[n].unlinked /\ handle[n].path = call.from /\ call.from # call.gone
      /\ handle' = [handle EXCEPT ![n].path = call.gone]
      /\ IF key = NoKey THEN UNCHANGED catalogVars ELSE RetargetPreparedWriteOp(key, call.gone)
  BY DEF RetargetHandle, Following
<1>3. handle[n] \in FileHandle /\ handle[n] # NoHandle /\ key \in Keys \cup {NoKey}
  BY <1>1, <1>2, HandleFields DEF Opened
<1>4. handle'[n] = [handle[n] EXCEPT !.path = call.gone] /\ \A m \in Handles \ {n} : handle'[m] = handle[m]
  BY <1>1, <1>2 DEF ServiceTypeOK
<1>5. handle'[n].key = key /\ handle'[n].path = call.gone /\ handle'[n].unlinked = handle[n].unlinked
  BY <1>3, <1>4 DEF FileHandle
<1>6. /\ opState' = opState
      /\ key \in Keys /\ opState[key] = "prepared" => opPath'[key] = call.gone
      /\ \A k \in Keys : k # key => opPath'[k] = opPath[k]
  <2>1. CASE key = NoKey
    BY <1>2, <2>1, NoKeyAssumption DEF catalogVars, opVars
  <2>2. CASE key # NoKey
    BY <1>1, <1>2, <1>3, <2>2 DEF RetargetPreparedWriteOp, TypeOK
  <2> QED BY <2>1, <2>2
<1> HIDE DEF key
<1>7. ASSUME NEW m \in Handles, handle'[m] # NoHandle, handle'[m].key # NoKey, opState'[handle'[m].key] = "prepared"
      PROVE  /\ ~handle'[m].unlinked =>
                   \/ handle'[m].path = opPath'[handle'[m].key]
                   \/ /\ call'.step \in {"mark", "cancel"} /\ call'.from # call'.gone
                      /\ handle'[m].path = call'.from /\ opPath'[handle'[m].key] = call'.gone
             /\ handle'[m].unlinked /\ handle'[m].key \in ClientKeys => call'.step = "cancel" /\ handle'[m].key \in call'.keys
  <2>1. CASE m = n
    BY <1>2, <1>3, <1>5, <1>6, <1>7, <2>1
  <2>2. CASE m # n
    <3>1. handle'[m] = handle[m] /\ handle[m] # NoHandle /\ handle[m].key \in Keys /\ opState[handle[m].key] = "prepared"
      BY <1>4, <1>6, <1>7, <2>2, KeysOfHandles
    <3>2. /\ ~handle[m].unlinked =>
                   handle[m].path = opPath[handle[m].key] \/ (handle[m].path = call.from /\ opPath[handle[m].key] = call.gone)
          /\ ~(handle[m].unlinked /\ handle[m].key \in ClientKeys)
      BY <1>1, <1>2, <1>7, <3>1 DEF NamesIn
    <3>3. CASE handle[m].key # key
      BY <1>2, <1>6, <3>1, <3>2, <3>3
    <3>4. CASE handle[m].key = key
      <4>1. opPath[key] = call.from \/ opPath[key] = call.gone
        BY <1>1, <1>2, <1>3, <1>7, <3>1, <3>4 DEF NamesIn, key
      <4> QED BY <1>2, <1>6, <3>1, <3>2, <3>4, <4>1
    <3> QED BY <3>3, <3>4
  <2> QED BY <2>1, <2>2
<1>8. ASSUME NEW l \in Handles, NEW m \in Handles, handle'[l] # NoHandle, handle'[m] # NoHandle,
             handle'[l].key = handle'[m].key, handle'[m].key \in Keys \ ClientKeys
      PROVE  l = m
  <2>1. handle[l] # NoHandle /\ handle[m] # NoHandle /\ handle[l].key = handle[m].key /\ handle[m].key \in Keys \ ClientKeys
    BY <1>3, <1>4, <1>5, <1>8 DEF key
  <2> QED BY <1>1, <2>1, Zenon DEF NamesIn
<1>9. NamesIn(handle', call', opState', opPath')
  BY <1>7, <1>8, Zenon DEF NamesIn
<1> QED BY <1>6, <1>9, NamesNext DEF NamesSound

\* When the call returns no handle is left behind under the old name.
LEMMA ReturnNames ==
    ASSUME ServiceInv, NamesInv, NamespaceReturns
    PROVE  NamesSound
<1>1. NamesIn(handle, call, opState, opPath)
  BY NamesNow
<1>2. /\ call.keys = {} /\ call' = Free /\ handle' = handle /\ opState' = opState /\ opPath' = opPath
      /\ \A n \in Handles : ~(handle[n] # NoHandle /\ ~handle[n].unlinked /\ handle[n].path = call.from /\ call.from # call.gone)
  BY DEF NamespaceReturns, Following, Opened, catalogVars, opVars
<1>3. NamesIn(handle', call', opState', opPath')
  <2>1. NamesIn(handle, Free, opState, opPath)
    BY <1>1, <1>2, Zenon DEF NamesIn
  <2> QED BY <1>2, <2>1
<1> QED BY <1>2, <1>3, NamesNext DEF NamesSound

-----------------------------------------------------------------------------
(* The theorems.                                                           *)

\* The step part of PublishedWhereIntended and of UnlinkedNeverPublishes.
PublishesAtName ==
    \A k \in Keys : opState[k] = "prepared" /\ opState'[k] = "committed" => head'[opPath[k]] = opFile'[k]
PublishesNothingUnlinked ==
    \A n \in Opened : handle[n].unlinked /\ handle[n].key # NoKey /\ opState[handle[n].key] = "prepared" =>
        opState'[handle[n].key] # "committed"

\* Publication: the handle that is closed has its operation's name and is not
\* unlinked, and no unlinked handle shares the operation (publishPreparedVersion).
LEMMA PublishNames ==
    ASSUME ServiceInv, NamesInv, NEW replies \in BOOLEAN, publishPreparedVersion(replies)
    PROVE  NamesInv' /\ PublishesAtName /\ PublishesNothingUnlinked
<1> DEFINE c == call.handle  key == handle[call.handle].key  path == handle[call.handle].path
<1>1. NamesIn(handle, call, opState, opPath) /\ ServiceTypeOK /\ TypeOK /\ handle \in [Handles -> FileHandle \cup {NoHandle}]
  BY NamesNow DEF ServiceInv, CatalogInv, ServiceTypeOK
<1>2. /\ call.step = "publish" /\ call' = Free
      /\ opState[key] = "prepared" /\ opState' = [opState EXCEPT ![key] = "committed"]
      /\ head' = [head EXCEPT ![path] = nextFile] /\ opFile' = [opFile EXCEPT ![key] = nextFile] /\ opPath' = opPath
      /\ RemoveHandle(c) \/ (\E chunks, lost : Rebase(c, NoKey, chunks, lost)) \/ handle' = handle
  <2>1. \E version, placement, retain : CommitWriteOpVersion(key, path, version, placement, retain)
    BY Zenon DEF publishPreparedVersion
  <2>2. /\ opState[key] = "prepared" /\ opState' = [opState EXCEPT ![key] = "committed"]
        /\ head' = [head EXCEPT ![path] = nextFile] /\ opFile' = [opFile EXCEPT ![key] = nextFile] /\ opPath' = opPath
    BY <2>1, Zenon DEF CommitWriteOpVersion
  <2>3. call.step = "publish" /\ call' = Free
    BY Zenon DEF publishPreparedVersion
  <2>4. RemoveHandle(c) \/ (\E chunks, lost : Rebase(c, NoKey, chunks, lost)) \/ handle' = handle
    BY Zenon DEF publishPreparedVersion
  <2> QED BY <2>2, <2>3, <2>4
<1>3. c \in Handles /\ handle[c] # NoHandle /\ key # NoKey /\ ~handle[c].unlinked
  BY <1>2 DEF ServiceInv, CloseHoldsHandle, CloseSteps, Opened
<1>4. key \in Keys /\ path \in Paths /\ handle[c] \in FileHandle
  BY <1>1, <1>3, HandleFields DEF Opened
<1>5. opPath[key] = path
  BY <1>1, <1>2, <1>3 DEF NamesIn
<1>6. PublishesAtName
  <2>1. head'[path] = nextFile /\ opFile'[key] = nextFile
    BY <1>1, <1>2, <1>4 DEF TypeOK
  <2> HIDE DEF path, key
  <2>2. \A k \in Keys : opState'[k] = "committed" => opState[k] = "committed" \/ k = key
    BY <1>1, <1>2 DEF TypeOK
  <2> QED BY <1>5, <2>1, <2>2 DEF PublishesAtName
<1>7. PublishesNothingUnlinked
  <2> SUFFICES ASSUME NEW n \in Opened, handle[n].unlinked, handle[n].key # NoKey, opState[handle[n].key] = "prepared",
                      opState'[handle[n].key] = "committed"
               PROVE  FALSE
    BY DEF PublishesNothingUnlinked
  <2>1. n \in Handles /\ handle[n] # NoHandle /\ handle[n].key \in Keys
    BY <1>1, HandleFields DEF Opened
  <2>2. handle[n].key = key
    BY <1>1, <1>2, <2>1 DEF TypeOK
  <2>3. CASE key \in ClientKeys
    <3>1. call.step = "cancel"
      BY <1>1, <2>1, <2>2, <2>3, Zenon DEF NamesIn
    <3> QED BY <1>2, <3>1
  <2>4. CASE key \notin ClientKeys
    <3>1. n = c
      BY <1>1, <1>3, <1>4, <2>1, <2>2, <2>4 DEF NamesIn
    <3> QED BY <1>3, <3>1
  <2> QED BY <2>3, <2>4
<1>8. NamesInv'
  <2>1. \A m \in Handles : NameKept(m)
    <3>1. CASE handle' = handle
      BY <3>1 DEF NameKept
    <3>2. CASE RemoveHandle(c) \/ \E chunks, lost : Rebase(c, NoKey, chunks, lost)
      <4>1. NameKept(c) /\ \A m \in Handles \ {c} : handle'[m] = handle[m]
        BY <1>1, <1>3, <1>4, <3>2, SettledName
      <4> QED BY <4>1 DEF NameKept
    <3> QED BY <1>2, <3>1, <3>2
  <2>2. NamesCallKept
    BY <1>2 DEF NamesCallKept
  <2>3. \A k \in Keys : opState'[k] = "prepared" => opState[k] = "prepared"
    BY <1>1, <1>2 DEF TypeOK
  <2> QED BY <1>2, <2>1, <2>2, <2>3, NamesStay
<1> QED BY <1>6, <1>7, <1>8

\* Every step but one that loses a context keeps the names and publishes where it should.
LEMMA NamesStep ==
    ASSUME ServiceInv, NamesInv, [ServiceNext]_<<catalogVars, serviceVars>>, [~NamespaceFails]_<<catalogVars, serviceVars>>
    PROVE  NamesInv' /\ PublishesAtName /\ PublishesNothingUnlinked
<1>1. ASSUME NamesSound PROVE NamesInv' /\ PublishesAtName /\ PublishesNothingUnlinked
  <2>1. \A n \in Opened : handle[n].key # NoKey => handle[n].key \in Keys
    BY KeysOfHandles DEF Opened
  <2> QED BY <1>1, <2>1 DEF NamesSound, PublishesAtName, PublishesNothingUnlinked
<1>2. CASE UNCHANGED <<catalogVars, serviceVars>>
  <2>1. handle' = handle /\ call' = call /\ UNCHANGED catalogVars
    BY <1>2 DEF serviceVars
  <2> QED BY <1>1, <2>1, NamesMemory DEF NamesCallKept
<1>3. CASE HandleSteps
  BY <1>1, <1>3, HandleNames, OperationNames, Zenon DEF HandleSteps
<1>4. CASE FinishSteps
  <2>1. FinishCommitted => call.handle \in Handles
    BY <1>1 DEF FinishCommitted, ServiceInv, CloseHoldsHandle, CloseSteps, Opened
  <2> QED BY <1>1, <1>4, <2>1, FinishNames, HandleNames, MemoryNames, PublishNames, Zenon DEF FinishSteps
<1>5. CASE NamespaceSteps /\ ~NamespaceFails
  BY <1>1, <1>5, MemoryNames, RenameNames, MarkNames, CancelNames, RetargetNames, ReturnNames, Zenon DEF NamespaceSteps
<1>6. CASE MaintenanceSteps
  BY <1>1, <1>6, MemoryNames, CrashNames, Zenon DEF MaintenanceSteps
<1> QED BY <1>2, <1>3, <1>4, <1>5, <1>6 DEF ServiceNext

\* Names of handles and operations agree in every reachable state (Open, Unlink,
\* Rename, markOpenHandlesUnlinked, retargetOpenHandles).
THEOREM NamesInvariance == NamesSpec => []NamesInv
<1>1. ServiceInit => NamesInv
  <2> SUFFICES ASSUME ServiceInit PROVE NamesInv
    OBVIOUS
  <2>1. Opened = {}
    BY DEF ServiceInit, Opened
  <2> QED BY <2>1 DEF NamesInv
<1>2. ServiceInv /\ NamesInv /\ [ServiceNext]_<<catalogVars, serviceVars>> /\ [~NamespaceFails]_<<catalogVars, serviceVars>> => NamesInv'
  BY NamesStep
<1> QED
  BY <1>1, <1>2, ServiceInvariance, PTL DEF NamesSpec, ServiceSpec

\* A version is published under the name its operation has in the catalog, though
\* Rename moves operations and handles in separate steps (publishPreparedVersion).
THEOREM PublishesWhereIntended == NamesSpec => PublishedWhereIntended
<1>1. ServiceInv /\ NamesInv /\ [ServiceNext]_<<catalogVars, serviceVars>> /\ [~NamespaceFails]_<<catalogVars, serviceVars>> =>
         [PublishesAtName]_<<catalogVars, serviceVars>>
  BY NamesStep
<1> QED
  BY <1>1, NamesInvariance, ServiceInvariance, PTL DEF NamesSpec, ServiceSpec, PublishedWhereIntended, PublishesAtName

\* An operation of a handle that Unlink or Rename has marked never commits, even
\* through another handle that shares the key (finishHandle, CancelWriteOp).
THEOREM UnlinkedPublishesNothing == NamesSpec => UnlinkedNeverPublishes
<1>1. ServiceInv /\ NamesInv /\ [ServiceNext]_<<catalogVars, serviceVars>> /\ [~NamespaceFails]_<<catalogVars, serviceVars>> =>
         [PublishesNothingUnlinked]_<<catalogVars, serviceVars>>
  BY NamesStep
<1> QED
  BY <1>1, NamesInvariance, ServiceInvariance, PTL DEF NamesSpec, ServiceSpec, UnlinkedNeverPublishes, PublishesNothingUnlinked
=============================================================================
