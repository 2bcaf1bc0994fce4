----------------------------- MODULE FileService -----------------------------
(***************************************************************************)
(* The file service (package server): open handles, their write caches and *)
(* operations, publication at Close, the pins that hold content against    *)
(* collection, the reaper, and compaction, over the transactions of        *)
(* Catalog.                                                                *)
(*                                                                         *)
(* An action is what happens under one lock between two points where       *)
(* another goroutine can get in.  namespaceMu is variable call: the call   *)
(* that holds it, and how far it is.  vlogMu is held by a compaction from  *)
(* CompactBegin to its end, and pinMu within one action.  A handle that is *)
(* between pinning a chunk and resolving it holds its stateMu and its      *)
(* operation's lock.  Chunk contents are their hashes; offsets, lengths,   *)
(* directories, bucket policies and disks are not modelled.                *)
(***************************************************************************)
EXTENDS Catalog

CONSTANTS Handles, NoHandle,   \* handle ids; a handle that is not open
          NoVlog,              \* bytes that are only in memory; no job
          ClientKeys,          \* keys that clients choose; the others are "legacy-handle-..."
          Failures             \* whether a request may lose its context, or its reply, midway

ASSUME ClientKeysAssumption == ClientKeys \subseteq Keys
ASSUME NoVlogAssumption == NoVlog \notin Vlogs
ASSUME FailuresAssumption == Failures \in BOOLEAN

VARIABLES handle,       \* Server.handles
          opPins,       \* Server.pinnedChunks of operations
          handlePins,   \* Server.pinnedChunks of handles (owner -handle)
          stored,       \* <<hash, vlog>>: the vlog holds the chunk's bytes
          ahead,        \* vlogs whose cursor is past the recorded length
          call,         \* the call that holds namespaceMu
          compaction,   \* the running CompactVlog
          job           \* table job: destination of a vlog's compaction

serviceVars == <<handle, opPins, handlePins, stored, ahead, call, compaction, job>>
pinVars     == <<opPins, handlePins>>
storeVars   == <<stored, ahead>>

\* A chunk of a handle: its hash and where it was placed when it was looked up.
Empty == <<Hole, NoVlog>>
Slots == {Empty} \cup (Hashes \X (Vlogs \cup {NoVlog}))

NoCache      == NoRow
Free         == [step |-> "free"]
NoCompaction == [step |-> "none"]

FileHandle ==
    [path : Paths, snapshot : BOOLEAN, key : Keys \cup {NoKey},
     chunks : [Extents -> Slots], cache : [Extents -> Slots] \cup {NoCache},
     unlinked : BOOLEAN, writeTouched : BOOLEAN,
     pinning : Extents \cup {0}, already : BOOLEAN,
     lost : SUBSET Hashes]    \* history: chunks that were gone when the handle pinned them

ASSUME NoHandleAssumption == NoHandle \notin FileHandle

ServiceInit ==
    /\ Init
    /\ handle = [n \in Handles |-> NoHandle]
    /\ opPins = [k \in Keys |-> {}]
    /\ handlePins = [n \in Handles |-> {}]
    /\ stored = {}
    /\ ahead = {}
    /\ call = Free
    /\ compaction = NoCompaction
    /\ job = [v \in Vlogs |-> NoVlog]

-----------------------------------------------------------------------------
(* Handles and pins.                                                       *)

Opened == {n \in Handles : handle[n] # NoHandle}
Idle(n) == n \in Opened /\ handle[n].pinning = 0

\* writeOperationLock, which is held while a handle of the operation pins.
OperationFree(key) == \A n \in Opened : handle[n].key = key => handle[n].pinning = 0

HashesOf(chunks) == {chunks[i][1] : i \in Extents} \ {Hole}

\* LiveChunkByHash.
Live(h) == h \in rows /\ refcount[h] > 0

\* FileVersionChunks fails when a chunk of the version has no row.
Readable(f) == f # NoFile => file[f] # NoRow /\ \A i \in Extents : file[f][i] \in rows \cup {Hole}
FileVersionChunks(f) ==
    [i \in Extents |-> IF f = NoFile \/ file[f][i] = Hole THEN Empty
                       ELSE <<file[f][i], location[file[f][i]]>>]

\* buildCache.
CacheOf(n) == IF handle[n].cache = NoCache THEN handle[n].chunks ELSE handle[n].cache

RemoveHandle(n) ==
    /\ handle' = [handle EXCEPT ![n] = NoHandle]
    /\ handlePins' = [handlePins EXCEPT ![n] = {}]

\* A new handle on version f, pinned before it is registered.
Register(n, path, key, f, snap) ==
    /\ handle' = [handle EXCEPT ![n] =
          [path |-> path, snapshot |-> snap, key |-> key, chunks |-> FileVersionChunks(f),
           cache |-> IF key = NoKey THEN NoCache ELSE FileVersionChunks(f),
           unlinked |-> FALSE, writeTouched |-> FALSE, pinning |-> 0, already |-> FALSE, lost |-> {}]]
    /\ handlePins' = [handlePins EXCEPT ![n] = HashesOf(FileVersionChunks(f))]
    /\ UNCHANGED <<opPins, storeVars, call, compaction, job>>

\* The handle now serves a committed version and, after a Flush, has no operation.
Rebase(n, key, chunks, lost) ==
    /\ handle' = [handle EXCEPT ![n].chunks = chunks, ![n].cache = NoCache,
                                ![n].key = key, ![n].writeTouched = FALSE, ![n].lost = lost]
    /\ handlePins' = [handlePins EXCEPT ![n] = HashesOf(chunks)]

Expire ==
    /\ call = Free
    /\ ExpireWriteResults
    /\ UNCHANGED serviceVars

-----------------------------------------------------------------------------
(* Open, Write, Truncate.  Open and Close expire elapsed results first.    *)

Open(n, path) ==
    /\ call = Free /\ Elapsed = {} /\ handle[n] = NoHandle
    /\ Readable(head[path])
    /\ Register(n, path, NoKey, head[path], FALSE)
    /\ UNCHANGED catalogVars

\* With an operation key: a new one, a retry of a prepared one, or a retry of a
\* committed one, which opens the version it published.
OpenForWrite(n, path, key) ==
    /\ call = Free /\ Elapsed = {} /\ handle[n] = NoHandle
    /\ key \in ClientKeys
    /\ \/ /\ CreateWriteOp(key, path)
          /\ Readable(head[path])
          /\ Register(n, path, key, head[path], FALSE)
       \/ /\ opState[key] = "prepared" /\ opPath[key] = path
          /\ Readable(head[path])
          /\ Register(n, path, key, head[path], FALSE)
          /\ UNCHANGED catalogVars
       \/ /\ opState[key] = "committed"
          /\ opPath[key] = path \/ opFile[key] = head[path]
          /\ Readable(head[path]) /\ Readable(opFile[key])
          /\ Register(n, path, key, opFile[key], FALSE)
          /\ UNCHANGED catalogVars

OpenSnapshot(n, id, path) ==
    /\ handle[n] = NoHandle
    /\ snapFile[<<id, path>>] # NoFile
    /\ Readable(snapFile[<<id, path>>])
    /\ Register(n, path, NoKey, snapFile[<<id, path>>], TRUE)
    /\ UNCHANGED catalogVars

\* The steps in which finishHandle holds a handle and its operation.
CloseSteps == {"plan", "publish", "committed", "released"}

\* A call other than the one closing the handle gets its stateMu and, unless it
\* holds it already, the lock of its operation.
Usable(n) ==
    /\ Idle(n)
    /\ call.step \in CloseSteps => handle[n].key # handle[call.handle].key /\ n # call.handle
    /\ OperationFree(handle[n].key)

ensureWriteOperation(n) ==
    /\ n \in Opened /\ Idle(n) /\ ~handle[n].snapshot
    /\ handle[n].key = NoKey
    /\ \E key \in Keys \ ClientKeys :
          /\ CreateWriteOp(key, handle[n].path)
          /\ handle' = [handle EXCEPT ![n].key = key]
    /\ UNCHANGED <<pinVars, storeVars, call, compaction, job>>

\* The bytes of chunk h at extent i.  If a spill then fails the call does too:
\* the bytes stay in the cache and writeTouched is not set.
Write(n, i, h) ==
    /\ n \in Opened /\ handle[n].key # NoKey /\ Usable(n)
    /\ opState[handle[n].key] = "prepared"
    /\ \E succeeds \in BOOLEAN :
          handle' = [handle EXCEPT ![n].cache = [CacheOf(n) EXCEPT ![i] = <<h, NoVlog>>],
                                   ![n].writeTouched = @ \/ succeeds]
    /\ UNCHANGED <<catalogVars, pinVars, storeVars, call, compaction, job>>

\* writeOpForMutation refuses a result whose deadline has passed.
Truncate(n, i) ==
    /\ n \in Opened /\ handle[n].key # NoKey /\ Usable(n)
    /\ opState[handle[n].key] \in {"prepared", "committed"}
    /\ root[handle[n].key] # NoFile => now < deadline[handle[n].key]
    /\ handle' = [handle EXCEPT
          ![n].cache = [j \in Extents |-> IF j < i THEN CacheOf(n)[j] ELSE Empty],
          ![n].writeTouched = TRUE]
    /\ UNCHANGED <<catalogVars, pinVars, storeVars, call, compaction, job>>

\* refreshCommittedHandle, on a read.
Refresh(n) ==
    LET key == handle[n].key IN
    /\ n \in Opened /\ Usable(n)
    /\ key # NoKey /\ handle[n].cache # NoCache /\ ~handle[n].writeTouched
    /\ opState[key] = "committed" /\ Readable(opFile[key])
    /\ Rebase(n, key, FileVersionChunks(opFile[key]), {})
    /\ UNCHANGED <<catalogVars, opPins, storeVars, call, compaction, job>>

-----------------------------------------------------------------------------
(* Storing a chunk (planChunk), for a spill or for the call that closes.   *)

Closes(n) == call.step = "plan" /\ call.handle = n
Pending(n) == IF Closes(n) THEN call.plan ELSE CacheOf(n)

\* pinAndResolveChunk publishes the pin first.
PinChunk(n, i) ==
    LET h == Pending(n)[i][1]  key == handle[n].key IN
    /\ n \in Opened /\ key # NoKey /\ Idle(n)
    /\ Closes(n) \/ (Usable(n) /\ opState[key] = "prepared")
    /\ Pending(n)[i] \in Hashes \X {NoVlog}
    /\ handle' = [handle EXCEPT ![n].pinning = i, ![n].already = h \in opPins[key]]
    /\ opPins' = [opPins EXCEPT ![key] = @ \cup {h}]
    /\ UNCHANGED <<catalogVars, handlePins, storeVars, call, compaction, job>>

\* The chunk being stored has been placed in vlog v.
Place(n, v) ==
    LET i == handle[n].pinning  slot == <<Pending(n)[handle[n].pinning][1], v>> IN
    /\ handle' = [handle EXCEPT ![n].pinning = 0, ![n].already = FALSE,
                     ![n].cache = IF Closes(n) THEN @ ELSE [CacheOf(n) EXCEPT ![i] = slot]]
    /\ call' = IF Closes(n) THEN [call EXCEPT !.plan[i] = slot] ELSE call

UnpinMissed(n, h) ==
    opPins' = [opPins EXCEPT ![handle[n].key] = IF handle[n].already THEN @ ELSE @ \ {h}]

ReuseChunk(n) ==
    /\ n \in Opened /\ handle[n].pinning # 0
    /\ LET h == Pending(n)[handle[n].pinning][1]
       IN  Live(h) /\ Place(n, location[h])
    /\ UNCHANGED <<catalogVars, pinVars, storeVars, compaction, job>>

\* leasedVlogForWriteReserved: a vlog another operation may append to.
Claimable(v) ==
    /\ v \notin ahead
    /\ job[v] = NoVlog
    /\ \A source \in Vlogs : job[source] # v   \* maintenance_owned

\* A miss: the bytes go to a vlog the operation has leased, under vlogMu.
StoreChunk(n, v) ==
    LET h == Pending(n)[handle[n].pinning][1]  key == handle[n].key IN
    /\ n \in Opened /\ handle[n].pinning # 0
    /\ ~Live(h)
    /\ compaction = NoCompaction
    /\ \/ lease[v] = key /\ UNCHANGED catalogVars
       \/ (\A w \in Vlogs : lease[w] # key) /\ Claimable(v) /\ ClaimVlogLease(v, key)
    /\ Place(n, v)
    /\ UnpinMissed(n, h)
    /\ stored' = stored \cup {<<h, v>>}
    /\ ahead' = ahead \cup {v}
    /\ UNCHANGED <<handlePins, compaction, job>>

\* A lookup, lease or write that fails, as a claim does once the operation ended.
StoreFails(n) ==
    LET h == Pending(n)[handle[n].pinning][1] IN
    /\ n \in Opened /\ handle[n].pinning # 0
    /\ UnpinMissed(n, h)
    /\ handle' = [handle EXCEPT ![n].pinning = 0, ![n].already = FALSE]
    /\ call' = IF Closes(n) THEN Free ELSE call
    /\ UNCHANGED <<catalogVars, handlePins, storeVars, compaction, job>>

\* provisionForPolicyLocked, whose caller then claims the vlog.
ProvisionVlog(v) ==
    /\ compaction = NoCompaction
    /\ \A w \in Vlogs : vlog[w] = "active" => ~Claimable(w) \/ lease[w] # NoKey
    /\ MakeVlog(v)
    /\ UNCHANGED serviceVars

-----------------------------------------------------------------------------
(* Close and Flush (finishHandle), AbortHandle, and the reaper.            *)

MayFinish(n) == call = Free /\ Elapsed = {} /\ Idle(n)

CloseReader(n) ==
    /\ MayFinish(n) /\ handle[n].key = NoKey
    /\ RemoveHandle(n)
    /\ UNCHANGED <<catalogVars, opPins, storeVars, call, compaction, job>>

CloseUnlinked(n) ==
    LET key == handle[n].key IN
    /\ MayFinish(n) /\ key # NoKey /\ handle[n].unlinked
    /\ finishPreparedWriteOp(key, "cancelled")
    /\ opPins' = [opPins EXCEPT ![key] = {}]
    /\ RemoveHandle(n)
    /\ UNCHANGED <<storeVars, call, compaction, job>>

\* Another handle of the operation, or an earlier try, has published: bytes that
\* were acknowledged here must be the ones it committed.  Its chunks are looked up
\* without pinMu.
CloseCommitted(n, remove) ==
    LET key == handle[n].key IN
    /\ MayFinish(n) /\ key # NoKey /\ ~handle[n].unlinked /\ OperationFree(key)
    /\ opState[key] = "committed" /\ Readable(opFile[key])
    /\ handle[n].writeTouched => \A i \in Extents : CacheOf(n)[i][1] = file[opFile[key]][i]
    /\ call' = [step |-> "committed", handle |-> n, remove |-> remove, plan |-> FileVersionChunks(opFile[key])]
    /\ UNCHANGED <<catalogVars, handle, pinVars, storeVars, compaction, job>>

ReleaseCommitted ==
    /\ call.step = "committed"
    /\ opPins' = [opPins EXCEPT ![handle[call.handle].key] = {}]
    /\ call' = [call EXCEPT !.step = "released"]
    /\ UNCHANGED <<catalogVars, handle, handlePins, storeVars, compaction, job>>

\* replacePins takes what the lookup found, whatever has been collected since.
FinishCommitted ==
    /\ call.step = "released"
    /\ IF call.remove THEN RemoveHandle(call.handle)
       ELSE Rebase(call.handle, NoKey, call.plan, HashesOf(call.plan) \ rows)
    /\ call' = Free
    /\ UNCHANGED <<catalogVars, opPins, storeVars, compaction, job>>

\* Mutant: Close does not look at the unlinked flag.
BeginPublishUnlinked(n, remove) ==
    LET key == handle[n].key IN
    /\ MayFinish(n) /\ key # NoKey /\ OperationFree(key)
    /\ opState[key] \notin {"committed", "expired"}
    /\ handle' = [handle EXCEPT ![n].cache = CacheOf(n)]
    /\ call' = [step |-> "plan", handle |-> n, remove |-> remove, plan |-> CacheOf(n)]
    /\ UNCHANGED <<catalogVars, pinVars, storeVars, compaction, job>>

\* finalizeCache takes the plan; PinChunk and the actions after it fill it.
BeginPublish(n, remove) ==
    LET key == handle[n].key IN
    /\ MayFinish(n) /\ key # NoKey /\ ~handle[n].unlinked /\ OperationFree(key)
    /\ opState[key] \notin {"committed", "expired"}
    /\ handle' = [handle EXCEPT ![n].cache = CacheOf(n)]
    /\ call' = [step |-> "plan", handle |-> n, remove |-> remove, plan |-> CacheOf(n)]
    /\ UNCHANGED <<catalogVars, pinVars, storeVars, compaction, job>>

\* rehomePublicationChunks looks up the vlog of every planned placement.
rehomePublicationChunks ==
    /\ call.step = "plan" /\ Idle(call.handle)
    /\ \A i \in Extents : call.plan[i] = Empty \/ call.plan[i][2] \in Vlogs
    /\ \A i \in Extents : call.plan[i] # Empty => vlog[call.plan[i][2]] = "active"
    /\ call' = [call EXCEPT !.step = "publish"]
    /\ UNCHANGED <<catalogVars, handle, pinVars, storeVars, compaction, job>>

\* Verify binds each planned hash to its live row or else to its plan.
Placement ==
    [h \in Hashes |->
        IF h \in HashesOf(call.plan) /\ ~Live(h)
        THEN call.plan[CHOOSE i \in Extents :
                call.plan[i][1] = h /\ \A j \in Extents : call.plan[j][1] = h => i <= j][2]
        ELSE location[h]]

\* publishPreparedVersion, under vlogMu and pinMu, and the end of the call: while
\* it holds namespaceMu the new head keeps its chunks.  When the reply is lost the
\* version is committed but the call fails, and nothing in memory changes.
publishPreparedVersion(replies) ==
    LET n == call.handle  key == handle[call.handle].key IN
    /\ call.step = "publish" /\ compaction = NoCompaction
    /\ replies \/ Failures
    /\ \A h \in HashesOf(call.plan) :
          vlog[Placement[h]] = "active" /\ <<h, Placement[h]>> \in stored
    /\ CommitWriteOpVersion(key, handle[n].path, [i \in Extents |-> call.plan[i][1]],
                            Placement, key \in ClientKeys)
    /\ ahead' = {v \in ahead : lease[v] # key}
    /\ call' = Free
    /\ IF replies
       THEN /\ opPins' = [opPins EXCEPT ![key] = {}]
            /\ IF call.remove THEN RemoveHandle(n)
               ELSE Rebase(n, NoKey, [i \in Extents |->
                       IF call.plan[i] = Empty THEN Empty ELSE <<call.plan[i][1], Placement[call.plan[i][1]]>>], {})
       ELSE UNCHANGED <<handle, pinVars>>
    /\ UNCHANGED <<stored, compaction, job>>

\* Any other error of finalizeCache, rehoming, publication or of a retry's reads.
CloseFails ==
    /\ call.step \in CloseSteps \ {"released"} /\ Idle(call.handle)
    /\ call' = Free
    /\ UNCHANGED <<catalogVars, handle, pinVars, storeVars, compaction, job>>

\* Mutant: the operation is cancelled but keeps its leases.
AbortHandleKeepingLeases(n, cancelled) ==
    LET key == handle[n].key IN
    /\ call = Free /\ Idle(n)
    /\ cancelled \/ Failures
    /\ IF key # NoKey /\ cancelled
       THEN /\ opState' = [opState EXCEPT ![key] = IF @ = "prepared" THEN "cancelled" ELSE @]
            /\ opPins' = [opPins EXCEPT ![key] = {}]
            /\ UNCHANGED <<fileVars, head, snapVars, rootVars, chunkVars, vlog, lease, opPath, opFile, now>>
       ELSE UNCHANGED <<catalogVars, opPins>>
    /\ RemoveHandle(n)
    /\ UNCHANGED <<storeVars, call, compaction, job>>

\* The cancellation may fail; then the pins of the operation stay.
AbortHandle(n, cancelled) ==
    LET key == handle[n].key IN
    /\ call = Free /\ Idle(n)
    /\ cancelled \/ Failures
    /\ IF key # NoKey /\ cancelled
       THEN finishPreparedWriteOp(key, "cancelled") /\ opPins' = [opPins EXCEPT ![key] = {}]
       ELSE UNCHANGED <<catalogVars, opPins>>
    /\ RemoveHandle(n)
    /\ UNCHANGED <<storeVars, call, compaction, job>>

\* ReapAbandonedWriteOps fences an idle handle and abandons the operation that it
\* was the last to use, if that is still prepared.
ReapHandle(n, abandoned) ==
    LET key == handle[n].key IN
    /\ call = Free /\ Idle(n)
    /\ abandoned \/ Failures
    /\ IF /\ key # NoKey /\ abandoned
          /\ opState[key] = "prepared"
          /\ \A m \in Opened \ {n} : handle[m].key # key
       THEN finishPreparedWriteOp(key, "abandoned") /\ opPins' = [opPins EXCEPT ![key] = {}]
       ELSE UNCHANGED <<catalogVars, opPins>>
    /\ RemoveHandle(n)
    /\ UNCHANGED <<storeVars, call, compaction, job>>

\* It also abandons old operations that have no handle.
ReapOperation(key) ==
    /\ call = Free
    /\ opState[key] = "prepared"
    /\ \A n \in Opened : handle[n].key # key
    /\ finishPreparedWriteOp(key, "abandoned")
    /\ opPins' = [opPins EXCEPT ![key] = {}]
    /\ UNCHANGED <<handle, handlePins, storeVars, call, compaction, job>>

-----------------------------------------------------------------------------
(* Unlink and Rename: a transaction, then the open handles.                *)

Unlink(path) ==
    /\ call = Free
    /\ UnlinkFile(path)
    /\ call' = [step |-> "mark", gone |-> path, from |-> path, keys |-> {}]
    /\ UNCHANGED <<handle, pinVars, storeVars, compaction, job>>

\* A source without a head is renamed if a handle has it open.
Rename(oldPath, newPath) ==
    /\ call = Free /\ oldPath # newPath
    /\ \/ RenameFile(oldPath, newPath)
       \/ /\ head[oldPath] = NoFile
          /\ \E n \in Opened : /\ handle[n].path = oldPath
                               /\ ~handle[n].unlinked /\ ~handle[n].snapshot
          /\ UNCHANGED catalogVars
    /\ call' = [step |-> "mark", gone |-> newPath, from |-> oldPath, keys |-> {}]
    /\ UNCHANGED <<handle, pinVars, storeVars, compaction, job>>

\* Mutant: the operations of the marked handles are not cancelled.
MarkWithoutCancel ==
    LET gone == {n \in Opened : ~handle[n].snapshot /\ handle[n].path = call.gone} IN
    /\ call.step = "mark"
    /\ \A n \in gone : Idle(n)
    /\ handle' = [n \in Handles |-> IF n \in gone THEN [handle[n] EXCEPT !.unlinked = TRUE] ELSE handle[n]]
    /\ call' = [call EXCEPT !.step = "cancel"]
    /\ UNCHANGED <<catalogVars, pinVars, storeVars, compaction, job>>

markOpenHandlesUnlinked ==
    LET gone == {n \in Opened : ~handle[n].snapshot /\ handle[n].path = call.gone} IN
    /\ call.step = "mark"
    /\ \A n \in gone : Idle(n)
    /\ handle' = [n \in Handles |-> IF n \in gone THEN [handle[n] EXCEPT !.unlinked = TRUE] ELSE handle[n]]
    /\ call' = [call EXCEPT !.step = "cancel", !.keys = {handle[n].key : n \in gone} \ {NoKey}]
    /\ UNCHANGED <<catalogVars, pinVars, storeVars, compaction, job>>

CancelMarked(key) ==
    /\ call.step = "cancel" /\ key \in call.keys
    /\ finishPreparedWriteOp(key, "cancelled")
    /\ call' = [call EXCEPT !.keys = @ \ {key}]
    /\ UNCHANGED <<handle, pinVars, storeVars, compaction, job>>

\* Handles that still have the old name; after an Unlink all of them are unlinked.
Following == {n \in Opened : ~handle[n].unlinked /\ handle[n].path = call.from /\ call.from # call.gone}

\* Mutant: only the handle is retargeted, not its operation.
RetargetHandleOnly(n) ==
    /\ call.step = "cancel" /\ call.keys = {}
    /\ n \in Following /\ Idle(n)
    /\ handle' = [handle EXCEPT ![n].path = call.gone]
    /\ UNCHANGED <<catalogVars, pinVars, storeVars, call, compaction, job>>

\* retargetOpenHandles, one handle.
RetargetHandle(n) ==
    /\ call.step = "cancel" /\ call.keys = {}
    /\ n \in Following /\ Idle(n)
    /\ IF handle[n].key = NoKey THEN UNCHANGED catalogVars
       ELSE RetargetPreparedWriteOp(handle[n].key, call.gone)
    /\ handle' = [handle EXCEPT ![n].path = call.gone]
    /\ UNCHANGED <<pinVars, storeVars, call, compaction, job>>

NamespaceReturns ==
    /\ call.step = "cancel" /\ call.keys = {} /\ Following = {}
    /\ call' = Free
    /\ UNCHANGED <<catalogVars, handle, pinVars, storeVars, compaction, job>>

\* The request's context ends, so the next statement of the call fails.
NamespaceFails ==
    /\ Failures
    /\ call.step = "cancel" /\ (call.keys # {} \/ \E n \in Following : handle[n].key # NoKey)
    /\ call' = Free
    /\ UNCHANGED <<catalogVars, handle, pinVars, storeVars, compaction, job>>

TakeSnapshot(id) == CreateSnapshot(id) /\ UNCHANGED serviceVars
DropSnapshot(id) == DeleteSnapshots({id}) /\ UNCHANGED serviceVars

-----------------------------------------------------------------------------
(* Maintenance: maintRunMu keeps collection and compaction apart.          *)

\* Mutants: one kind of owner is forgotten.
PinnedByOperations == UNION {opPins[k] : k \in Keys}
PinnedByHandles == UNION {handlePins[n] : n \in Handles}

Pinned == (UNION {opPins[k] : k \in Keys}) \cup (UNION {handlePins[n] : n \in Handles})

CollectChunks ==
    /\ compaction = NoCompaction
    /\ GCChunks(Pinned)
    /\ UNCHANGED serviceVars

CollectVersions ==
    /\ compaction = NoCompaction
    /\ GCFileVersions
    /\ UNCHANGED serviceVars

\* A running job is one whose vlog has not been retired.
RunningDestination(v) == \E source \in Vlogs : vlog[source] = "active" /\ job[source] = v

\* Mutant: pinned chunks are left where they are.
LiveUnpinnedInVlog(v) == {h \in rows \ Pinned : refcount[h] > 0 /\ location[h] = v}

LiveChunksInVlog(v) == {h \in rows : refcount[h] > 0 /\ location[h] = v}

\* Mutant: rows are repointed before the copies are durable.
CopiesNone(source, dest) == {}

CopiedChunks(source, dest) == LiveChunksInVlog(source) \X {dest}

\* Mutant: a leased vlog is compacted.
CompactLeased(source, dest) ==
    /\ compaction = NoCompaction
    /\ vlog[source] = "active" /\ ~RunningDestination(source)
    /\ \/ job[source] = NoVlog /\ MakeVlog(dest)
       \/ job[source] = dest /\ UNCHANGED catalogVars
    /\ job' = [job EXCEPT ![source] = dest]
    /\ stored' = stored \cup CopiedChunks(source, dest)
    /\ compaction' = [step |-> "relocate", source |-> source, dest |-> dest,
                      todo |-> LiveChunksInVlog(source)]
    /\ UNCHANGED <<handle, pinVars, ahead, call>>

\* CompactVlog up to the durable copies: a source without a lease, and a new
\* destination or the one an interrupted run of the job left.
CompactBegin(source, dest) ==
    /\ compaction = NoCompaction
    /\ vlog[source] = "active" /\ lease[source] = NoKey /\ ~RunningDestination(source)
    /\ \/ job[source] = NoVlog /\ MakeVlog(dest)
       \/ job[source] = dest /\ UNCHANGED catalogVars
    /\ job' = [job EXCEPT ![source] = dest]
    /\ stored' = stored \cup CopiedChunks(source, dest)
    /\ compaction' = [step |-> "relocate", source |-> source, dest |-> dest,
                      todo |-> LiveChunksInVlog(source)]
    /\ UNCHANGED <<handle, pinVars, ahead, call>>

CompactRelocate(h) ==
    /\ compaction.step = "relocate" /\ h \in compaction.todo
    /\ RelocateChunk(h, compaction.dest)
    /\ compaction' = [compaction EXCEPT !.todo = @ \ {h}]
    /\ UNCHANGED <<handle, pinVars, storeVars, call, job>>

\* retireVlogLocked: a pinned chunk that still has its row in the source keeps it
\* for a later run.
CompactFinish ==
    LET source == compaction.source IN
    /\ compaction.step = "relocate" /\ compaction.todo = {}
    /\ IF \E h \in rows \cap Pinned : location[h] = source
       THEN UNCHANGED <<catalogVars, storeVars>>
       ELSE /\ RetireVlog(source)
            /\ stored' = {b \in stored : b[2] # source}
            /\ ahead' = ahead \ {source}
    /\ compaction' = NoCompaction
    /\ UNCHANGED <<handle, pinVars, call, job>>

CompactFails ==
    /\ compaction # NoCompaction
    /\ compaction' = NoCompaction
    /\ UNCHANGED <<catalogVars, handle, pinVars, storeVars, call, job>>

\* The process ends.  The catalog stays; vlogs are cut back to their recorded
\* lengths, so of the bytes only those a chunk row names are sure to remain.
Crash ==
    /\ handle' = [n \in Handles |-> NoHandle]
    /\ opPins' = [k \in Keys |-> {}]
    /\ handlePins' = [n \in Handles |-> {}]
    /\ stored' = {b \in stored : b[1] \in rows /\ location[b[1]] = b[2]}
    /\ ahead' = {}
    /\ call' = Free
    /\ compaction' = NoCompaction
    /\ UNCHANGED <<catalogVars, job>>

-----------------------------------------------------------------------------
HandleSteps ==
    \/ \E n \in Handles, p \in Paths : Open(n, p)
    \/ \E n \in Handles, p \in Paths, k \in Keys : OpenForWrite(n, p, k)
    \/ \E n \in Handles, id \in Snapshots, p \in Paths : OpenSnapshot(n, id, p)
    \/ \E n \in Handles : ensureWriteOperation(n) \/ Refresh(n)
    \/ \E n \in Handles, i \in Extents, h \in Hashes : Write(n, i, h)
    \/ \E n \in Handles, i \in Extents : Truncate(n, i) \/ PinChunk(n, i)
    \/ \E n \in Handles : ReuseChunk(n) \/ StoreFails(n)
    \/ \E n \in Handles, v \in Vlogs : StoreChunk(n, v)

FinishSteps ==
    \/ \E n \in Handles : CloseReader(n) \/ CloseUnlinked(n)
    \/ \E n \in Handles, remove \in BOOLEAN : CloseCommitted(n, remove) \/ BeginPublish(n, remove)
    \/ ReleaseCommitted \/ FinishCommitted
    \/ rehomePublicationChunks
    \/ \E replies \in BOOLEAN : publishPreparedVersion(replies)
    \/ CloseFails
    \/ \E n \in Handles, done \in BOOLEAN : AbortHandle(n, done) \/ ReapHandle(n, done)
    \/ \E k \in Keys : ReapOperation(k)

NamespaceSteps ==
    \/ \E p \in Paths : Unlink(p)
    \/ \E p, q \in Paths : Rename(p, q)
    \/ markOpenHandlesUnlinked
    \/ \E k \in Keys : CancelMarked(k)
    \/ \E n \in Handles : RetargetHandle(n)
    \/ NamespaceReturns
    \/ NamespaceFails
    \/ \E id \in Snapshots : TakeSnapshot(id) \/ DropSnapshot(id)

MaintenanceSteps ==
    \/ Expire
    \/ CollectChunks
    \/ CollectVersions
    \/ \E v \in Vlogs : ProvisionVlog(v)
    \/ \E source, dest \in Vlogs : CompactBegin(source, dest)
    \/ \E h \in Hashes : CompactRelocate(h)
    \/ CompactFinish
    \/ CompactFails
    \/ Crash
    \/ Tick /\ UNCHANGED serviceVars

ServiceNext == HandleSteps \/ FinishSteps \/ NamespaceSteps \/ MaintenanceSteps

ServiceSpec == ServiceInit /\ [][ServiceNext]_<<catalogVars, serviceVars>>

-----------------------------------------------------------------------------
(* Properties.                                                             *)

Plans == [Extents -> Slots]

Calls ==
    {Free} \cup [step : CloseSteps, handle : Handles, remove : BOOLEAN, plan : Plans]
           \cup [step : {"mark", "cancel"}, gone : Paths, from : Paths, keys : SUBSET Keys]

Compactions ==
    {NoCompaction} \cup [step : {"relocate"}, source : Vlogs, dest : Vlogs, todo : SUBSET Hashes]

\* Types of the server's tables (FileHandle, pinnedChunks) and of the calls that
\* hold its locks.
ServiceTypeOK ==
    /\ handle \in [Handles -> FileHandle \cup {NoHandle}]
    /\ opPins \in [Keys -> SUBSET Hashes]
    /\ handlePins \in [Handles -> SUBSET Hashes]
    /\ stored \subseteq Hashes \X Vlogs
    /\ ahead \subseteq Vlogs
    /\ call \in Calls
    /\ compaction \in Compactions
    /\ job \in [Vlogs -> Vlogs \cup {NoVlog}]

\* Every chunk row, dead or alive, names bytes that exist: publication, relocation
\* and retirement never leave the catalog ahead of the disks.
RowsHaveBytes == \A h \in rows : <<h, location[h]>> \in stored

\* Content a handle has pinned stays on disk, whatever collections, compactions,
\* overwrites and unlinks run meanwhile: its row, which names bytes, survives.
\* Only a Flush that retries a committed operation can pin a chunk that is gone
\* already, because finishHandle looks up the version before it takes pinMu.
PinnedContentSurvives == \A n \in Opened : HashesOf(handle[n].chunks) \ handle[n].lost \subseteq rows

\* The chunks an unfinished operation has stored or reused are still there for
\* its Close: in a row, or in a vlog it has leased; but for those that were gone
\* when the handle pinned them.
PlannedContentSurvives ==
    \A n \in Opened : handle[n].key # NoKey /\ opState[handle[n].key] = "prepared" =>
        \A i \in Extents : LET slot == CacheOf(n)[i] IN
            slot[2] \in Vlogs =>
                \/ slot[1] \in rows \cup handle[n].lost
                \/ slot \in stored /\ lease[slot[2]] = handle[n].key

\* A compaction that has moved what was live when it began finds nothing live in
\* its source, so RetireVlog does not refuse.
DrainedSourceRetires ==
    compaction # NoCompaction /\ compaction.todo = {} =>
        \A h \in rows : location[h] = compaction.source => refcount[h] <= 0

\* A version is published under the name its operation has in the catalog.
PublishedWhereIntended ==
    [][\A k \in Keys : opState[k] = "prepared" /\ opState'[k] = "committed" =>
          head'[opPath[k]] = opFile'[k]]_<<catalogVars, serviceVars>>

\* Once Unlink or a replacing Rename has returned, no operation of a handle that
\* had the name open commits.
UnlinkedNeverPublishes ==
    [][\A n \in Opened : handle[n].unlinked /\ handle[n].key # NoKey /\ opState[handle[n].key] = "prepared" =>
          opState'[handle[n].key] # "committed"]_<<catalogVars, serviceVars>>

\* Every step of the service is a transaction of the catalog or leaves it alone.
UsesCatalog == [][Next]_catalogVars

-----------------------------------------------------------------------------
(* What the documents say that the code does not do.                       *)

\* Whatever an open handle serves is held against collection: "Flush replaces the
\* set with the newly opened version", and "These orderings close lookup-to-pin and
\* check-to-delete gaps" (docs/concurrency-ownership.md).
OpenContentPinned == \A n \in Opened : HashesOf(handle[n].chunks) \subseteq rows

\* resolveVlog reads at the live row, or else where the handle last saw the chunk.
ReadFrom(slot) == IF Live(slot[1]) THEN location[slot[1]] ELSE slot[2]

\* The content of an open version can be read: "Readers resolve the current
\* canonical location" (docs/concurrency-ownership.md).
OpenHandleReadable ==
    \A n \in Opened, i \in Extents :
        LET slot == handle[n].chunks[i] IN slot # Empty => <<slot[1], ReadFrom(slot)>> \in stored

\* A placement got under an operation's pin can be used until it publishes: "a
\* non-empty result is safe to reuse for the rest of the operation" (pin.go).
ReusedPlacementUsable ==
    \A n \in Opened : handle[n].key # NoKey /\ opState[handle[n].key] = "prepared" =>
        \A i \in Extents : LET slot == CacheOf(n)[i] IN
            slot[2] \in Vlogs /\ slot[1] \in opPins[handle[n].key] => vlog[slot[2]] = "active"

\* An operation's pins end with it: they are released by "Publication or durable
\* cancellation/abandonment cleanup" (docs/concurrency-ownership.md), at the
\* latest when no handle of the ended operation is left.
OperationPinsReleased ==
    \A k \in Keys : opPins[k] # {} =>
        opState[k] = "prepared" \/ \E n \in Opened : handle[n].key = k

-----------------------------------------------------------------------------
(* The inductive invariant behind the properties above.                    *)

Prepared(n) == handle[n].key # NoKey /\ opState[handle[n].key] = "prepared"
Pinning(n) == n \in Opened /\ handle[n].pinning # 0

\* The hash a handle is storing.
PinnedHash(n) == Pending(n)[handle[n].pinning][1]

\* A handle without an operation has nothing of its own; an operation that a
\* handle names has a row; the chunks of an open version are pinned.
HandlesBound ==
    \A n \in Opened :
        /\ handle[n].key = NoKey => handle[n].cache = NoCache /\ handle[n].pinning = 0
        /\ handle[n].key # NoKey => opState[handle[n].key] # "none"
        /\ HashesOf(handle[n].chunks) \subseteq handlePins[n]

\* The call that closes a handle holds the handle and the lock of its operation.
CloseHoldsHandle ==
    call.step \in CloseSteps =>
        /\ call.handle \in Opened
        /\ handle[call.handle].key # NoKey
        /\ ~handle[call.handle].unlinked
        /\ call.step # "plan" => handle[call.handle].pinning = 0
        /\ call.step \in {"committed", "released"} => ~Prepared(call.handle)
        /\ \A n \in Opened \ {call.handle} : handle[n].key = handle[call.handle].key => handle[n].pinning = 0

\* One handle of an operation pins at a time; its pin is there until the operation ends.
OnePinAtATime ==
    /\ \A m, n \in Handles : Pinning(m) /\ Pinning(n) /\ handle[m].key = handle[n].key => m = n
    /\ \A n \in Handles : Pinning(n) =>
          /\ Pending(n)[handle[n].pinning] \in Hashes \X {NoVlog}
          /\ Prepared(n) => PinnedHash(n) \in opPins[handle[n].key]

\* A pin that StoreChunk and StoreFails would take back.
Transient(key, h) ==
    \E n \in Handles : Pinning(n) /\ handle[n].key = key /\ ~handle[n].already /\ PinnedHash(n) = h

\* Why a placed chunk of an unfinished operation stays: the handle's version
\* holds it, or the operation's pin does, or the operation's lease.
Kept(n, slot) ==
    LET key == handle[n].key IN
    \/ slot[1] \in HashesOf(handle[n].chunks)
    \/ slot[1] \in rows \cap opPins[key] /\ ~Transient(key, slot[1])
    \/ slot \in stored /\ lease[slot[2]] = key

SlotsKept ==
    \A n \in Opened : Prepared(n) =>
        \A i \in Extents : CacheOf(n)[i][2] \in Vlogs => Kept(n, CacheOf(n)[i])

\* A compaction's source is not leased, the chunks it has yet to move are in the
\* destination as well, and no other chunk of the source is live.
CompactionInv ==
    compaction # NoCompaction =>
        /\ compaction.dest # compaction.source
        /\ lease[compaction.source] = NoKey
        /\ compaction.todo \X {compaction.dest} \subseteq stored
        /\ LiveChunksInVlog(compaction.source) \subseteq compaction.todo

\* RowsHaveBytes, PinnedContentSurvives and the parts that preserve them.
ServiceInv ==
    /\ CatalogInv
    /\ ServiceTypeOK
    /\ RowsHaveBytes
    /\ PinnedContentSurvives
    /\ HandlesBound
    /\ CloseHoldsHandle
    /\ OnePinAtATime
    /\ SlotsKept
    /\ CompactionInv

\* An unfinished operation has the path of its handles, but for those a Rename
\* has yet to retarget; those of an unlinked name are about to be cancelled; a
\* key the server made up belongs to one handle.
NamesInv ==
    /\ \A n \in Opened : Prepared(n) /\ ~handle[n].unlinked =>
          \/ handle[n].path = opPath[handle[n].key]
          \/ /\ call.step \in {"mark", "cancel"} /\ call.from # call.gone
             /\ handle[n].path = call.from /\ opPath[handle[n].key] = call.gone
    /\ \A n \in Opened : Prepared(n) /\ handle[n].unlinked /\ handle[n].key \in ClientKeys =>
          call.step = "cancel" /\ handle[n].key \in call.keys
    /\ \A m, n \in Opened :
          handle[m].key = handle[n].key /\ handle[n].key \in Keys \ ClientKeys => m = n
=============================================================================
