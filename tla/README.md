# TLA+ verification of Rose

Rose is a content-addressed file store: files are arrays of chunks, chunks live
in append-only virtual logs (vlogs) that mirror or erasure-code physical logs
(plogs), and a SQLite catalog says which version every name has and where every
chunk is. This directory models the parts where correctness depends on order:
what a power failure leaves, what a late Close may still do, what collection and
compaction may take away, where the copies of a log are while they move, and what
overlapping writes add up to.

## Inventory

| Component | State | Operations | Meets |
| --- | --- | --- | --- |
| Rollback journal, `storage/undo.go` | `<plog>.undo`, its temporary file, `Plog.undoActive/undoStart` | `saveUndo`, `commitUndo`, `restoreUndo`, `discardUndoTemp` | called by the plog before every destructive write, at commit and at open |
| Plog, `storage/plog.go` | sectors, hash sectors, trailer; open sector, hashes and evidence flags in memory | append, `Commit`, `TruncateTo`, open, `RecoverHashes`, read | the journal below it, a vlog above it |
| Vlog, `storage/vlog.go` | shard clients, length, complete replicas | `EnsureWrite`, `CommitPrefix`, `Read`, `ReconcileShardLengths` | plogs, publication |
| Catalog, `meta/` | tables `file`, `file_head`, `snapshot`, `snapshot_file`, `write_result_root`, `chunk`, `write_op`, `vlog_lease`, `vlog`, `job`, disks, policies | one transaction per method | every server operation |
| Write cache, `server/writecache.go`, `finalizeCache` | base version, settled chunks, pending spans, length | `WriteAt`, `ReadAt`, `Truncate`, spill, splice | the file service |
| File service, `server/api.go` | handles, write caches, `unlinked`, paths, operation ids | Open, Write, Truncate, Close/Flush, Abort, Unlink, Rename, snapshots | catalog, pins, vlogs |
| Pins and collection, `server/pin.go`, `server.go` | `pinnedChunks` by operation and by handle | pin-and-resolve, release, `GC` | file service, compaction |
| Control plane, `server/control_plane.go` | disk and node states, open and offline plogs | `SetDiskState`, `SetNodeState`, catch-up, remount | vlogs, catalog |
| Publication, `server/publication.go`, `durability/` | the coordinator's position | admit, sync, record prefix, verify, publish | vlogs, catalog |
| Reaper, `server/reaper.go` | clock | fence idle handles, abandon operations | handles, catalog |
| Compaction, promotion, `server/compaction.go`, `promotion.go` | jobs | compaction, promotion | vlogs, pins, catalog |
| Relocation and repair, `server/maintenance.go`, `relocation_outcome.go`, `meta/disks.go`, `meta/placement_epoch.go` | jobs, placements, generations, quarantined vlogs | drain, replacement, rebalance, reprotection, repair, sweep, resumption | control plane, vlogs, catalog |

What is hard here: power failure between any two system calls of the journal;
calls that fail half way; mounts that must decide what an unproven sector is
worth; goroutines that meet between the transaction of a call and its in-memory
part; placements that were looked up and then moved; retries of operations that
have ended; quorums that return before their slowest call; copies that come back;
transactions whose outcome is not known; disk rows that are replaced behind a copy
under way; bytes that are spilled, cut and written again.
`PROJECT.json` lists each of these hazards at its line, with the
properties that would notice it going wrong.

## Modules

| Module | Models | Built on |
| --- | --- | --- |
| `CommitContract` | what a plog file promises: an open shows acknowledged contents, or those of a commit that had synced | |
| `UndoJournal` | `undo.go`, one action per system call | implements `CommitContract` |
| `UndoJournalProofs` | proofs about `UndoJournal` | `UndoJournal` |
| `Plog` | `plog.go` on top of the contract, with decay of the medium | uses `CommitContract` |
| `PlogProofs` | proofs about `Plog` | `Plog` |
| `Catalog` | the transactions of `meta/` that touch versions, references, operations, leases and vlog rows | |
| `CatalogProofs` | proofs about `Catalog` | `Catalog` |
| `VlogMirror` | a mirrored vlog of `storage/vlog.go`, failure and return of its disks in `server/control_plane.go`, restart | |
| `VlogMirrorProofs` | proofs about `VlogMirror` | `VlogMirror` |
| `Relocation` | the copies of mirrored vlogs: `server/maintenance.go`, failure and return of disks, the sweep, recovery | |
| `RelocationProofs` | proofs about `Relocation` | `Relocation` |
| `WriteCache` | one handle's cache at byte level: `server/writecache.go`, `spillCache`, `finalizeCache` | |
| `WriteCacheProofs` | proofs about `WriteCache` | `WriteCache` |
| `FileService` | `server/`: handles, pins, publication, reaper, namespace calls, collection, mirror compaction, crash | extends `Catalog` |
| `FileServiceProofs` | proofs about `FileService`: content | `FileService`, `CatalogProofs` |
| `PublicationProofs` | proofs about `FileService`: names | `FileServiceProofs` |
| `MC*` | TLC instances | |

### UndoJournal

A file is a function from sectors to contents with `Absent` past its end. `pc` is
the `undoCheckpoint` last passed. `dirty` holds the sectors changed since the last
successful fsync and `exposed` the versions of `<plog>.undo` a power failure may
leave, so `Crash` may put anything in a dirty sector and picks any exposed
journal. `accept` is a history variable: the contents a recovery may return.
Every `...Fails` action is an error return of the code with what it leaves behind;
in particular `CommitFails` clears `undoActive` whether or not the journal is
still on disk, as `Commit` does.

Assumed of the operating system: a failed fsync leaves the pages dirty; the
superblock, which is the journal's identity of the file, does not decay.
`RebindDiskUID`, which rewrites it, is not modelled.

### Plog

A sector is a record (data, hash sector, trailer, or decayed), a hash is the hashed
contents, and a MAC is the tuple it was computed over. A logical unit stands for a
byte; two units make a sector and two sectors a block, which keeps every branch of
the geometry: ragged edge or none, block complete or not, trailer recognised at the
position its own count implies or not. `Open` takes any image that the contract
allows and then follows `reload`; `TruncateTo`, `RecoverHashes`, `AppendBuffered`,
`AppendSealing` and the commit steps are the methods of the same name. `stream` is
a history variable with the units appended and not truncated.

### VlogMirror

One vlog with protection `DUPLICATE` and its copies. `disk` is what a running plog
holds and `durable` what a reopen shows, as `CommitContract` promises. A fanout is a
set of `calls` that answer one by one; when it has its quorum, or cannot get it, the
calls still running become `Stray` and may land at any later time, which is what the
goroutines of `fanoutQuorumEligible` do. `mounts` holds the `Vlog` objects since the
start: a remount adds one, and a request that resolved an older one still uses it.
`lock` is the holder of `vlogMu` where it is held across several steps: a CommitVlog
until its length is recorded, a topology change until it ends. `CatchUp` is one copy
of `catchUpDuplicatePlogLocked` (`Verified`, then `Filled`); `CatchUpFails` leaves
the copy wherever an error can leave it. A range is compared and copied as one
`copyChunk`. `stream` is a history variable with the units that the object mounted at
the time has acknowledged.

Logs that belong to no dedup domain, which clients write with WriteVlog and
CommitVlog, need `min(minCopies, copies)` answers; logs of files need all of them, which is
the instance with `MinCopies` equal to the number of copies. Remounts keep an
uncommitted cursor, as the code does for logs without a domain and for leased ones.
`LateWriters` lets an RPC pause between resolving the vlog and locking it, while a
topology change begins, as the code does: `WaitForWrites` waits for the holder of `writeMu`
only. The theorem `AcknowledgedStaysMounted` has it; the runs, and the proofs of
what the copies hold, do not.

### Catalog

Every action is a transaction; the pool has one connection, so they are serial and
a failed one changes nothing. A version is an array of extents holding hashes.
`PublishChunks` keeps the order of `publishFileVersion`: the old head releases its
references first, so a chunk that only it held looks dead and takes the new
placement. Ids of files, snapshots and vlogs are never reused. A retry result is
the second owner of the version it keeps.

### FileService

An action is what happens under one lock between two points where another goroutine
can get in. `call` is the holder of `namespaceMu` and its progress: a Close between
its plan and its publication, a Close or Flush that found its operation committed and is
between the lookup of the chunks, the release of the operation's pins and the pins of the
handle (`CloseCommitted`, `ReleaseCommitted`, `FinishCommitted`), or a Unlink or Rename
between its transaction and the open handles. Open and refreshCommittedHandle look up and pin under
`pinMu`, in one step. The field `lost` of a handle is a history variable: the chunks
that a collection had taken before such a retried Flush pinned them. `vlogMu` is held from `CompactBegin` to the end of the compaction. A
handle between pinning a chunk and resolving it holds its `stateMu` and its
operation's lock (`pinning`). `stored` says which vlogs hold a chunk's bytes and
`ahead` which vlogs have grown past their recorded length, so that another
operation cannot claim them. A compaction job is running while its source is
active; its destination is `maintenance_owned`. Open and Close wait for
`Elapsed = {}` because both expire elapsed results before they do anything else.
`Failures` turns on requests that lose their context, or their reply, half way.

### Relocation

The catalog is `shard` (vlog_plog), `place` (plog.disk_id), the states of disks and
nodes, the published lengths and the running jobs. A file is the number of published
units it holds, `Absent`, or `Torn` when it opens and fails verification; what a copy
holds past the published length is `VlogMirror`'s subject. The process's memory is
`open` (the plog handles with the disk each is on), `offline`, `mount` (the clients
of each mounted vlog) and `quarantined`.

A maintenance request takes `vlogMu` for as long as it runs: `call` is that request
with the shards it still has to do, and `rel` the shard it is at. The steps of
`migratePlogLocked` are `BeginMove` (catch up, create the copy), `CopyVerified`,
`MoveCommits`, `Remounts`; each has its error return, and a remount that fails is
followed by `RollsBack` or `RollbackFails`. A commit whose outcome is not known is
`MoveUncertain`; `ResolveMoved`, `ResolveUnmoved` and `ResolveFails` are the three
answers of `ResolvePlogRelocation`. The steps of `regenerateShardLocked` are
`Regenerated` and `RepairCommits` with theirs. Between two steps a crash (`Recover`),
the death of a disk, or another catalog session that puts another disk behind the same
row (`ReplaceDiskRow`) can come in. The generations that `CapturePlacement` reads and
the statements compare are modelled by what the comparison tells: `rel.stale` has
"source", "dest" or "rollback" once a trigger has advanced the generation that the
move, or its rollback, names. `stranded` and `excused` are history variables: vlogs
whose repair failed after its repoint, and files that a fault hit or that missed a
write the quorum took. `abandoned`, another one, has the copies that were on a disk when
`SetDiskState` detached it: the call takes any state for any other and does not ask
whether the disk is empty, which drains and replacements do. A call over a disk takes
its copies in the order of `PlogsOnDisk` and ends at the first that fails (`Turn`).

`EventuallyReprotected` is checked under `FairSpec`: a call runs to its end (it is one
goroutine), writes end, and the driver comes back to every failed disk and every vlog
with an offline shard, which `RunMaintenanceOnce` does on a ticker. The fairness of
the last two is strong because each waits for `vlogMu`, which other calls take in
between, and a Go mutex does not starve a waiter.

### WriteCache

`base` and `baseLen`, `settled` and `settledLen`, `length` and `spans` are the fields
of `writeCache`; a list of chunks is the bytes it holds and the offsets where its chunks end. Every
write sends bytes that occur nowhere else, so a byte in the wrong place is always seen. `Write` has the in-place
path and the merging path of `writeLocked`; the loops of `spillCache` and
`finalizeCache` are steps (`Spill`, `Reuse`, `Rechunk`), each of which can fail.
FastCDC may cut anywhere (`Tilings`). `content` is what a plain file would hold after
the same calls, `saved` what it held at the last publication. `tainted` is set by the
three ways of losing bytes that the code has, described below; the passing run and
the proofs show that there is no fourth.

## Runs

| Run | Bounds | Shows |
| --- | --- | --- |
| `undo_journal` | 3 sectors, 2 contents, 3 faults | contents are safe against power failure at every step, every journal a crash leaves is usable, IInv holds, the contract is implemented; every started operation ends and a closed plog opens again |
| `plog` | streams of 5 units, appends of up to 2, 2 faults, 1 decayed sector | until a sector decays nothing is lost or invented, whatever failed, and the plog uses its journal as the contract says; decayed or not, it stays inside the range its journal covers and a read never returns bytes that were not appended; `PlogInv` |
| `catalog` | 2 hashes, 2 paths, 2 keys, 1 snapshot, 2 vlogs, versions of 2 extents, 2 versions | exact reference counts and what follows from them |
| `service_content` | 2 handles, 2 keys, 2 vlogs, 2 versions | no open or planned content is reclaimed; rows name bytes; a drained vlog can be retired; `ServiceInv` |
| `service_names` | 2 paths, no lost contexts | publication, unlink and rename agree on the name; `NamesInv` |
| `service_catalog` | 1 snapshot, a clock of 1 | every step of the service is a catalog transaction |
| `vlog_quorum` | 3 copies, 2 needed, streams of 2 units, 5 requests, 2 faults, 2 topology changes | complete copies hold what was acknowledged, the catalog stays behind a quorum, an acknowledged append stays mounted |
| `vlog_all` | 2 copies, both needed, appends of 2 parts, 3 requests, 2 topology changes, a restart | `MirrorInv`: the copies agree, for logs of files and across a restart |
| `relocation` | 1 vlog of 2 copies, 1 needed, 3 disks, 5 plog ids, 2 units, 1 request, 2 mishaps | no authoritative copy is lost, shortened or doubled; only `SetDiskState` detaches a disk with copies, and none arrives there; mounted vlogs use the catalog's placement; `RelocationInv`; a copy on a failed disk is rebuilt |
| `reprotect` | 2 vlogs of 2 copies on 3 disks, 6 plog ids, no writes, 1 request, 2 mishaps | each copy on a failed disk is rebuilt, unless one before it on the disk cannot be |
| `write_cache` | threshold 2, carry 1, versions of 3 bytes, writes of 3, files of 5, 4 calls, 1 fault | a handle reads and publishes what a plain file would hold; spans stay disjoint; untouched chunks are reused in place; `CacheInv` |
| `write_cache_rewrite` | an empty file, 3 calls | a disagreement, below |

Why the bounds suffice: three sectors let a journal be extended to an earlier
start while a later one is on disk, and three faults allow a failure, a crash and a
crash during the recovery from it. Five units reach the ragged edge of a second
block. Two extents with two hashes give a hash that occurs twice in one version, and
two versions an overwrite. Two handles and two keys give a retry beside a
second writer, and two vlogs a compaction with its destination. Three copies with
a quorum of two give a copy that misses a write while a quorum goes on; five requests
a failed write, a commit of what it left, a write of other bytes over it and its
commit; two topology changes a failure and a return. Three disks for two copies leave one
destination, which a rebuild, a move and its rollback compete for; five ids allow three
rebuilds, and six two for two vlogs; one request with two mishaps is a call with a failure in its commit
and another in what it does about it. Two vlogs give a call over a disk a second copy to come to after
one that it cannot rebuild. Four calls make a spill, a truncation into it, a
write over the cut and a flush, or a flush and three calls on the version it left.
The proofs remove the bounds for the journal, the plog, the catalog, the file service,
mirrored vlogs and the placement of copies.
`plog` was also explored with appends of 3 units, one of which can seal two sectors (700 thousand
states), `relocation` with 2 requests and 1 mishap (661 thousand), where a drain or
replacement that was cut short is taken up again, and `AcknowledgedIsMounted` with 2
late writers (1.9 million). `CHECK_DEADLOCK FALSE` is used in
`plog`, where a plog whose open block cannot be proven refuses to append and to
commit and has nothing left to do once the bound on faults is used up, and in the
runs of `VlogMirror` and `Relocation`, whose requests are the clients' and the
operators' and run out.

Fairness: `FairSpec` of `UndoJournal` asks for weak fairness of the steps that continue an operation
or reopen a closed plog. An operation is one goroutine that holds `Plog.mu` to its
end, and a server that is restarted opens its plogs. Nothing is assumed about
faults, writes or commits. The fairness of `Relocation` is described above.

## Disagreements between the documents and the code

- `write_cache_rewrite`: "Content priority for any logical offset, highest first: a
  covering span, then the settled prefix" (`server/writecache.go:45`). `readLocked`
  keeps to it. `finalizeCache` (`server/api.go:1709`) starts from the settled chunks as
  they are and looks at spans from `settledLen` on. A byte that was spilled and is
  written again before Close is read back by the handle and missing from the version.
  Such a span is also the first one, so it stops `spillPrefix` from spilling any more.

More, which no run of the project keeps. The first ones are the counterexamples TLC gives
when the named property is checked as described:

- `SpliceExact` and `ReadYourWrites` without `CutsUnderWrites` in `tainted`, with writes of
  5 and files of 6 bytes: `Truncate` puts the head of a settled chunk that it cuts before
  the other spans (`server/writecache.go:269`). When a newer span covers part of that
  head the two overlap, and the sort of the next merging write can put the older
  bytes on top.
- The same without the taint of `TruncateFails`: a Truncate that cannot read that head returns
  an error with `length`, `baseLen` and `spans` clipped and the settled prefix not, so
  a later extension shows old bytes where a file has zeros.
- "Flush replaces the set with the newly opened version" and "These
  orderings close lookup-to-pin and check-to-delete gaps"
  (`docs/concurrency-ownership.md:54` and `:88`): `OpenContentPinned` in `MCServiceContent.cfg`. When `finishHandle` finds the operation
  committed, because the reply was lost or another handle of the key was faster, it
  calls `FileVersionChunks` (`server/api.go:1328`) without `pinMu` and pins what it found
  at `:1370`. Another handle may have published over that version by then, so its chunks have no references;
  a collection in the gap deletes their rows, and the handle is open on content that
  compaction may drop. `PinnedContentSurvives` and `PlannedContentSurvives` except such
  chunks (`lost`) and show that no other open or planned content is lost.
- "Readers resolve the current canonical location"
  (`docs/concurrency-ownership.md:67`): `OpenHandleReadable` in `MCServiceContent.cfg`.
  `resolveVlog` (`server/api.go:759`) follows live rows only. A chunk of an open
  version that compaction has moved and whose name is then removed is looked for in
  the vlog that was retired. Its bytes are safe (`PinnedContentSurvives`); they are
  just not found.
- "Once a copy misses a write it cannot commit, serve reads, or receive later appends
  [...] until the server catches it up and remounts the vlog" (`storage/vlog.go:66`):
  `CompleteCopiesAgree` in `MCVlogQuorum.cfg` with `MaxRestarts = 1`. Which copies are
  complete is not persisted. A failed append that reached one copy is made durable
  there by the next CommitVlog; an append of other bytes succeeds on the other two;
  after a restart the first copy is long enough and is mounted as complete. With
  `MinCopies` equal to the number of copies (`vlog_all`) this cannot happen.
- Topology changes wait for writes because "Otherwise the old vlog can advance after
  we remount its replacement, and a successful client write disappears at CommitVlog"
  (`server/control_plane.go:156`): `OldVlogNeverAdvances` in `MCVlogQuorum.cfg` with
  `LateWriters = TRUE`. `WaitForWrites` waits for the holder of `writeMu`, not for an
  RPC that has resolved the vlog and is about to lock it. Its write is acknowledged by
  the replaced object, and CommitVlog commits the other one. Nothing that the mounted object
  acknowledged is lost with it (`AcknowledgedStaysMounted`).
- "ReprotectDisk regenerates every shard lost with a failed disk onto healthy disks"
  (`server/maintenance.go:211`): `EveryCopyReprotected` in `MCReprotect.cfg`. It returns at
  the first shard that it cannot rebuild (`:270`), and the order is that of the plog ids, so
  every pass of the driver stops at the same one. When both copies of one vlog have decayed,
  the copy of another vlog behind it on the failed disk is never rebuilt. Other
  disks do go on, as `server/maintenance_driver.go:103` wants. `EventuallyReprotected`
  excuses such a copy and shows that nothing else starves one.
- "so an ambiguous response cannot strand the live vlog on the deleted old catalog row"
  (`server/maintenance.go:392`): `MountedFollowsCatalog` without its exception for
  `stranded`. When the repoint of a rebuilt shard is applied and reported as failed,
  or when the remount that follows fails, `regenerateShardLocked` returns with the old
  clients mounted, over a plog whose row is gone, and unlike `migratePlogLocked` it
  does not quarantine the vlog. A restart mounts the new copy, which has missed the writes in between.
- "a non-empty result is safe to reuse for the rest of the operation"
  (`server/pin.go:55`): `ReusedPlacementUsable` in `MCServiceContent.cfg`. If
  compaction retires the vlog before Close, `rehomePublicationChunks` fails on the
  placement. The chunk still has its row (`PlannedContentSurvives`), so nothing is
  lost but the write.
- Operation pins end with "Publication or durable cancellation/abandonment cleanup"
  (`docs/concurrency-ownership.md:55`): `OperationPinsReleased` in
  `MCServiceContent.cfg`. Unlink cancels an operation and leaves its pins to Close;
  the reaper releases pins of operations that are still prepared only.
- "rename retargets its open intents" (`docs/correctness-contract.md:32`):
  `PublishedWhereIntended` in `MCServiceNames.cfg` with `Failures = TRUE`. A Rename
  whose context ends after its transaction returns an error and leaves handles with
  the old path; their Close publishes there. Without lost contexts the property holds
  (`service_names`).
- The sentence of `storage/vlog.go:66`, for a disk that returns: `CompleteCopiesAgree` in
  `MCVlogQuorum.cfg` with a fourth copy. The returned copy is caught up, but the
  open ones are not, and the remount makes all of them complete. With three copies the
  failure leaves exactly the two that every append must reach, and the property holds
  (`vlog_quorum`). The failure path catches up every survivor.

And what modelling `Relocation` showed on the way, none of it against a property: a rebuild
takes the first readable mirror (`server/maintenance.go:417`), which the catch-up of
`control_plane.go:449` calls unsafe; a drain looks at mapped shards only, so an unassigned
plog can stay on a detached disk; a quarantine keeps both files until the next sweep, which
removes the one the catalog does not name; a drain that deferred a leased vlog goes on
at the next restart or request only; a quarantined vlog keeps the disks and nodes of its
shards from returning; a rollback onto a disk whose node has failed always
quarantines; the return of a node whose reprotection is pending makes its disk
active even when the disk is dead, if it has no plogs; and `SetDiskState` detaches a disk
that holds copies without a word (`server/control_plane.go:42`), where every other way to
detach one asks first. The copies keep serving, and are not looked for elsewhere.

## Proofs

`UndoJournalProofs` proves `PowerLossSafe`, `NeverStranded`, `TypeOK` and
`ImplementsContract` for any number of sectors, contents and faults.
`PowerLossSafe` is not inductive: it says nothing of the journal being built, nor
of how two exposed journals relate. `IInv` adds that every exposed journal is
`Good` (usable, restores to accepted contents, and covers every dirty sector), that
replaying the current journal rewrites no sector an older exposed journal would
take from the file (`Agrees`), the same for the temporary file while it is built,
that `undoStart` is covered by every exposed journal while `undoActive`, and what
each checkpoint has established. The steps are proved conjunct by conjunct
(`TypeStep`, `ExposedStep`, `TempStep`, `HandleStep`, `PcStep`); `Refinement` maps
each action to a step of the contract or a stutter.

`PlogProofs` proves `PlogInv`, and from it `NeverWrongBytes`, `IntactPlogReadable`,
`RecordedPrefixStable` and `WritesStayProtected`, for every number of units in a sector and
of sectors in a block, any values, and any number of appends, failures, crashes and decayed
sectors; and that until a sector decays the plog takes steps of `CommitContract` only
(`UsesContract`). A decayed image is none of the contents the contract allows, so there is no more to say after that. What reads return
is not inductive: it depends on images that are not open, and on evidence that no read has
looked at yet. `PlogInv` says of

- the images an open may show (`AcceptInv`, `ImageInv`): each is exactly as long as its
  stream needs and ends in that stream's trailer, unless it is lost or has lost its MAC; each hash
  sector is lost or true; and all of them agree on the acknowledged prefix;
- the cursor (`CursorInv`): it is the length of the stream, but for a mount that has lost
  its trailer and counts whole sectors until `TruncateTo` cuts it back;
- memory (`EvidenceInv`): each hash of the open block matches nothing or is that of the appended
  units, which is why `RecoverHashes` may read decayed sectors and bless only proven ones;
- the file (`FileInv`): a torn append or commit has changed nothing behind the cursor;
- the journal (`UndoInv`): it covers everything from the cursor on, or it is inactive and, when the last
  block is complete, the file ends at the cursor, so that a Commit without a trailer, which
  does not call `protectPrefixLocked`, changes nothing.

The arithmetic of positions (`SectorPlace`, `HashPlace`, `Position`, `Classify`) is proved once and cited.
`ReadSectorIs` and `ReadExact` say what a read returns; `ReloadFacts` what a mount
believes after each of its fallbacks; `Shortened` what `TruncateTo` leaves; `SealedFile` and `SealedHashes` that
the sectors of a sealing append are those of the longer stream; `CommitFiles` what
each write of a Commit leaves. `NextInv` puts the actions together.

`CatalogProofs` proves `CatalogInv`, and from it `RefcountsExact`,
`OwnedVersionsIntact` and `OutcomesStable`, for finite sets of paths, keys and
snapshots and any sets of hashes and vlogs. Reference counts are cardinalities of
sets of occurrences, so the lemmas say how those sets change when one owner's entry
changes. `CatalogInv` adds that owned versions have rows, that result roots are owned
by their committed operation, that only prepared operations hold leases, and that
every chunk row, dead ones included, names an active vlog: without the last one
a dead row revived by a publication could point into a retired vlog.

`RelocationProofs` proves `RelocationInv`, and from it `PlacementWhole`,
`OneCopyPerDisk`, `NoDetachedData` and `MountedFollowsCatalog`, for any sets of vlogs and
disks, any threshold and any number of plog ids, requests and mishaps. None of the four
is inductive: a repoint is safe only because of what the steps before it have left.
`RelocationInv` adds that a plog id belongs to one shard, now and in the memory of a
mount (`IdsInv`); that handles and clients are on the catalog's disk or on none, except
those of the shard in transit (`HandlesInv`, `ClientsInv`); that a call which will detach
its disk still lists every copy there, or has deferred one (`CallInv`), so that the copies
on a detached disk are the ones `SetDiskState` left there (`abandoned`); and that the two
files of a move, and the new file of a rebuild, are whole unless the captured
generations tell that the disk behind one was replaced (`MoveInv`, `RepairInv`): the
fences of `MovePlogToDisk` and `ReplaceShardPlog` then refuse exactly the repoints
that would lose a copy. Steps that change the same parts share a lemma (`QuietStep`,
`CallStep`, `MediaStep`, `TopologyStep`, `SettledStep`, `Repointing`, `MoveEnds`,
`MoveGoesOn`, `RepointedStep`); `NextInv` puts the actions together.

`FileServiceProofs` proves `ServiceInv` and from it `RowsHaveBytes`,
`PinnedContentSurvives`, `PlannedContentSurvives` and `DrainedSourceRetires`, for any
handles, keys, hashes, vlogs and extents, with contexts and replies lost anywhere. The
first two are conjuncts; none is inductive alone. `HandlesBound` says that the chunks of
an open version are pinned, which is why a collection passes them over; the ones that a
retried Flush pinned too late (`lost`) have no row, and the invariant follows them through
the caches and plans that are built on that version.
`CloseHoldsHandle` and `OnePinAtATime` say what `namespaceMu`, `stateMu` and the lock of
an operation exclude: without them the handle of a Close could be gone when it
publishes, and one handle's failed store could take back the pin that another relies
on. `SlotsKept` gives the reason why each placed chunk of an unfinished operation
stays: the handle's own version holds it, or a pin of the operation that no failing store
would take back, or the operation's lease. `CompactionInv` says that a compaction's
source has no lease, that what it has yet to move is in the destination already, and that
nothing else in the source is live: no chunk dies and revives in the source meanwhile,
because publications wait for `vlogMu`. Steps are grouped by what they leave
alone: `Steady` steps change no row that is needed, `OneHandleStep` changes one handle,
`StoringStep` and `SettledStep` begin and end the storing of a chunk,
`MaintenanceStep` collects or compacts; `ServiceStep` puts the actions together.

Every step is also shown to be a transaction of the catalog (`ServiceUsesCatalog`), so
the service implements `Catalog` and inherits its theorems (`ServiceImplementsCatalog`).
Together with `RowsHaveBytes` this gives `OwnedContentOnDisk`: every chunk of a version
that a head, a snapshot or a retained result owns has a row, and the row names bytes that exist.

`PublicationProofs` proves `PublishedWhereIntended` and `UnlinkedNeverPublishes` for
`NamesSpec`, the service without the step `NamespaceFails`: when a Unlink or Rename loses
its context between its transaction and the open handles, handles and operations
disagree for good, and `PublishedWhereIntended` fails (see above). Everything else may
fail or crash. `NamesInv` says that an unfinished operation has the path of its handles, but for
those a Rename in progress has yet to retarget; that one of a marked handle with a
client's key is about to be cancelled; and that a key the server made up belongs to one
handle, so that no other handle can publish for a marked one.

`VlogMirrorProofs` proves `MirrorInv`, and from it
`CompleteCopiesAgree` and `RecordedOnQuorum`, for any number of copies, writers, values,
faults, topology changes and restarts. `LocksInv` says what `writeMu` and `vlogMu` exclude: one
fanout at a time, on the mounted object, and none while the topology changes.
`CallsInv` says how far each call of a fanout is and that a copy which has answered
carries the data; the calls of a fanout that has ended belong to nobody, and land wherever
the offset check of `EnsureAppend` lets them. `CopiesInv` says that the copies which are
complete and live, and those a topology change has caught up, hold the acknowledged
stream; that once a copy is away all others are complete, so it is the only one that
lags; and that the copies which hold the recorded prefix and keep it over a reopen
(`Sound`) are a quorum, so that every quorum on which a catch-up relies meets one and is right. The hypotheses are
the disagreements listed above, and each is needed:

- `~LateWriters` excludes the RPC that has resolved a vlog and not locked it
  (`server/control_plane.go:153`): what it appends through the old object is a fanout beside
  that of the mounted one;
- `OneMayLag`, for what the copies hold: a majority must answer, or catch-up takes
  the word of a minority; all but one must, or the fourth copy of the last disagreement
  lags behind; and all must, or the server never restarts, because which copies are complete is not
  persisted. Logs of files need every answer, so they satisfy it with restarts.

Every answer is a `Landing` (one copy grows, one call goes), every end of a topology
change goes through `EndMove`, and catch-up is followed through `VerifiedRight`,
`FilledFacts` and `CaughtUpFacts`: what it verifies, what it fills in, and that it
loses nothing the copy rightly had. `NextSound` puts the actions together.

`AcknowledgedIsMounted` is proved of the full specification, late RPCs and all, from an invariant
of its own, `CursorInv`, because `LocksInv` does not hold of it: the catalog's length is never ahead
of the mounted cursor, a topology change remounts at that cursor, because no fanout on the
mounted object can be under way then, and an append knows the length of the object that it has
locked, mounted or not, and advances no other.

`WriteCacheProofs` proves `SpliceExact`, `ReadYourWrites`, `SpansDisjoint` and `UntouchedReused`
for files, writes and versions of any length, any spill threshold and carry, any cuts of FastCDC and
any number of calls and failures. None of the four is inductive: a splice is exact
because of what the cache shows, and a read because of where the spans are. `CacheInv` has three parts.
The first is the type invariant: each recorded length is that of its list, spans are not
empty and end within the file. The second is `ShowsContent`, up to the first loss: spans are disjoint and ordered by
their starts, but for a head that Truncate put first above the settled prefix (`SpansOrdered`);
every offset reads as the plain file has it; what is spliced so far is a prefix of that
file. The order is needed for the fast path of `writeLocked`, which looks at the next span only and would
otherwise overrun one further on. The third part, `CleanSpliced`, holds after a loss too: every clean base
chunk is in the result where it was in the base, or begins at the position or later.

`Shown` is `readLocked` for any spans and lists, and `Matches` says that they show a content. Each operation has a lemma on
`Matches`: `WriteMatches` (by `ExtendedOverlays` for the fast path and
`CoalescedOverlays` for the merge and the sort), `SpillMatches`, `TruncateMatches` and `TruncateCutMatches`
(a cut settled chunk), `FreshMatches`. `WindowFacts` says that a dirty
window ends at or before the next clean chunk, `ReuseFacts` and `RechunkFacts` follow the
splice, and `SplicedWhole` is the publication. Theorems of the library on
sequences, finite sets and well-founded orders give `MinFacts` and `MaxFacts`, the slices and the
listings of sets; no induction over data is needed.

Assumptions are the named `ASSUME`s of the modules and say only that bounds are
numbers, that a version first opened is no longer than the longest file, that the spill carry is positive and within the threshold, that finite sets are finite, that markers (a hash that matches nothing, a failed read, an absent sector) are no contents, and that
provisioning gave every shard a plog of its own and the shards of a vlog different disks.

Left to TLC: liveness (`EventuallyIdle` and `EventuallyReprotected`), which is beyond this
prover. Every other property of a passing run is proved, under the hypotheses named here.

## Plan

1. `UndoJournal`, `CommitContract`, proofs: done.
2. `Plog`, proofs: done.
3. `Catalog`, proofs: done.
4. `FileService`, proofs that it implements `Catalog`, keeps content and publishes
   under the right name: done.
5. `VlogMirror`, proofs: done for mirrors.
6. `Relocation`, proofs: done for mirrors.
7. `WriteCache`, proofs: done.

## Not modelled

- The coordinator's points inside one publication: `FileService` takes it as one step
  under `vlogMu` and `pinMu`, and `VlogMirror` has the syncs and the recorded lengths.
- Erasure-coded vlogs, promotion to them and their compaction: shards of one
  stripe hold different bytes, so nothing of `VlogMirror` carries over but the fanout.
- Snapshot retention tiers: a pure function of a set of times; what a deletion does to
  references is `DeleteSnapshots` of `Catalog`.
- Directories, buckets and policies: rows beside the versions, without a protocol.
- Rebuilding a catalog from plog contents, disk registration and identity markers.
- `TruncateTo` of a running plog, which catch-up calls: `Plog` has it at mount, and
  `VlogMirror` what it does to a copy.
- In `Relocation`, a rollback that errors while the old file cannot be mounted either, and
  I/O errors while a failed disk is taken offline, other than copies that cannot be caught up or remounted.
- The order of locks: `FileService` takes several locks in one step, so it cannot
  show a deadlock on their order.
- Encodings and cryptography, the FUSE, WebDAV and command line adapters, and the
  read-only consistency checker.
