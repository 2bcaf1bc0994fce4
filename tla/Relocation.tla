----------------------------- MODULE Relocation -----------------------------
(***************************************************************************)
(* Where the copies of mirrored vlogs are, and the maintenance that moves  *)
(* and rebuilds them (server/maintenance.go, server/relocation_outcome.go, *)
(* meta/disks.go, meta/placement_epoch.go): drain, replacement, rebalance, *)
(* reprotection, repair, failure and return of disks and nodes, the sweep  *)
(* of stray files, and recovery.                                           *)
(*                                                                         *)
(* A call holds vlogMu from its first to its last step.  Between two steps *)
(* the process can crash, a disk can die, and another catalog session can  *)
(* register another disk under the same id.  Every disk is on a node of    *)
(* its own.  A file is the number of published units it holds of its vlog; *)
(* unpublished tails are the subject of VlogMirror.                        *)
(***************************************************************************)
EXTENDS Integers, FiniteSets

CONSTANTS Vlogs, Shards, Disks, NoDisk,
          MinCopies,          \* the server's durability threshold
          InitialShard,       \* the mapping and the placement that
          InitialPlace,       \*   provisioning left
          MaxPlogs, MaxLength, MaxRequests, MaxMishaps    \* bounds

Plogs  == 1 .. MaxPlogs       \* plog ids, given out once each
NoPlog == 0
Absent == -1
Torn   == -2                  \* opens, and fails verification
Evacuations == {"drain", "replace", "rebalance"}
Kinds  == Evacuations \cup {"reprotect", "repair"}

ASSUME ConstantsAssumption ==
    /\ NoDisk \notin Disks
    /\ IsFiniteSet(Shards) /\ MinCopies \in Nat
    /\ {MaxPlogs, MaxLength, MaxRequests, MaxMishaps} \subseteq Nat
ASSUME InitialAssumption ==
    /\ InitialShard \in [Vlogs -> [Shards -> Plogs]]
    /\ InitialPlace \in [Plogs -> Disks \cup {NoDisk}]
    /\ \A v, w \in Vlogs, s, t \in Shards :
          /\ InitialPlace[InitialShard[v][s]] # NoDisk
          /\ InitialShard[v][s] = InitialShard[w][t] => v = w /\ s = t
          /\ InitialPlace[InitialShard[v][s]] = InitialPlace[InitialShard[v][t]] => s = t
    /\ \A p \in Plogs : InitialPlace[p] # NoDisk =>
          \E v \in Vlogs, s \in Shards : p = InitialShard[v][s]

VARIABLES shard, place,        \* catalog: vlog_plog, and plog.disk_id
          diskState, nodeDown, \* catalog: disk.state, failed nodes
          abandoned,           \* history: the copies on a disk that was set detached
          length,              \* catalog: vlog.length
          jobs,                \* catalog: the running jobs
          spent,               \* catalog: the plog ids given out
          file, gone,          \* the media, and the disks that are dead
          excused,             \* history: files a fault hit or that missed a write
          open, offline,       \* s.plogs, with the disk of each handle; s.offlinePlogs
          mount,               \* s.vlogs: the clients of each vlog
          stranded,            \* history: vlogs whose repair failed after its repoint
          quarantined,         \* s.quarantinedVlogs, which are not mounted
          busy,                \* vlogs with a lease or active I/O
          call,                \* the maintenance call that holds vlogMu
          rel,                 \* the relocation or regeneration it is at
          requests, mishaps

topologyVars == <<diskState, nodeDown, abandoned>>
catalogVars  == <<shard, place, length, spent>>
mediaVars    == <<file, gone, excused, stranded>>
memoryVars   == <<open, offline, mount, quarantined>>
boundVars    == <<requests, mishaps>>
vars == <<topologyVars, catalogVars, jobs, mediaVars, memoryVars, busy, call, rel, boundVars>>

-----------------------------------------------------------------------------
PlogsOf(v) == {shard[v][s] : s \in Shards}
Mapped     == UNION {PlogsOf(v) : v \in Vlogs}
VlogOf(p)  == CHOOSE v \in Vlogs : p \in PlogsOf(v)

PlogsOnDisk(d) == {p \in Mapped : place[p] = d}
OpenOf(v)      == {p \in PlogsOf(v) : open[p] # NoDisk}

\* diskReachableLocked and diskLiveLocked.
Reachable(d) == diskState[d] # "failed" /\ d \notin nodeDown
Live(d)      == diskState[d] = "active" /\ d \notin nodeDown

\* min(s.minCopies, len(mappings)).
Threshold == IF MinCopies < Cardinality(Shards) THEN MinCopies ELSE Cardinality(Shards)

Free  == [kind |-> "free", on |-> NoDisk, dest |-> NoDisk, todo |-> {},
          deferred |-> FALSE, failed |-> FALSE]
Call(kind, on, dest, todo) == [Free EXCEPT !.kind = kind, !.on = on, !.dest = dest, !.todo = todo]
NoRel == [pc |-> "none"]
Job(kind, on, dest) == [kind |-> kind, on |-> on, dest |-> dest]

\* The client of a plog: its open file, or the stub of an offline one.
Client(p, handles) == [plog |-> p, disk |-> handles[p]]

\* The clients that mounting builds, for the vlogs in which.
Mounting(which, handles) ==
    [v \in Vlogs |-> IF v \in which THEN [s \in Shards |-> Client(shard[v][s], handles)] ELSE mount[v]]

\* mountVlogLocked: every shard is open or known offline, and no open file is
\* short of the published length.
Mountable(v, mapping, handles, stubs, media) ==
    /\ v \notin quarantined
    /\ \A s \in Shards :
          LET p == mapping[v][s] IN
          /\ handles[p] # NoDisk \/ p \in stubs
          /\ handles[p] # NoDisk => media[handles[p]][p] \notin 0 .. length[v] - 1

Init ==
    /\ shard = InitialShard /\ place = InitialPlace
    /\ diskState = [d \in Disks |-> "active"] /\ nodeDown = {} /\ abandoned = {}
    /\ length = [v \in Vlogs |-> 1]
    /\ jobs = {} /\ spent = {p \in Plogs : InitialPlace[p] # NoDisk}
    /\ file = [d \in Disks |-> [p \in Plogs |-> IF InitialPlace[p] = d THEN 1 ELSE Absent]]
    /\ gone = {} /\ excused = {} /\ stranded = {}
    /\ open = InitialPlace /\ offline = {}
    /\ mount = [v \in Vlogs |-> [s \in Shards |-> Client(InitialShard[v][s], InitialPlace)]]
    /\ quarantined = {} /\ busy = {}
    /\ call = Free /\ rel = NoRel
    /\ requests = 0 /\ mishaps = 0

\* Errors of the file system and of the database, faults of the media and
\* crashes are bounded together, and so is what operators ask for.
Mishap  == mishaps < MaxMishaps /\ mishaps' = mishaps + 1 /\ UNCHANGED requests
Request == requests < MaxRequests /\ requests' = requests + 1 /\ UNCHANGED mishaps
Error   == Mishap
NoError == UNCHANGED boundVars

-----------------------------------------------------------------------------
(* Clients.  A write publishes one unit on the copies that took it, which  *)
(* are at least the quorum.                                                *)

\* A handle that a repair left behind is in no table, and stays open.
Alive(c) == c.disk # NoDisk /\ (open[c.plog] = c.disk \/ place[c.plog] = NoDisk)

\* An append needs a live handle on a file that ends where the vlog does.
Takes(v, c) == Alive(c) /\ file[c.disk][c.plog] \in {length[v], Torn}

\* liveShardCountLocked against commitThreshold.
CommitReady(v) == Cardinality({p \in PlogsOf(v) : p \notin offline /\ Reachable(place[p])}) >= Threshold

BeginWrite(v) ==
    /\ call = Free /\ v \notin busy \cup quarantined
    /\ length[v] < MaxLength
    /\ busy' = busy \cup {v}
    /\ UNCHANGED <<topologyVars, catalogVars, jobs, mediaVars, memoryVars, call, rel, boundVars>>

EndWrite(v) ==
    /\ v \in busy \ quarantined /\ CommitReady(v)
    /\ \E took \in SUBSET {s \in Shards : Takes(v, mount[v][s])} :
          /\ Cardinality(took) >= Threshold
          /\ file' = [d \in Disks |-> [p \in Plogs |->
                IF file[d][p] # Torn /\ \E s \in took : mount[v][s] = [plog |-> p, disk |-> d]
                THEN file[d][p] + 1 ELSE file[d][p]]]
          /\ excused' = excused \cup {<<place[shard[v][s]], shard[v][s]>> :
                s \in {t \in Shards \ took : mount[v][t].plog = shard[v][t]}}
    /\ length' = [length EXCEPT ![v] = @ + 1]
    /\ busy' = busy \ {v}
    /\ UNCHANGED <<topologyVars, shard, place, spent, jobs, gone, stranded, memoryVars, call, rel, boundVars>>

AbortWrite(v) ==
    /\ v \in busy
    /\ busy' = busy \ {v}
    /\ UNCHANGED <<topologyVars, catalogVars, jobs, mediaVars, memoryVars, call, rel, boundVars>>

-----------------------------------------------------------------------------
(* Catching up a copy: catchUpDuplicatePlogLocked takes every byte from    *)
(* readCommittedDuplicateRangeLocked, which wants Threshold equal copies.  *)

Agreed(v, readable) == Cardinality({p \in readable : file[place[p]][p] = length[v]}) >= Threshold

CanCatchUp(v, copies, readable) ==
    copies # {} => Agreed(v, readable) /\ \A p \in copies : file[place[p]][p] # Absent

\* The media after copies, each a mapped plog, have been brought up.
CaughtUp(copies) ==
    [d \in Disks |-> [p \in Plogs |->
        IF p \in copies /\ d = place[p] THEN length[VlogOf(p)] ELSE file[d][p]]]

\* The media after an error in the rewriting of copies.
Emptied(copies) ==
    [d \in Disks |-> [p \in Plogs |-> IF p \in copies /\ d = place[p] THEN 0 ELSE file[d][p]]]
Placed(copies) == {<<place[p], p>> : p \in copies}

-----------------------------------------------------------------------------
(* The end of a relocation.  A failure ends the call, except that a repair *)
(* records it and goes on with the next shard.                             *)

Return(p, failed) ==
    /\ rel' = NoRel
    /\ call' = IF ~failed THEN [call EXCEPT !.todo = @ \ {p}]
               ELSE IF call.kind = "repair" THEN [call EXCEPT !.todo = @ \ {p}, !.failed = TRUE]
               ELSE Free

\* storage.RemovePlogFiles, best effort.
Removed(media, d, p) == IF d \in gone THEN media ELSE [media EXCEPT ![d][p] = Absent]

\* Mutant: the handle of the relocated plog stays in the table.
QuarantineKeepingHandle ==
    /\ quarantined' = quarantined \cup {rel.v}
    /\ open' = open
    /\ offline' = offline \ {rel.p}
    /\ mount' = mount
    /\ Return(rel.p, TRUE)

\* quarantineRelocationLocked.
Quarantine ==
    /\ quarantined' = quarantined \cup {rel.v}
    /\ open' = [open EXCEPT ![rel.p] = NoDisk]
    /\ offline' = offline \ {rel.p}
    /\ mount' = mount
    /\ Return(rel.p, TRUE)

-----------------------------------------------------------------------------
(* migratePlogLocked: copy, verify, repoint, remount, remove.              *)

BeginMove(p, to) ==
    LET v == VlogOf(p)  from == place[p] IN
    /\ v \notin quarantined /\ to # from
    /\ CanCatchUp(v, OpenOf(v), OpenOf(v)) /\ to \notin gone
    /\ file' = [CaughtUp(OpenOf(v)) EXCEPT ![to][p] = Torn]
    /\ excused' = excused \ Placed(OpenOf(v))
    /\ rel' = [pc |-> "copying", v |-> v, s |-> CHOOSE s \in Shards : shard[v][s] = p,
               p |-> p, q |-> p, from |-> from, to |-> to, stale |-> {}, err |-> FALSE, had |-> open[p]]
    /\ UNCHANGED <<topologyVars, catalogVars, jobs, gone, stranded, memoryVars, busy, call, boundVars>>

\* An I/O error leaves a copy that was to be rewritten empty.
BeginMoveFails(p, to) ==
    LET v == VlogOf(p)
        stale == {r \in OpenOf(v) : file[place[r]][r] \notin {length[v], Absent}} IN
    /\ IF v \in quarantined \/ ~CanCatchUp(v, OpenOf(v), OpenOf(v)) \/ to \in gone
       THEN file' = file /\ NoError
       ELSE /\ Error
            /\ \E some \in SUBSET stale : file' = Emptied(some)
    /\ Return(p, TRUE)
    /\ UNCHANGED <<topologyVars, catalogVars, jobs, gone, stranded, excused, memoryVars, busy>>

CopyVerified ==
    /\ rel.pc = "copying"
    /\ file[rel.from][rel.p] \notin {Absent, Torn} /\ rel.to \notin gone
    /\ file' = [file EXCEPT ![rel.to][rel.p] = file[rel.from][rel.p]]
    /\ excused' = IF <<rel.from, rel.p>> \in excused
                  THEN excused \cup {<<rel.to, rel.p>>} ELSE excused \ {<<rel.to, rel.p>>}
    /\ rel' = [rel EXCEPT !.pc = "copied"]
    /\ UNCHANGED <<topologyVars, catalogVars, jobs, gone, stranded, memoryVars, busy, call, boundVars>>

CopyFails ==
    /\ rel.pc = "copying"
    /\ IF file[rel.from][rel.p] \in {Absent, Torn} \/ rel.to \in gone THEN NoError ELSE Error
    /\ file' = Removed(file, rel.to, rel.p)
    /\ Return(rel.p, TRUE)
    /\ UNCHANGED <<topologyVars, catalogVars, jobs, gone, stranded, excused, memoryVars, busy>>

\* Mutant: the generations that were captured are not compared.
MovePlogUnfenced(to, fences) ==
    /\ diskState[to] \in {"active", "draining"} /\ to \notin nodeDown
    /\ \A r \in PlogsOf(rel.v) \ {rel.p} : place[r] # to

\* MovePlogToDisk's WHERE clause: no captured generation has changed, the
\* destination serves, and no other copy of the vlog is there.
MovePlogToDisk(to, fences) ==
    /\ rel.stale \cap fences = {}
    /\ diskState[to] \in {"active", "draining"} /\ to \notin nodeDown
    /\ \A r \in PlogsOf(rel.v) \ {rel.p} : place[r] # to

MoveCommits ==
    /\ rel.pc = "copied" /\ MovePlogToDisk(rel.to, {"source", "dest"})
    /\ place' = [place EXCEPT ![rel.p] = rel.to]
    /\ rel' = [rel EXCEPT !.pc = "moved"]
    /\ UNCHANGED <<topologyVars, shard, length, spent, jobs, mediaVars, memoryVars, busy, call, boundVars>>

MoveRefused ==
    /\ rel.pc = "copied"
    /\ IF MovePlogToDisk(rel.to, {"source", "dest"}) THEN Error ELSE NoError
    /\ file' = Removed(file, rel.to, rel.p)
    /\ Return(rel.p, TRUE)
    /\ UNCHANGED <<topologyVars, catalogVars, jobs, gone, stranded, excused, memoryVars, busy>>

\* RelocationCommitError: the move may or may not have been applied.
MoveUncertain ==
    /\ rel.pc = "copied" /\ MovePlogToDisk(rel.to, {"source", "dest"}) /\ Error
    /\ \E d \in {rel.from, rel.to} : place' = [place EXCEPT ![rel.p] = d]
    /\ rel' = [rel EXCEPT !.pc = "uncertain", !.err = TRUE]
    /\ UNCHANGED <<topologyVars, shard, length, spent, jobs, mediaVars, memoryVars, busy, call>>

\* ResolvePlogRelocation recognises the old placement, or the new one, when
\* nothing else has changed since.
ResolveMoved ==
    /\ rel.pc = "uncertain" /\ "source" \notin rel.stale /\ place[rel.p] = rel.to
    /\ rel' = [rel EXCEPT !.pc = "moved"]
    /\ UNCHANGED <<topologyVars, catalogVars, jobs, mediaVars, memoryVars, busy, call, boundVars>>

ResolveUnmoved ==
    /\ rel.pc = "uncertain" /\ "source" \notin rel.stale /\ place[rel.p] = rel.from
    /\ file' = Removed(file, rel.to, rel.p)
    /\ Return(rel.p, TRUE)
    /\ UNCHANGED <<topologyVars, catalogVars, jobs, gone, stranded, excused, memoryVars, busy, boundVars>>

\* Mutant: the vlog stays in service when the outcome cannot be determined.
ResolveFailsUnquarantined ==
    /\ rel.pc = "uncertain"
    /\ IF "source" \in rel.stale THEN NoError ELSE Error
    /\ Return(rel.p, TRUE)
    /\ UNCHANGED <<topologyVars, catalogVars, jobs, mediaVars, memoryVars, busy>>

ResolveFails ==
    /\ rel.pc = "uncertain"
    /\ IF "source" \in rel.stale THEN NoError ELSE Error
    /\ Quarantine
    /\ UNCHANGED <<topologyVars, catalogVars, jobs, mediaVars, busy>>

Remounts ==
    LET handles == [open EXCEPT ![rel.p] = rel.to] IN
    /\ rel.pc = "moved" /\ Mountable(rel.v, shard, handles, offline, file)
    /\ open' = handles
    /\ mount' = Mounting({rel.v}, handles)
    /\ file' \in {file, Removed(file, rel.from, rel.p)}
    /\ Return(rel.p, rel.err)
    /\ UNCHANGED <<topologyVars, catalogVars, jobs, gone, stranded, excused, offline, quarantined, busy, boundVars>>

RemountFails ==
    LET handles == [open EXCEPT ![rel.p] = rel.to] IN
    /\ rel.pc = "moved"
    /\ IF Mountable(rel.v, shard, handles, offline, file) THEN Error ELSE NoError
    /\ open' = handles
    /\ rel' = [rel EXCEPT !.pc = "rollback"]
    /\ UNCHANGED <<topologyVars, catalogVars, jobs, mediaVars, offline, mount, quarantined, busy, call>>

RollsBack ==
    LET handles == [open EXCEPT ![rel.p] = rel.had] IN
    /\ rel.pc = "rollback" /\ MovePlogToDisk(rel.from, {"source", "rollback"})
    /\ Mountable(rel.v, shard, handles, offline, file)
    /\ place' = [place EXCEPT ![rel.p] = rel.from]
    /\ open' = handles
    /\ mount' = Mounting({rel.v}, handles)
    /\ file' = Removed(file, rel.to, rel.p)
    /\ Return(rel.p, TRUE)
    /\ UNCHANGED <<topologyVars, shard, length, spent, jobs, gone, stranded, excused, offline, quarantined, busy, boundVars>>

\* The move back is refused, fails with an unknown outcome, or is done and the
\* vlog does not mount on the old file either.
RollbackFails ==
    LET fits == MovePlogToDisk(rel.from, {"source", "rollback"}) IN
    /\ rel.pc = "rollback"
    /\ IF fits /\ Mountable(rel.v, shard, [open EXCEPT ![rel.p] = rel.had], offline, file)
       THEN Error /\ \E d \in {rel.from, rel.to} : place' = [place EXCEPT ![rel.p] = d]
       ELSE NoError /\ place' = [place EXCEPT ![rel.p] = IF fits THEN rel.from ELSE @]
    /\ Quarantine
    /\ UNCHANGED <<topologyVars, shard, length, spent, jobs, mediaVars, busy>>

-----------------------------------------------------------------------------
(* regenerateShardLocked: rebuild a lost copy under a new plog id, bring   *)
(* the open siblings up, repoint the shard, remount.                       *)

\* readSurvivingCopyLocked: any open sibling that holds all of the vlog.
Sources(v, lost) == {r \in OpenOf(v) \ {lost} : file[open[r]][r] = length[v]}

\* MakeRepairPlog: ids are AUTOINCREMENT, and are never used again.
FreshPlog(q) == q \notin spent /\ \A r \in Plogs \ spent : q <= r

BeginRegenerate(p, to) ==
    LET v == VlogOf(p) IN
    /\ Sources(v, p) # {}
    /\ \E q \in Plogs :
          /\ FreshPlog(q)
          /\ spent' = spent \cup {q}
          /\ place' = [place EXCEPT ![q] = to]
          /\ file' = IF to \in gone THEN file ELSE [file EXCEPT ![to][q] = Torn]
          /\ rel' = [pc |-> "writing", v |-> v, s |-> CHOOSE s \in Shards : shard[v][s] = p,
                     p |-> p, q |-> q, from |-> place[p], to |-> to, stale |-> {}, err |-> FALSE, had |-> open[p]]
    /\ UNCHANGED <<topologyVars, shard, length, jobs, gone, stranded, excused, memoryVars, busy, call, boundVars>>

BeginRegenerateFails(p) ==
    /\ IF Sources(VlogOf(p), p) = {} THEN NoError ELSE Error
    /\ Return(p, TRUE)
    /\ UNCHANGED <<topologyVars, catalogVars, jobs, mediaVars, memoryVars, busy>>

Siblings == OpenOf(rel.v) \ {rel.p}
CanRegenerate == rel.to \notin gone /\ \A r \in Siblings : file[place[r]][r] # Absent

Regenerated ==
    /\ rel.pc = "writing" /\ CanRegenerate
    /\ file' = [CaughtUp(Siblings) EXCEPT ![rel.to][rel.q] = length[rel.v]]
    /\ excused' = excused \ (Placed(Siblings) \cup {<<rel.to, rel.q>>})
    /\ open' = [open EXCEPT ![rel.q] = rel.to]
    /\ rel' = [rel EXCEPT !.pc = "regenerated"]
    /\ UNCHANGED <<topologyVars, catalogVars, jobs, gone, stranded, offline, mount, quarantined, busy, call, boundVars>>

\* The discard of a destination that nothing refers to.  When the catalog
\* refuses, the row, the handle and the file stay.
Discard(media, discarded) ==
    /\ place' = IF discarded THEN [place EXCEPT ![rel.q] = NoDisk] ELSE place
    /\ open' = IF discarded THEN [open EXCEPT ![rel.q] = NoDisk] ELSE open
    /\ file' = IF discarded THEN Removed(media, rel.to, rel.q) ELSE media
    /\ Return(rel.p, TRUE)
    /\ UNCHANGED <<topologyVars, shard, length, spent, jobs, gone, stranded, excused, offline, mount, quarantined, busy>>

\* An I/O error can leave a sibling that was to be rewritten empty.
RegenerateFails ==
    LET stale == {r \in Siblings : file[place[r]][r] \notin {length[rel.v], Absent}} IN
    /\ rel.pc = "writing"
    /\ IF CanRegenerate
       THEN /\ Error
            /\ \E some \in SUBSET stale, discarded \in BOOLEAN : Discard(Emptied(some), discarded)
       ELSE NoError /\ Discard(file, TRUE)

\* ReplaceShardPlog's WHERE clause.
ReplaceShardPlog ==
    /\ rel.stale \cap {"source", "dest"} = {}
    /\ Live(rel.to)
    /\ \A s \in Shards \ {rel.s} : place[shard[rel.v][s]] # rel.to

\* Mutant: the update names the vlog and not the shard.
RepointedEveryShard ==
    /\ shard' = [shard EXCEPT ![rel.v] = [s \in Shards |-> rel.q]]
    /\ place' = [place EXCEPT ![rel.p] = NoDisk]
    /\ UNCHANGED <<topologyVars, length, spent, jobs, gone, excused, busy>>

Repointed ==
    /\ shard' = [shard EXCEPT ![rel.v][rel.s] = rel.q]
    /\ place' = [place EXCEPT ![rel.p] = NoDisk]
    /\ UNCHANGED <<topologyVars, length, spent, jobs, gone, excused, busy>>

\* remountVlogLocked on the new mapping.
HandlesAfter == [open EXCEPT ![rel.p] = NoDisk]
CanRemount   == Mountable(rel.v, [shard EXCEPT ![rel.v][rel.s] = rel.q],
                          HandlesAfter, offline \ {rel.p}, file)

\* The repoint and the remount.  A repair also removes the old file.
RepairCommits ==
    /\ rel.pc = "regenerated" /\ ReplaceShardPlog /\ CanRemount
    /\ Repointed
    /\ open' = HandlesAfter /\ offline' = offline \ {rel.p}
    /\ mount' = [mount EXCEPT ![rel.v] = [s \in Shards |-> Client(shard'[rel.v][s], HandlesAfter)]]
    /\ file' \in {file, IF call.kind = "repair" THEN Removed(file, rel.from, rel.p) ELSE file}
    /\ Return(rel.p, FALSE)
    /\ UNCHANGED <<stranded, quarantined, boundVars>>

\* The repoint is applied and reported as failed, so that the discard finds the
\* new plog assigned; or the remount fails.  The vlog stays mounted on the old
\* plog and, unless it is quarantined, nothing keeps it from being written.
Stranded(remounting) ==
    /\ Repointed
    /\ open' = IF remounting THEN HandlesAfter ELSE open
    /\ offline' = IF remounting THEN offline \ {rel.p} ELSE offline
    /\ stranded' = stranded \cup ({rel.v} \ quarantined)
    /\ Return(rel.p, TRUE)
    /\ UNCHANGED <<file, mount, quarantined>>

\* What a failed repoint or remount leaves: the plog discarded, or kept because
\* the discard failed too, or the mapping changed.
Failures == IF ~ReplaceShardPlog THEN {"discarded"}
            ELSE IF ~CanRemount THEN {"remounting"}
            ELSE {"discarded", "kept", "applied", "remounting"}

RepairFails ==
    /\ rel.pc = "regenerated"
    /\ IF ReplaceShardPlog /\ CanRemount THEN Error ELSE NoError
    /\ \E outcome \in Failures :
          IF outcome \in {"discarded", "kept"} THEN Discard(file, outcome = "discarded")
                                             ELSE Stranded(outcome = "remounting")

-----------------------------------------------------------------------------
(* The calls: a job row, one relocation per shard, and the end of the job. *)

\* occupiedDisksLocked.
Occupied(v, from) == {place[p] : p \in PlogsOf(v)} \ {from}

\* Mutant: a destination must hold no plog at all, not even an unassigned one.
EmptyDestinations(v, from) ==
    LET free  == {d \in Disks : Live(d) /\ \A p \in Plogs : place[p] # d}
        other == free \ {from} IN
    CASE call.kind \in {"drain", "reprotect"}   -> other
      [] call.kind = "repair"                   -> IF other # {} THEN other ELSE free
      [] call.kind \in {"replace", "rebalance"} -> {call.dest} \ Occupied(v, from)

\* pickDrainDestinationLocked, pickRepairDestinationLocked, the pinned
\* destination of a replacement and the choice that a rebalance has made.
Destinations(v, from) ==
    LET free  == {d \in Disks : Live(d)} \ Occupied(v, from)
        other == free \ {from} IN
    CASE call.kind \in {"drain", "reprotect"}   -> other
      [] call.kind = "repair"                   -> IF other # {} THEN other ELSE free
      [] call.kind \in {"replace", "rebalance"} -> {call.dest} \ Occupied(v, from)

Idle == call = Free /\ UNCHANGED <<catalogVars, mediaVars, memoryVars, busy, rel>>

RunningJob(kind, d) == \E j \in jobs : j.kind = kind /\ j.on = d

\* RemoveDisk creates the job before DrainDisk takes the lock.
RemoveDisk(d) ==
    /\ Request /\ diskState[d] \in {"active", "draining"} /\ ~RunningJob("replace", d)
    /\ jobs' = jobs \cup {Job("drain", d, NoDisk)}
    /\ jobs' # jobs
    /\ UNCHANGED <<topologyVars, catalogVars, mediaVars, memoryVars, busy, call, rel>>

DrainDisk(d) ==
    /\ Idle /\ Request
    /\ diskState[d] \in {"active", "draining"} /\ ~RunningJob("replace", d)
    /\ jobs' = jobs \cup {Job("drain", d, NoDisk)}
    /\ diskState' = [diskState EXCEPT ![d] = "draining"]
    /\ call' = Call("drain", d, NoDisk, PlogsOnDisk(d))
    /\ UNCHANGED <<nodeDown, abandoned>>

\* ReplaceDisk and ReplaceDiskWith: a new job wants an empty destination.
ReplaceDiskWith(d, e) ==
    /\ Idle /\ Request
    /\ d # e /\ diskState[d] \in {"active", "draining"} /\ diskState[e] = "active"
    /\ \A j \in jobs : j.kind \in {"drain", "replace"} /\ j.on = d => j = Job("replace", d, e)
    /\ Job("replace", d, e) \in jobs \/ PlogsOnDisk(e) = {}
    /\ jobs' = jobs \cup {Job("replace", d, e)}
    /\ diskState' = [diskState EXCEPT ![d] = "draining"]
    /\ call' = Call("replace", d, e, PlogsOnDisk(d))
    /\ UNCHANGED <<nodeDown, abandoned>>

\* RemoveDisk or ReplaceDisk is retried after the reply was lost.
ConfirmDetached(d) ==
    /\ diskState[d] = "detached" /\ PlogsOnDisk(d) = {}
    /\ \E j \in jobs : j.kind \in {"drain", "replace"} /\ j.on = d /\ jobs' = jobs \ {j}
    /\ UNCHANGED <<topologyVars, catalogVars, mediaVars, memoryVars, busy, call, rel, boundVars>>

ReprotectDisk(d) ==
    /\ Idle /\ UNCHANGED boundVars
    /\ diskState[d] \in {"failed", "draining"} /\ PlogsOnDisk(d) # {}
    /\ jobs' = jobs \cup {Job("reprotect", d, NoDisk)}
    /\ call' = Call("reprotect", d, NoDisk, PlogsOnDisk(d))
    /\ UNCHANGED topologyVars

\* An interrupted final step still needs its job completed.
ReprotectEmptyDisk(d) ==
    /\ Idle /\ UNCHANGED boundVars
    /\ diskState[d] \in {"failed", "draining"} /\ PlogsOnDisk(d) = {}
    /\ RunningJob("reprotect", d)
    /\ jobs' = jobs \ {Job("reprotect", d, NoDisk)}
    /\ UNCHANGED <<topologyVars, call>>

\* What a scrub of the mounted clients reports, and the offline shards.  Only
\* sectors are verified: a copy that is short and sound is healthy.
Corrupt(v) == {p \in OpenOf(v) : file[place[p]][p] = Torn}
Offline(v) == PlogsOf(v) \cap offline

\* RepairVlog scrubs; RepairOfflineShards does not.  A file that cannot be
\* read at all fails the scrub.
RepairVlog(v, scrub) ==
    LET bad == IF scrub THEN Corrupt(v) \cup Offline(v) ELSE Offline(v) IN
    /\ Idle /\ (IF scrub THEN Request ELSE UNCHANGED boundVars)
    /\ v \notin quarantined
    /\ scrub => \A p \in OpenOf(v) : file[place[p]][p] # Absent
    /\ bad # {} /\ v \notin busy
    /\ jobs' = jobs \cup {Job("repair", v, NoDisk)}
    /\ call' = IF \E p \in PlogsOf(v) \ bad : Live(place[p])
               THEN Call("repair", v, NoDisk, bad)
               ELSE [Call("repair", v, NoDisk, {}) EXCEPT !.failed = TRUE]
    /\ UNCHANGED topologyVars

\* FinishRunningScrubRepairJob.
RepairNothing(v) ==
    /\ Idle /\ UNCHANGED boundVars
    /\ v \notin quarantined /\ RunningJob("repair", v)
    /\ Corrupt(v) = {} /\ Offline(v) = {}
    /\ jobs' = jobs \ {Job("repair", v, NoDisk)}
    /\ UNCHANGED <<topologyVars, call>>

\* One move of a pass.  Usage and skew decide which moves a pass makes; here any
\* may be made.
Rebalance(p, e) ==
    /\ Idle /\ Request
    /\ p \in Mapped /\ place[p] # e /\ Live(place[p]) /\ Live(e)
    /\ VlogOf(p) \notin busy
    /\ call' = Call("rebalance", place[p], e, {p})
    /\ UNCHANGED <<topologyVars, jobs>>

\* PlogsOnDisk lists in the order of the plog ids, and a call over a disk ends
\* at its first failure.  A repair goes on, and here in any order.
Turn(p) == call.kind # "repair" => \A r \in call.todo : p <= r

Defer(p) ==
    /\ rel = NoRel /\ p \in call.todo /\ Turn(p) /\ VlogOf(p) \in busy
    /\ call' = [call EXCEPT !.todo = @ \ {p}, !.deferred = TRUE]
    /\ UNCHANGED <<topologyVars, catalogVars, jobs, mediaVars, memoryVars, busy, rel, boundVars>>

NoDestination(p) ==
    /\ rel = NoRel /\ p \in call.todo /\ Turn(p) /\ VlogOf(p) \notin busy
    /\ Destinations(VlogOf(p), place[p]) = {}
    /\ Return(p, TRUE)
    /\ UNCHANGED <<topologyVars, catalogVars, jobs, mediaVars, memoryVars, busy, boundVars>>

Relocate(p) ==
    /\ rel = NoRel /\ p \in call.todo /\ Turn(p) /\ VlogOf(p) \notin busy
    /\ \E to \in Destinations(VlogOf(p), place[p]) :
          IF call.kind \in Evacuations
          THEN BeginMove(p, to) \/ BeginMoveFails(p, to)
          ELSE BeginRegenerate(p, to) \/ BeginRegenerateFails(p)

\* An error between two shards.
CallFails ==
    /\ call # Free /\ rel = NoRel /\ Error
    /\ call' = Free
    /\ UNCHANGED <<topologyVars, catalogVars, jobs, mediaVars, memoryVars, busy, rel>>

Done == call # Free /\ rel = NoRel /\ call.todo = {}

\* Mutant: a deferred copy does not keep the disk attached.
DetachesDeferred == call.kind \in {"drain", "replace"}

Detaches == call.kind \in {"drain", "replace"} /\ ~call.deferred

Detach ==
    /\ Done /\ Detaches /\ diskState[call.on] = "draining"
    /\ diskState' = [diskState EXCEPT ![call.on] = "detached"]
    /\ UNCHANGED <<nodeDown, abandoned, catalogVars, jobs, mediaVars, memoryVars, busy, call, rel, boundVars>>

\* MarkJobDone, unless something was deferred or failed.
Finish ==
    /\ Done /\ (Detaches => diskState[call.on] = "detached")
    /\ jobs' = IF call.deferred \/ call.failed THEN jobs
               ELSE jobs \ {Job(call.kind, call.on, call.dest)}
    /\ call' = Free
    /\ UNCHANGED <<topologyVars, catalogVars, mediaVars, memoryVars, busy, rel, boundVars>>

-----------------------------------------------------------------------------
(* Disks and nodes that fail and return: SetDiskState and SetNodeState.    *)

Rows(d)     == {p \in Plogs : place[p] = d}
Affected(d) == {v \in Vlogs : \E p \in PlogsOf(v) : place[p] = d}
Survivors(v, d) == {p \in OpenOf(v) : place[p] # d}

\* offlinePlogsLocked.  When a survivor cannot be caught up the handles stay
\* open.  A quarantined vlog ends the remounts, which have no order.
TakeOffline(d) ==
    LET mounted == Affected(d) \ quarantined
        copies  == UNION {Survivors(v, d) : v \in mounted}
        handles == [p \in Plogs |-> IF place[p] = d THEN NoDisk ELSE open[p]] IN
    IF \A v \in mounted : CanCatchUp(v, Survivors(v, d), OpenOf(v))
    THEN /\ file' = CaughtUp(copies) /\ excused' = excused \ Placed(copies)
         /\ open' = handles /\ offline' = offline \cup Rows(d)
         /\ \E which \in SUBSET mounted :
               /\ which = mounted \/ Affected(d) # mounted
               /\ mount' = Mounting(which, handles)
    ELSE UNCHANGED <<file, excused, open, offline, mount>>

\* SetDiskState takes any state for any other, and does not ask whether a disk
\* that it detaches is empty.  Only failing a disk and returning a failed one do
\* something to its files.
SetDiskState(d, state) ==
    /\ Request /\ call = Free /\ state # diskState[d]
    /\ ~(state = "active" /\ diskState[d] = "failed")
    /\ diskState' = [diskState EXCEPT ![d] = state]
    /\ abandoned' = (abandoned \ {<<d, p>> : p \in Plogs})
                     \cup {<<d, p>> : p \in IF state = "detached" THEN PlogsOnDisk(d) ELSE {}}
    /\ UNCHANGED <<nodeDown, catalogVars, jobs, mediaVars, memoryVars, busy, call, rel>>

\* Also of a disk that has failed, whose offlining it retries.
FailDisk(d) ==
    /\ Request /\ call = Free
    /\ diskState' = [diskState EXCEPT ![d] = "failed"]
    /\ abandoned' = abandoned \ {<<d, p>> : p \in Plogs}
    /\ TakeOffline(d)
    /\ UNCHANGED <<nodeDown, catalogVars, jobs, gone, stranded, quarantined, busy, call, rel>>

FailNode(d) ==
    /\ Request /\ call = Free /\ d \notin nodeDown
    /\ nodeDown' = nodeDown \cup {d}
    /\ TakeOffline(d)
    /\ UNCHANGED <<diskState, abandoned, catalogVars, jobs, gone, stranded, quarantined, busy, call, rel>>

\* reopenPlogsLocked: every file is there, and is caught up before the disk
\* is published as live.
BringBack(d) ==
    LET back    == Rows(d) \cap offline
        handles == [p \in Plogs |-> IF p \in back THEN d ELSE open[p]]
        media   == CaughtUp(back \cap Mapped) IN
    /\ \A p \in back : file[d][p] # Absent
    /\ \A v \in Vlogs : back \cap PlogsOf(v) # {} =>
          /\ CanCatchUp(v, back \cap PlogsOf(v), OpenOf(v) \cup (back \cap PlogsOf(v)))
          /\ Mountable(v, shard, handles, offline \ back, media)
    /\ file' = media /\ excused' = excused \ Placed(back \cap Mapped)
    /\ open' = handles /\ offline' = offline \ back
    /\ mount' = Mounting({v \in Vlogs : back \cap PlogsOf(v) # {}}, handles)

ReturnDisk(d) ==
    /\ call = Free /\ diskState[d] = "failed"
    /\ diskState' = [diskState EXCEPT ![d] = "active"]
    /\ IF d \in nodeDown THEN UNCHANGED <<file, excused, open, offline, mount>>
                         ELSE d \notin gone /\ BringBack(d)
    /\ UNCHANGED <<nodeDown, abandoned, catalogVars, jobs, gone, stranded, quarantined, busy, call, rel, boundVars>>

\* cancelNodeReprotectsLocked.
ReturnNode(d) ==
    /\ call = Free /\ d \in nodeDown
    /\ diskState[d] \in {"active", "draining"} => d \notin gone
    /\ BringBack(d)
    /\ nodeDown' = nodeDown \ {d}
    /\ jobs' = jobs \ {Job("reprotect", d, NoDisk)}
    /\ diskState' = IF jobs' # jobs /\ diskState[d] = "failed"
                    THEN [diskState EXCEPT ![d] = "active"] ELSE diskState
    /\ UNCHANGED <<abandoned, catalogVars, gone, stranded, quarantined, busy, call, rel, boundVars>>

-----------------------------------------------------------------------------
(* Stray files, faults of the media, and restarts.                         *)

\* No plog row with this id lives on this disk.
Stray(d, p) == Reachable(d) /\ d \notin gone /\ place[p] # d

SweepStrayPlogFiles ==
    /\ call = Free
    /\ \E d \in Disks, p \in Plogs : Stray(d, p) /\ file[d][p] # Absent
    /\ file' = [d \in Disks |-> [p \in Plogs |-> IF Stray(d, p) THEN Absent ELSE file[d][p]]]
    /\ UNCHANGED <<topologyVars, catalogVars, jobs, gone, stranded, excused, memoryVars, busy, call, rel, boundVars>>

LoseDisk(d) ==
    /\ Mishap /\ d \notin gone
    /\ gone' = gone \cup {d}
    /\ file' = [file EXCEPT ![d] = [p \in Plogs |-> Absent]]
    /\ excused' = excused \cup {<<d, p>> : p \in Plogs}
    /\ UNCHANGED <<topologyVars, catalogVars, jobs, stranded, memoryVars, busy, call, rel>>

Rot(p) ==
    /\ Mishap /\ p \in Mapped /\ file[place[p]][p] > 0
    /\ file' = [file EXCEPT ![place[p]][p] = Torn]
    /\ excused' = excused \cup {<<place[p], p>>}
    /\ UNCHANGED <<topologyVars, catalogVars, jobs, gone, stranded, memoryVars, busy, call, rel>>

\* Another session replaces a disk row, and the medium behind it, while a
\* relocation is under way: the triggers advance the generations of the disk,
\* of the plogs on it and of their vlogs.
ReplaceDiskRow(d) ==
    /\ Mishap /\ rel # NoRel /\ d \notin gone
    /\ file' = [file EXCEPT ![d] = [p \in Plogs |-> Absent]]
    /\ excused' = excused \cup {<<d, p>> : p \in Rows(d) \cap Mapped}
    /\ rel' = [rel EXCEPT !.stale = @
                 \cup (IF \E p \in PlogsOf(rel.v) : place[p] = d THEN {"source"} ELSE {})
                 \cup (IF d = rel.to THEN {"dest"} ELSE {})
                 \cup (IF d = rel.from THEN {"rollback"} ELSE {})]
    /\ UNCHANGED <<topologyVars, catalogVars, jobs, gone, stranded, memoryVars, busy, call>>

\* A crash, and the recovery up to the jobs that it resumes, which are calls.
Recover ==
    LET state  == [d \in Disks |-> IF /\ diskState[d] \in {"active", "draining"}
                                      /\ d \in gone \ nodeDown
                                   THEN "failed" ELSE diskState[d]]
        orphan == {p \in Plogs : place[p] # NoDisk /\ p \notin Mapped}
        usable(p) == /\ state[place[p]] # "failed" /\ place[p] \notin nodeDown
                     /\ file[place[p]][p] \in {length[VlogOf(p)], Torn}
        handles == [p \in Plogs |-> IF p \in Mapped /\ usable(p) THEN place[p] ELSE NoDisk] IN
    /\ Mishap
    /\ diskState' = state
    /\ place' = [p \in Plogs |-> IF p \in orphan THEN NoDisk ELSE place[p]]
    /\ file' = [d \in Disks |-> [p \in Plogs |->
                  IF p \in orphan /\ d = place[p] /\ Reachable(d) THEN Absent ELSE file[d][p]]]
    /\ open' = handles
    /\ offline' = {p \in Mapped : handles[p] = NoDisk}
    /\ mount' = Mounting(Vlogs, handles)
    /\ quarantined' = {}
    /\ call' = Free /\ rel' = NoRel
    /\ UNCHANGED <<nodeDown, abandoned, shard, length, spent, jobs, gone, stranded, excused, busy>>

-----------------------------------------------------------------------------
Moving == \/ CopyVerified \/ CopyFails \/ MoveCommits \/ MoveRefused \/ MoveUncertain
          \/ ResolveMoved \/ ResolveUnmoved \/ ResolveFails
          \/ Remounts \/ RemountFails \/ RollsBack \/ RollbackFails
Repairing == \/ Regenerated \/ RegenerateFails
             \/ RepairCommits \/ RepairFails

\* The steps of the call that holds vlogMu.
Continue == \/ Moving \/ Repairing \/ CallFails \/ Detach \/ Finish
            \/ \E p \in Plogs : Defer(p) \/ NoDestination(p) \/ Relocate(p)

Next ==
    \/ \E v \in Vlogs : \/ BeginWrite(v) \/ EndWrite(v) \/ AbortWrite(v)
                        \/ RepairNothing(v) \/ \E scrub \in BOOLEAN : RepairVlog(v, scrub)
    \/ \E d \in Disks : \/ RemoveDisk(d) \/ DrainDisk(d) \/ ConfirmDetached(d)
                        \/ ReprotectDisk(d) \/ ReprotectEmptyDisk(d)
                        \/ FailDisk(d) \/ ReturnDisk(d) \/ FailNode(d) \/ ReturnNode(d)
                        \/ \E state \in {"active", "draining", "detached"} : SetDiskState(d, state)
                        \/ LoseDisk(d) \/ ReplaceDiskRow(d)
                        \/ \E e \in Disks : ReplaceDiskWith(d, e)
                        \/ \E p \in Plogs : Rebalance(p, d)
    \/ \E p \in Plogs : Rot(p)
    \/ Continue
    \/ SweepStrayPlogFiles
    \/ Recover

Spec == Init /\ [][Next]_vars

\* A call runs to its end, a write ends, and the maintenance driver's ticker
\* comes back to every failed disk and to every offline shard: RunMaintenanceOnce
\* takes vlogMu for each in turn, and a mutex that is waited for is got.
Fairness ==
    /\ WF_vars(Continue)
    /\ \A v \in Vlogs : WF_vars(EndWrite(v) \/ AbortWrite(v)) /\ SF_vars(RepairVlog(v, FALSE))
    /\ \A d \in Disks : SF_vars(ReprotectDisk(d))

FairSpec == Spec /\ Fairness

-----------------------------------------------------------------------------
(* Properties.                                                             *)

Relocations ==
    [pc : {"copying", "copied", "uncertain", "moved", "rollback", "writing", "regenerated"},
     v : Vlogs, s : Shards, p : Plogs, q : Plogs, from : Disks, to : Disks,
     stale : SUBSET {"source", "dest", "rollback"}, err : BOOLEAN, had : Disks \cup {NoDisk}]

Calls ==
    [kind : Kinds \cup {"free"}, on : Disks \cup Vlogs \cup {NoDisk}, dest : Disks \cup {NoDisk},
     todo : SUBSET Plogs, deferred : BOOLEAN, failed : BOOLEAN]

\* The shape of the state.
TypeOK ==
    /\ shard \in [Vlogs -> [Shards -> Plogs]]
    /\ place \in [Plogs -> Disks \cup {NoDisk}]
    /\ diskState \in [Disks -> {"active", "draining", "failed", "detached"}]
    /\ nodeDown \subseteq Disks /\ abandoned \subseteq Disks \X Plogs
    /\ length \in [Vlogs -> Nat \ {0}]
    /\ spent \subseteq Plogs
    /\ file \in [Disks -> [Plogs -> Int]]
    /\ gone \subseteq Disks /\ excused \subseteq Disks \X Plogs /\ stranded \subseteq Vlogs
    /\ open \in [Plogs -> Disks \cup {NoDisk}] /\ offline \subseteq Plogs
    /\ mount \in [Vlogs -> [Shards -> [plog : Plogs, disk : Disks \cup {NoDisk}]]]
    /\ quarantined \subseteq Vlogs /\ busy \subseteq Vlogs
    /\ call \in Calls /\ (rel = NoRel \/ rel \in Relocations)

\* The file at the place the catalog names holds everything the vlog has
\* published, unless a fault hit that file, it missed a write, or a repair of the
\* vlog failed after its repoint (see Stranded): relocation and repair, their
\* rollbacks, refusals, unknown outcomes and crashes, and the sweep, never lose or
\* shorten an authoritative copy.
PlacementWhole ==
    \A v \in Vlogs \ stranded : \A p \in PlogsOf(v) :
        <<place[p], p>> \notin excused => file[place[p]][p] = length[v]

\* No two copies of a vlog share a disk, whatever moves, rebuilds and rolls
\* back (occupiedDisksLocked, and the guards of the repoint).
OneCopyPerDisk ==
    \A v \in Vlogs : \A s, t \in Shards :
        place[shard[v][s]] = place[shard[v][t]] => s = t

\* A drain or a replacement detaches a disk only when it holds nothing
\* (maintenance.go: "honoring the spec's NoDetachedData invariant"), and no copy
\* arrives on a detached disk later: a copy on one was there when SetDiskState
\* detached it, and has been there since.
NoDetachedData ==
    \A p \in Mapped : diskState[place[p]] = "detached" => <<place[p], p>> \in abandoned

\* When no call holds vlogMu, the clients of a vlog that is neither quarantined nor
\* stranded are those of the plogs, on the disks, that the catalog names.
MountedFollowsCatalog ==
    call = Free => \A v \in Vlogs \ (quarantined \cup stranded) : \A s \in Shards :
        /\ mount[v][s].plog = shard[v][s]
        /\ mount[v][s].disk \in {place[shard[v][s]], NoDisk}

\* The inductive invariant of the proofs, in parts.
Whole(v, p, d) == <<d, p>> \in excused \/ file[d][p] = length[v]

\* A plog belongs to one shard of one vlog, now and in the memory of a mount.
IdsInv ==
    \A v, w \in Vlogs : \A s, t \in Shards :
        /\ shard[v][s] = shard[w][t] => v = w /\ s = t
        /\ shard[v][s] \in spent /\ place[shard[v][s]] # NoDisk
        /\ mount[v][s].plog \in spent
        /\ mount[v][s].plog = shard[w][t] => v = w

\* Is shard s of v the one whose place and handle are changing hands?
InTransit(v, s) == rel.pc \in {"uncertain", "moved", "rollback"} /\ v = rel.v /\ s = rel.s

\* Handles and clients are on the disks of the catalog, or on none.
HandlesInv ==
    \A v \in Vlogs : \A s \in Shards :
        ~InTransit(v, s) => open[shard[v][s]] \in {place[shard[v][s]], NoDisk}
ClientsInv ==
    \A v \in Vlogs \ (quarantined \cup stranded) : \A s \in Shards :
        /\ mount[v][s].plog = shard[v][s]
        /\ mount[v][s].disk \in {IF InTransit(v, s) THEN rel.from ELSE place[shard[v][s]], NoDisk}

\* A call lists shards, and one that will detach its disk still lists every
\* copy that is there.
CallInv ==
    /\ \A p \in call.todo : \E v \in Vlogs : \E s \in Shards : p = shard[v][s]
    /\ call.kind = "free" => call = Free
    /\ call.kind \in {"replace", "rebalance"} => call.dest \in Disks
    /\ call.kind \in {"drain", "replace"} =>
          /\ call.on \in Disks /\ call.dest # call.on
          /\ diskState[call.on] \in {"draining", "detached"}
          /\ ~call.deferred => \A v \in Vlogs : \A s \in Shards :
                place[shard[v][s]] = call.on => shard[v][s] \in call.todo

\* A relocation: both its files are whole until it has chosen one, unless the
\* disk behind a file was replaced, which the captured generations tell.
MoveInv ==
    rel.pc \in {"copying", "copied", "uncertain", "moved", "rollback"} =>
        /\ call.kind \in Evacuations /\ rel.to # rel.from /\ rel.had \in {rel.from, NoDisk}
        /\ call.kind \in {"drain", "replace"} => rel.to # call.on
        /\ rel.pc # "rollback" => open[rel.p] = rel.had
        /\ rel.pc \in {"copying", "copied"} => place[rel.p] = rel.from
        /\ rel.pc = "uncertain" => place[rel.p] \in {rel.from, rel.to}
        /\ rel.pc \in {"moved", "rollback"} => place[rel.p] = rel.to
        /\ rel.v \notin stranded =>
              /\ rel.pc # "copying" => "rollback" \in rel.stale \/ Whole(rel.v, rel.p, rel.from)
              /\ rel.pc = "copied" => "dest" \in rel.stale \/ Whole(rel.v, rel.p, rel.to)

RepairInv ==
    rel.pc \in {"writing", "regenerated"} =>
        /\ call.kind \in {"reprotect", "repair"}
        /\ rel.q \in spent /\ rel.q # rel.p /\ place[rel.q] = rel.to
        /\ \A v \in Vlogs : \A s \in Shards : shard[v][s] # rel.q /\ mount[v][s].plog # rel.q
        /\ rel.pc = "regenerated" =>
              /\ open[rel.q] \in {rel.to, NoDisk}
              /\ "dest" \in rel.stale \/ Whole(rel.v, rel.q, rel.to)

RelInv ==
    rel # NoRel =>
        /\ call # Free /\ rel.v \notin busy /\ shard[rel.v][rel.s] = rel.p
        /\ MoveInv /\ RepairInv

\* Every part together: it implies the invariants above, and every step keeps it.
RelocationInv ==
    /\ TypeOK /\ IdsInv /\ HandlesInv /\ ClientsInv /\ CallInv /\ RelInv
    /\ PlacementWhole /\ OneCopyPerDisk /\ NoDetachedData

\* What a rebuild of p needs: a whole copy, somewhere to put it, a vlog that is
\* not quarantined, and no dead disk that the server still takes for a live one.
Repairable(p) ==
    LET v == VlogOf(p) IN
    /\ v \notin quarantined /\ Sources(v, p) # {}
    /\ {d \in Disks : Live(d)} \ ({place[p]} \cup Occupied(v, place[p])) # {}
    /\ \A d \in gone : ~Live(d) /\ \A r \in OpenOf(v) : open[r] # d
    /\ spent # Plogs

\* A copy on a failed disk is not left there while it and the copies before it on
\* that disk could be rebuilt: whatever calls failed, were refused, deferred or cut
\* short by a crash, some later pass of the driver repoints it, unless the vlog
\* never stops being written (RunMaintenanceOnce: the failed state "remains the
\* durable retry signal").  ReprotectDisk returns at the first copy it cannot
\* rebuild, in every pass, so such a copy can hold up the ones after it.
EventuallyReprotected ==
    \A p \in Plogs :
        []<>(\/ p \notin Mapped \/ diskState[place[p]] # "failed" \/ VlogOf(p) \in busy
             \/ \E r \in PlogsOnDisk(place[p]) : r <= p /\ ~Repairable(r))

\* ReprotectDisk: it "regenerates every shard lost with a failed disk onto healthy
\* disks", so a copy that could be rebuilt is, whatever became of the copies before it.
EveryCopyReprotected ==
    \A p \in Plogs :
        []<>(\/ p \notin Mapped \/ diskState[place[p]] # "failed" \/ VlogOf(p) \in busy
             \/ ~Repairable(p))
=============================================================================
