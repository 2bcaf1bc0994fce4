----------------------------- MODULE VlogMirror -----------------------------
(***************************************************************************)
(* One mirrored virtual log (storage/vlog.go) and the topology changes     *)
(* under it (server/control_plane.go): quorum appends and commits with     *)
(* stragglers, copies that miss a write, disks that fail and return, and   *)
(* restarts.                                                               *)
(*                                                                         *)
(* A copy is a plog: disk is what the running plog holds, durable what a   *)
(* reopen shows, which is the last Commit (CommitContract).  An append is  *)
(* a sequence of parts of one unit each, as EnsureWrite makes; Write has   *)
(* one part.  A range is compared and copied as one copyChunk.             *)
(***************************************************************************)
EXTENDS Integers, Sequences, FiniteSets

CONSTANTS Replicas,        \* the plogs that back the vlog
          MinCopies,       \* the server's durability threshold
          Values,          \* what a unit can hold
          Writers,         \* concurrent append RPCs
          Committer,       \* the CommitVlog RPC
          Stray,           \* the owner of a call whose fanout has returned
          Domains,         \* the sets of copies that fail and return together
          LateWriters,     \* may an RPC pause between resolving and locking?
          MaxLength, MaxParts, MaxRequests, MaxFaults, MaxMoves, MaxRestarts  \* bounds

ASSUME ReplicasAssumption == IsFiniteSet(Replicas) /\ Replicas # {} /\ MinCopies \in Nat \ {0}
ASSUME DomainsAssumption == Domains \subseteq (SUBSET Replicas) \ {{}}
ASSUME ActorsAssumption == Committer \notin Writers /\ Stray \notin Writers \cup {Committer}
ASSUME BoundsAssumption ==
    {MaxLength, MaxParts, MaxRequests, MaxFaults, MaxMoves, MaxRestarts} \subseteq Nat /\ LateWriters \in BOOLEAN

VARIABLES disk, durable,   \* the contents of each copy
          open,            \* s.plogs: the copies with an open handle
          failed,          \* persisted disk and node failures
          mounts,          \* the Vlog objects since the start, the last one mounted
          op,              \* the fanout of each writer and of the committer
          calls,           \* client calls that have not answered
          lock,            \* what holds vlogMu across steps
          moving, todo, target,   \* progress of a topology change
          recorded,        \* vlog.length in the catalog
          stream,          \* history: the units that the mounted object acknowledged
          requests, faults, moves, restarts

copyVars  == <<disk, durable, open, failed>>
moveVars  == <<lock, moving, todo, target>>
boundVars == <<requests, faults, moves, restarts>>
vars == <<copyVars, mounts, op, calls, moveVars, recorded, stream, boundVars>>

Actors == Writers \cup {Committer}
Larger(a, b)  == IF a > b THEN a ELSE b
Smaller(a, b) == IF a < b THEN a ELSE b

\* SetWriteQuorum(min(s.minCopies, len(clients))).
writeQuorum == Smaller(MinCopies, Cardinality(Replicas))

Idle == [pc |-> "idle", gen |-> 1, offset |-> 0, data |-> <<>>, ok |-> {}, bad |-> {}]

NoVlog == [length |-> 0, complete |-> {}, live |-> {}]

\* NewVlog: completeReplicas nil means every client, the offline stubs too.
NewVlog(length, live) == [length |-> length, complete |-> Replicas, live |-> live]

Mounted == mounts[Len(mounts)]

Init ==
    /\ disk = [r \in Replicas |-> <<>>]
    /\ durable = disk
    /\ open = Replicas
    /\ failed = {}
    /\ mounts = <<NewVlog(0, Replicas)>>
    /\ op = [o \in Actors |-> Idle]
    /\ calls = {}
    /\ lock = "free"
    /\ moving = {} /\ todo = {} /\ target = 0
    /\ recorded = 0
    /\ stream = <<>>
    /\ requests = 0 /\ faults = 0 /\ moves = 0 /\ restarts = 0

\* The RPCs that clients send are bounded.
Request == requests < MaxRequests /\ requests' = requests + 1 /\ UNCHANGED <<faults, moves, restarts>>

Fault == faults < MaxFaults /\ faults' = faults + 1 /\ UNCHANGED <<requests, moves, restarts>>

-----------------------------------------------------------------------------
(* The fanout: fanoutQuorumEligible and its goroutines.                    *)

\* completeReplicaSnapshot of the object the caller resolved.
Eligible(gen) == mounts[gen].complete

Succeeded(o) == Cardinality(op[o].ok) >= writeQuorum
Refused(o)   == Cardinality(op[o].bad) > Cardinality(Eligible(op[o].gen)) - writeQuorum
Decided(o)   == Succeeded(o) \/ Refused(o)

\* writeMu of the object: one append or commit at a time.
WriteMuFree(gen) == \A o \in Actors : op[o].pc = "fanout" => op[o].gen # gen

Calls(o, gen, kind, at, data) ==
    {[owner |-> o, gen |-> gen, rep |-> r, kind |-> kind, at |-> at, parts |-> data] :
        r \in Eligible(gen)}

\* The results of a fanout that has its quorum, or cannot get it, are not read.
Answer(c, field) ==
    /\ calls' = calls \ {c}
    /\ op' = IF c.owner # Stray => Decided(c.owner) THEN op
             ELSE IF field = "ok" THEN [op EXCEPT ![c.owner].ok = @ \cup {c.rep}]
             ELSE [op EXCEPT ![c.owner].bad = @ \cup {c.rep}]

\* A client of a closed plog, or the stub of an offline one, only fails.
Reachable(c) == c.owner # Stray => c.rep \in mounts[c.gen].live

\* The goroutines that are still running when the fanout returns keep running;
\* nobody will learn of one that can only fail.
Abandoned(o) ==
    {c \in calls : c.owner # o}
      \cup {[c EXCEPT !.owner = Stray, !.gen = 0] : c \in {d \in calls : d.owner = o /\ Reachable(d)}}

\* Mutant: EnsureAppend overwrites what differs.
FitsAnything(content, at, unit) == at <= Len(content)

\* EnsureAppend: no gap, and bytes that are there must match.
Fits(content, at, unit) == at <= Len(content) /\ (at < Len(content) => content[at + 1] = unit)

Extended(content, at, unit) == IF at < Len(content) THEN content ELSE Append(content, unit)

AppendLands(c) ==
    /\ c.kind = "append" /\ Reachable(c)
    /\ Fits(disk[c.rep], c.at, Head(c.parts))
    /\ disk' = [disk EXCEPT ![c.rep] = Extended(@, c.at, Head(c.parts))]
    /\ IF Len(c.parts) = 1
       THEN Answer(c, "ok")
       ELSE /\ calls' = (calls \ {c}) \cup {[c EXCEPT !.at = @ + 1, !.parts = Tail(@)]}
            /\ op' = op
    /\ UNCHANGED <<durable, open, failed, mounts, moveVars, recorded, stream, boundVars>>

CommitLands(c) ==
    /\ c.kind = "commit" /\ Reachable(c)
    /\ durable' = [durable EXCEPT ![c.rep] = disk[c.rep]]
    /\ Answer(c, "ok")
    /\ UNCHANGED <<disk, open, failed, mounts, moveVars, recorded, stream, boundVars>>

CallRefused(c) ==
    /\ ~Reachable(c) \/ (c.kind = "append" /\ ~Fits(disk[c.rep], c.at, Head(c.parts)))
    /\ Answer(c, "bad")
    /\ UNCHANGED <<copyVars, mounts, moveVars, recorded, stream, boundVars>>

\* An I/O error.  A Commit that fails may have become durable.
CallFails(c) ==
    /\ Reachable(c)
    /\ Fault
    /\ durable' \in {durable} \cup
          (IF c.kind = "commit" THEN {[durable EXCEPT ![c.rep] = disk[c.rep]]} ELSE {})
    /\ Answer(c, "bad")
    /\ UNCHANGED <<disk, open, failed, mounts, moveVars, recorded, stream>>

-----------------------------------------------------------------------------
(* Appending: WriteVlog, writeWithin, writeMirrors; EnsureWrite.           *)

\* The RPC finds the mounted object under vlogMu and then lets it go.
Resolve(w) ==
    /\ lock = "free" /\ op[w].pc = "idle"
    /\ Request
    /\ op' = [op EXCEPT ![w] = [Idle EXCEPT !.pc = "resolved", !.gen = Len(mounts)]]
    /\ UNCHANGED <<copyVars, mounts, calls, moveVars, recorded, stream>>

BeginWrite(w, data) ==
    LET gen == op[w].gen
        at  == mounts[gen].length
    IN  /\ op[w].pc = "resolved"
        /\ WriteMuFree(gen)
        /\ at + Len(data) <= MaxLength
        /\ op' = [op EXCEPT ![w] = [@ EXCEPT !.pc = "fanout", !.offset = at, !.data = data]]
        /\ calls' = calls \cup Calls(w, gen, "append", at, data)
        /\ UNCHANGED <<copyVars, mounts, moveVars, recorded, stream, boundVars>>

Responders(w) == op[w].ok

\* The copies that answered in time are the complete ones from now on.  The
\* client learns the offset.  What an object acknowledges after a remount has
\* replaced it is not part of the stream.
WriteSucceeds(w) ==
    /\ op[w].pc = "fanout" /\ Succeeded(w)
    /\ mounts' = [mounts EXCEPT ![op[w].gen].complete = Responders(w),
                                ![op[w].gen].length = @ + Len(op[w].data)]
    /\ stream' = IF op[w].gen = Len(mounts) THEN SubSeq(stream, 1, op[w].offset) \o op[w].data ELSE stream
    /\ op' = [op EXCEPT ![w] = Idle]
    /\ calls' = Abandoned(w)
    /\ UNCHANGED <<copyVars, moveVars, recorded, boundVars>>

WriteFails(w) ==
    /\ op[w].pc = "fanout" /\ Refused(w) /\ ~Succeeded(w)
    /\ op' = [op EXCEPT ![w] = Idle]
    /\ calls' = Abandoned(w)
    /\ UNCHANGED <<copyVars, mounts, moveVars, recorded, stream, boundVars>>

\* The length bound refuses the append before any client is called.
WriteTooLong(w) ==
    /\ op[w].pc = "resolved"
    /\ mounts[op[w].gen].length = MaxLength
    /\ op' = [op EXCEPT ![w] = Idle]
    /\ UNCHANGED <<copyVars, mounts, calls, moveVars, recorded, stream, boundVars>>

-----------------------------------------------------------------------------
(* CommitVlog holds vlogMu from the first commit to the last SetVlogLength. *)

BeginCommit ==
    LET gen == Len(mounts)
    IN  /\ lock = "free"
        /\ WriteMuFree(gen)
        /\ Request
        /\ lock' = "commit"
        /\ op' = [op EXCEPT ![Committer] =
                    [Idle EXCEPT !.pc = "fanout", !.gen = gen, !.offset = Mounted.length]]
        /\ calls' = calls \cup Calls(Committer, gen, "commit", 0, <<>>)
        /\ UNCHANGED <<copyVars, mounts, moving, todo, target, recorded, stream>>

\* CommitPrefix returns; the prefix is the length while writeMu was held.
CommitPrefix ==
    /\ op[Committer].pc = "fanout" /\ Decided(Committer)
    /\ op' = [op EXCEPT ![Committer] =
                IF Succeeded(Committer) THEN [@ EXCEPT !.pc = "record"] ELSE Idle]
    /\ lock' = IF Succeeded(Committer) THEN lock ELSE "free"
    /\ calls' = Abandoned(Committer)
    /\ UNCHANGED <<copyVars, mounts, moving, todo, target, recorded, stream, boundVars>>

\* Mutant: the length is sampled again after the commit.
SetVlogLengthLate ==
    /\ op[Committer].pc = "record"
    /\ recorded' = Larger(recorded, Mounted.length)
    /\ op' = [op EXCEPT ![Committer] = Idle]
    /\ lock' = "free"
    /\ UNCHANGED <<copyVars, mounts, calls, moving, todo, target, stream, boundVars>>

\* A newer recorded prefix is never retracted.
SetVlogLength ==
    /\ op[Committer].pc = "record"
    /\ \/ recorded' = Larger(recorded, op[Committer].offset) /\ UNCHANGED boundVars
       \/ recorded' = recorded /\ Fault
    /\ op' = [op EXCEPT ![Committer] = Idle]
    /\ lock' = "free"
    /\ UNCHANGED <<copyVars, mounts, calls, moving, todo, target, stream>>

-----------------------------------------------------------------------------
(* catchUpDuplicatePlogLocked.                                             *)

Slice(content, from, to) == SubSeq(content, from + 1, to)

\* Mutant: the first readable copy is believed.
FirstReadable(d, from, to) == {Slice(d[r], from, to) : r \in {q \in open : Len(d[q]) >= to}}

\* readCommittedDuplicateRangeLocked: what writeQuorum open copies agree on.
Agreed(d, from, to) ==
    LET holders == {r \in open : Len(d[r]) >= to}
    IN  {b \in {Slice(d[r], from, to) : r \in holders} :
            Cardinality({r \in holders : Slice(d[r], from, to) = b}) >= writeQuorum}

\* Vlog.Read on the mounted object: any complete copy that can be read.
SourceReads(d, from, to) ==
    IF to > Mounted.length THEN {}
    ELSE {Slice(d[r], from, to) : r \in {q \in Mounted.complete \cap Mounted.live : Len(d[q]) >= to}}

\* The content a catch-up leaves, and whether it may go on.
Stop(content) == {[content |-> content, ok |-> FALSE]}
Go(content)   == {[content |-> content, ok |-> TRUE]}

\* An empty range needs no source; without a source the copy stays as it is.
Reading(sources, from, to, content, Then(_)) ==
    IF from >= to THEN Then(<<>>)
    ELSE IF sources = {} THEN Stop(content)
    ELSE UNION {Then(bytes) : bytes \in sources}

\* The committed part of the copy is compared with the agreement, its tail with
\* the mounted vlog, and the excess is trimmed.
Verified(r) ==
    LET common    == Smaller(Len(disk[r]), target)
        committed == Smaller(common, recorded)
        CheckTail(tail) ==
            Go(Slice(disk[r], 0, IF Slice(disk[r], committed, common) = tail THEN common ELSE committed))
        CheckPrefix(want) ==
            IF Slice(disk[r], 0, committed) # want THEN Go(<<>>)
            ELSE Reading(SourceReads(disk, committed, common), committed, common, disk[r], CheckTail)
    IN  Reading(Agreed(disk, 0, committed), 0, committed, disk[r], CheckPrefix)

\* The missing committed part from the agreement, then the rest from the vlog.
Filled(r, kept) ==
    LET With(content) == [disk EXCEPT ![r] = content]
        AddPrefix(want) ==
            LET base == kept \o want
            IN  Reading(SourceReads(With(base), Len(base), target), Len(base), target, base,
                        LAMBDA tail : Go(base \o tail))
    IN  Reading(Agreed(With(kept), Len(kept), recorded), Len(kept), recorded, kept, AddPrefix)

CaughtUp(r) == UNION {IF v.ok THEN Filled(r, v.content) ELSE {v} : v \in Verified(r)}

\* A caught-up copy is committed, changed or not.
CatchUp(r) ==
    /\ lock \in {"offline", "return"} /\ r \in todo
    /\ \E c \in CaughtUp(r) :
          /\ c.ok
          /\ disk' = [disk EXCEPT ![r] = c.content]
          /\ durable' = [durable EXCEPT ![r] = c.content]
    /\ todo' = todo \ {r}
    /\ UNCHANGED <<open, failed, mounts, op, calls, lock, moving, target, recorded, stream, boundVars>>

CloseHandles(gone) == [g \in DOMAIN mounts |-> [mounts[g] EXCEPT !.live = @ \ gone]]

\* An object that has been replaced lives on in the requests that resolved it.
Superseded(objects) ==
    [g \in DOMAIN objects |->
        IF \E o \in Actors : op[o].pc # "idle" /\ op[o].gen = g THEN objects[g] ELSE NoVlog]

CallsWithout(gone) == {c \in calls : c.owner # Stray \/ c.rep \notin gone}

\* Uncommitted bytes of a closed plog are rolled back when it is reopened.
Closed(saved, gone) == [r \in Replicas |-> IF r \in gone THEN saved[r] ELSE disk[r]]

\* The copies that are open again, for which the mounted object has offline stubs.
Reopened == moving \ Mounted.live

\* No agreement, no readable source, or an I/O error between the truncation and
\* the commit.  The change is abandoned; copies that return are closed again.
CatchUpFails(r) ==
    LET gone == IF lock = "return" THEN Reopened ELSE {}
    IN  /\ lock \in {"offline", "return"} /\ r \in todo
        /\ \E c \in Go(disk[r]) \cup Verified(r) \cup CaughtUp(r) :
              /\ IF c.ok THEN Fault ELSE UNCHANGED boundVars
              /\ durable' \in {durable} \cup
                    (IF c.ok /\ c \in CaughtUp(r) THEN {[durable EXCEPT ![r] = c.content]} ELSE {})
              /\ disk' = IF gone = {} THEN [disk EXCEPT ![r] = c.content] ELSE Closed(durable', gone)
        /\ open' = open \ gone
        /\ mounts' = CloseHandles(gone)
        /\ calls' = CallsWithout(gone)
        /\ lock' = "free" /\ moving' = {} /\ todo' = {} /\ target' = 0
        /\ UNCHANGED <<failed, op, recorded, stream>>

-----------------------------------------------------------------------------
(* SetNodeState and SetDiskState: offlinePlogsLocked, reopenPlogsLocked.   *)

\* remountVlogLocked keeps an append cursor that is ahead of the catalog.
RemountLength == Larger(recorded, Mounted.length)

\* ReconcileShardLengths cuts the open copies to the length in turn.
LongEnough(live, d, length) == {r \in live : Len(d[r]) >= length}

CutTo(length, d, copies) == [r \in Replicas |-> IF r \in copies THEN Slice(d[r], 0, length) ELSE d[r]]

\* Mutant: the vlog is mounted again at the catalog length.
RemountAtCatalog(live, d, gone) ==
    /\ calls' = CallsWithout(gone)
    /\ disk' = CutTo(recorded, d, live)
    /\ mounts' = Append(Superseded(CloseHandles(gone)), NewVlog(recorded, live))

\* One that is shorter fails the mount: the old object stays, over copies some
\* of which are cut.
Remount(live, d, gone) ==
    /\ calls' = CallsWithout(gone)
    /\ IF LongEnough(live, d, RemountLength) = live
       THEN /\ disk' = CutTo(RemountLength, d, live)
            /\ mounts' = Append(Superseded(CloseHandles(gone)), NewVlog(RemountLength, live))
       ELSE /\ \E cut \in SUBSET LongEnough(live, d, RemountLength) : disk' = CutTo(RemountLength, d, cut)
            /\ mounts' = CloseHandles(gone)

\* WaitForWrites lets the append in progress finish.  It does not see an RPC that
\* has resolved the object and not yet locked it.
Quiet == WriteMuFree(Len(mounts)) /\ (LateWriters \/ \A w \in Writers : op[w].pc = "idle")

BeginMove(kind, set, copies) ==
    /\ lock = "free" /\ Quiet
    /\ moves < MaxMoves /\ moves' = moves + 1
    /\ lock' = kind /\ moving' = set /\ todo' = copies
    /\ target' = RemountLength
    /\ UNCHANGED <<disk, durable, mounts, op, calls, recorded, stream, requests, faults, restarts>>

\* The failure is persisted first; then the survivors are caught up.
BeginOffline(set) ==
    /\ failed' = failed \cup set
    /\ open' = open
    /\ BeginMove("offline", set, open \ set)

FinishOffline ==
    /\ lock = "offline" /\ todo = {}
    /\ open' = open \ moving
    /\ Remount(open', Closed(durable, moving), moving)
    /\ lock' = "free" /\ moving' = {} /\ target' = 0
    /\ UNCHANGED <<durable, failed, op, todo, recorded, stream, boundVars>>

\* The returned copies are opened and staged together.
BeginReturn(set) ==
    /\ set \ open # {}
    /\ open' = open \cup set
    /\ failed' = failed
    /\ BeginMove("return", set, set \ open)

\* Nothing to reopen: only the catalog changes.
Activate(set) ==
    /\ lock = "free" /\ set \subseteq open /\ set \cap failed # {}
    /\ moves < MaxMoves /\ moves' = moves + 1
    /\ failed' = failed \ set
    /\ UNCHANGED <<disk, durable, open, mounts, op, calls, moveVars, recorded, stream, requests, faults, restarts>>

\* Remount, then the catalog learns that they are back.
FinishReturn ==
    /\ lock = "return" /\ todo = {}
    /\ LongEnough(open, disk, RemountLength) = open
    /\ Remount(open, disk, {})
    /\ failed' = failed \ moving
    /\ lock' = "free" /\ moving' = {} /\ target' = 0
    /\ UNCHANGED <<durable, open, op, todo, recorded, stream, boundVars>>

\* restoreOffline: the mount or the catalog refuses the returned copies.
RestoreOffline ==
    /\ lock = "return" /\ todo = {}
    /\ IF LongEnough(open, disk, RemountLength) = open THEN Fault ELSE UNCHANGED boundVars
    /\ open' = open \ Reopened
    /\ Remount(open', Closed(durable, Reopened), Reopened)
    /\ lock' = "free" /\ moving' = {} /\ target' = 0
    /\ UNCHANGED <<durable, failed, op, todo, recorded, stream>>

\* A crash, and Recover: every reachable copy that is long enough is mounted and
\* cut to the catalog length.
Recover ==
    LET live == LongEnough(Replicas \ failed, durable, recorded)
    IN  /\ restarts < MaxRestarts /\ restarts' = restarts + 1
        /\ open' = live
        /\ disk' = CutTo(recorded, durable, live)
        /\ mounts' = <<NewVlog(recorded, live)>>
        /\ op' = [o \in Actors |-> Idle]
        /\ calls' = {}
        /\ lock' = "free" /\ moving' = {} /\ todo' = {} /\ target' = 0
        /\ stream' = Slice(stream, 0, recorded)
        /\ UNCHANGED <<durable, failed, recorded, requests, faults, moves>>

-----------------------------------------------------------------------------
Data == UNION {[1 .. n -> Values] : n \in 1 .. MaxParts}

Next ==
    \/ \E c \in calls : AppendLands(c) \/ CommitLands(c) \/ CallRefused(c) \/ CallFails(c)
    \/ \E w \in Writers : Resolve(w) \/ WriteSucceeds(w) \/ WriteFails(w) \/ WriteTooLong(w)
    \/ \E w \in Writers, data \in Data : BeginWrite(w, data)
    \/ BeginCommit \/ CommitPrefix \/ SetVlogLength
    \/ \E set \in Domains : BeginOffline(set) \/ BeginReturn(set) \/ Activate(set)
    \/ \E r \in Replicas : CatchUp(r) \/ CatchUpFails(r)
    \/ FinishOffline \/ FinishReturn \/ RestoreOffline
    \/ Recover

Spec == Init /\ [][Next]_vars

-----------------------------------------------------------------------------
(* Properties.                                                             *)

Contents == UNION {[1 .. n -> Values] : n \in 0 .. MaxLength}

Objects == [length : 0 .. MaxLength, complete : SUBSET Replicas, live : SUBSET Replicas]

Operations == [pc : {"idle", "resolved", "fanout", "record"}, gen : Nat \ {0}, offset : 0 .. MaxLength,
               data : Contents, ok : SUBSET Replicas, bad : SUBSET Replicas]

ClientCalls == [owner : Actors \cup {Stray}, gen : Nat, rep : Replicas, kind : {"append", "commit"},
                at : 0 .. MaxLength, parts : Contents]

\* Types of the vlog, its copies and the fanouts.
TypeOK ==
    /\ disk \in [Replicas -> Contents] /\ durable \in [Replicas -> Contents]
    /\ open \subseteq Replicas /\ failed \subseteq Replicas
    /\ mounts \in Seq(Objects) /\ mounts # <<>>
    /\ op \in [Actors -> Operations]
    /\ \A o \in Actors : op[o].gen \in DOMAIN mounts
    /\ calls \subseteq ClientCalls
    /\ \A c \in calls : c.gen \in {0} \cup DOMAIN mounts
    /\ lock \in {"free", "commit", "offline", "return"}
    /\ moving \subseteq Replicas /\ todo \subseteq Replicas
    /\ target \in 0 .. MaxLength /\ recorded \in 0 .. MaxLength
    /\ stream \in Contents
    /\ {requests, faults, moves, restarts} \subseteq Nat

\* A copy that may serve reads and count towards a quorum holds every
\* acknowledged unit, whatever failed or late appends did to it before.
CompleteCopiesAgree ==
    \A r \in Mounted.complete \cap Mounted.live :
        Len(disk[r]) >= Mounted.length /\ Slice(disk[r], 0, Mounted.length) = Slice(stream, 0, Mounted.length)

\* The catalog never gets ahead of the disks: the recorded prefix is durable on
\* a quorum of copies, counting those that are offline.
RecordedOnQuorum ==
    Cardinality({r \in Replicas : Len(durable[r]) >= recorded
                                  /\ Slice(durable[r], 0, recorded) = Slice(stream, 0, recorded)}) >= writeQuorum

\* What a mounted vlog acknowledges stays in the mounted vlog, so the next
\* CommitVlog publishes it, whatever topology change, failed remount or late
\* append to a replaced object happens in between.
AcknowledgedIsMounted == Mounted.length = Len(stream)

\* The comment on WaitForWrites in offlinePlogsLocked: "Let writes on affected vlogs
\* finish [...] Otherwise the old vlog can advance after we remount its replacement,
\* and a successful client write disappears at CommitVlog".
OldVlogNeverAdvances == \A w \in Writers : op[w].pc = "fanout" /\ Succeeded(w) => op[w].gen = Len(mounts)

-----------------------------------------------------------------------------
(* The inductive invariant behind the properties above, for servers in     *)
(* which no RPC pauses between resolving a vlog and locking it.            *)

Busy(o) == op[o].pc = "fanout"

\* What writeMu and vlogMu exclude: one fanout at a time, on the mounted object;
\* no append while the topology changes; a commit knows a length that is there.
LocksInv ==
    /\ \A w \in Writers : op[w].pc # "record" /\ (op[w].pc # "idle" => op[w].gen = Len(mounts) /\ lock \in {"free", "commit"})
    /\ op[Committer].pc # "resolved" /\ (op[Committer].pc # "idle" <=> lock = "commit")
    /\ op[Committer].pc # "idle" => op[Committer].gen = Len(mounts)
    /\ \A o \in Actors : op[o].pc \in {"idle", "resolved"} => op[o].ok = {}
    /\ \A o, p \in Actors : Busy(o) /\ Busy(p) => o = p
    /\ \A o \in Actors : Busy(o) => op[o].offset = Mounted.length /\ op[o].ok \subseteq Mounted.complete \cap Mounted.live
    /\ op[Committer].pc = "record" => op[Committer].offset <= Mounted.length
    /\ recorded <= Mounted.length
    /\ lock \in {"offline", "return"} => target = Mounted.length

\* content has data from offset at on.
Carries(content, at, data) ==
    Len(content) >= at + Len(data) /\ \A i \in 1 .. Len(data) : content[at + i] = data[i]

\* What a call of a fanout has done so far: its first units are on the copy.
Progress(c, content, offset, data) ==
    /\ c.parts # <<>> /\ Len(c.parts) <= Len(data)
    /\ c.at = offset + Len(data) - Len(c.parts)
    /\ \A j \in 1 .. Len(c.parts) : c.parts[j] = data[Len(data) - Len(c.parts) + j]
    /\ Len(c.parts) < Len(data) => Len(content) >= c.at
    /\ \A i \in 1 .. Len(data) - Len(c.parts) : content[offset + i] = data[i]

\* Calls belong to a fanout or to nobody; a copy that has answered has the data.
CallsInv ==
    /\ \A c \in calls : c.owner = Stray => c.gen = 0
    /\ \A c \in calls : c.kind = "append" => c.parts # <<>> /\ c.at + Len(c.parts) <= MaxLength
    /\ \A c \in calls : c.owner # Stray =>
          /\ Busy(c.owner) /\ c.gen = op[c.owner].gen /\ c.rep \in Mounted.complete
          /\ c.kind = IF c.owner = Committer THEN "commit" ELSE "append"
    /\ \A c \in calls : c.owner \in Writers =>
          Progress(c, disk[c.rep], op[c.owner].offset, op[c.owner].data)
    /\ \A w \in Writers : Busy(w) =>
          \A r \in op[w].ok : Carries(disk[r], op[w].offset, op[w].data)
    /\ \A w \in Writers : Busy(w) => op[w].offset + Len(op[w].data) <= MaxLength

\* A copy agrees with the first n acknowledged units.
Holds(content, acked, n) == Len(content) >= n /\ \A i \in 1 .. n : content[i] = acked[i]

\* A majority of the copies must answer, at most one may lag, and one that lags
\* is not forgotten by a restart.
OneMayLag ==
    /\ 2 * writeQuorum > Cardinality(Replicas)
    /\ writeQuorum >= Cardinality(Replicas) - 1
    /\ writeQuorum = Cardinality(Replicas) \/ MaxRestarts = 0

\* The copies that hold the recorded prefix, and will after a reopen.
Sound == {r \in Replicas : Holds(durable[r], stream, recorded) /\ Holds(disk[r], stream, recorded)}

\* Complete copies, and those a topology change has caught up, hold what was
\* acknowledged; once a copy is away all the others are complete.
CopiesInv ==
    /\ \A r \in Mounted.complete \cap Mounted.live : Holds(disk[r], stream, Mounted.length)
    /\ Mounted.live # Replicas => Mounted.live \subseteq Mounted.complete
    /\ Mounted.live \subseteq open
    /\ lock # "return" => Mounted.live = open
    /\ lock = "return" => /\ Mounted.live # Replicas /\ Mounted.live \cap todo = {}
                          /\ open = Mounted.live \cup moving
                          /\ \A r \in open \ todo : Holds(disk[r], stream, Mounted.length)
    /\ lock = "offline" => \A r \in (open \ moving) \ todo : Holds(disk[r], stream, Mounted.length)
    /\ Cardinality(Sound) >= writeQuorum
    /\ \A r \in op[Committer].ok : /\ Holds(durable[r], stream, op[Committer].offset)
                                     /\ Holds(disk[r], stream, op[Committer].offset)
    /\ op[Committer].pc = "record" => Succeeded(Committer)

\* TypeOK, AcknowledgedIsMounted and the parts that preserve them; and, where at
\* most one copy may lag, the parts that keep the copies equal.
MirrorInv ==
    /\ TypeOK
    /\ AcknowledgedIsMounted
    /\ LocksInv
    /\ CallsInv
    /\ OneMayLag => CopiesInv
=============================================================================
