-------------------------- MODULE RelocationProofs --------------------------
(***************************************************************************)
(* Proofs about Relocation, for any numbers of vlogs, shards, disks, plog  *)
(* ids, requests and mishaps: RelocationInv is inductive.                  *)
(***************************************************************************)
EXTENDS Relocation, TLAPS

-----------------------------------------------------------------------------
(* Facts about the operators.                                              *)

\* Plogs are numbers, and the special file lengths are no lengths (Torn).
LEMMA Constants == /\ Plogs \subseteq Nat /\ Absent \in Int /\ Torn \in Int
                   /\ NoDisk \notin Disks /\ Free.kind = "free" /\ NoRel.pc = "none"
  BY ConstantsAssumption DEF Plogs, Absent, Torn, Free, NoRel

\* A call record is a call (Call, Free).
LEMMA CallType ==
    /\ Free \in Calls
    /\ \A kind \in Kinds, on \in Disks \cup Vlogs \cup {NoDisk}, dest \in Disks \cup {NoDisk},
          todo \in SUBSET Plogs : Call(kind, on, dest, todo) \in Calls
  BY DEF Calls, Call, Free

\* What the end of a relocation does to the call (Return).
LEMMA ReturnType ==
    ASSUME TypeOK, NEW p, NEW failed \in BOOLEAN, Return(p, failed)
    PROVE  call' \in Calls /\ rel' = NoRel
<1>1. call \in Calls
  BY DEF TypeOK
<1>2. [call EXCEPT !.todo = @ \ {p}] \in Calls
  BY <1>1 DEF Calls
<1>3. [call EXCEPT !.todo = @ \ {p}, !.failed = TRUE] \in Calls
  BY <1>1 DEF Calls
<1> QED
  BY <1>2, <1>3, CallType DEF Return

Media == [Disks -> [Plogs -> Int]]

\* The media stay media (Removed, CaughtUp, Emptied).
LEMMA MediaType ==
    ASSUME TypeOK
    PROVE  /\ file \in Media
           /\ \A media \in Media, d \in Disks, p \in Plogs : Removed(media, d, p) \in Media
           /\ \A media \in Media, d \in Disks, p \in Plogs, n \in Int :
                 [media EXCEPT ![d][p] = n] \in Media
           /\ \A copies : Emptied(copies) \in Media
           /\ \A copies : (\A p \in copies : VlogOf(p) \in Vlogs) =>
                             CaughtUp(copies) \in Media
  BY Constants DEF TypeOK, Removed, CaughtUp, Emptied, Media

\* A shard's plog is mapped to its vlog (PlogsOf, VlogOf).
LEMMA VlogOfType ==
    ASSUME TypeOK, NEW v \in Vlogs, NEW p \in PlogsOf(v)
    PROVE  VlogOf(p) \in Vlogs /\ p \in Plogs /\ p \in PlogsOf(VlogOf(p)) /\ p \in Mapped
<1>1. PICK s \in Shards : p = shard[v][s]
  BY DEF PlogsOf
<1>2. \E w \in Vlogs : p \in PlogsOf(w)
  OBVIOUS
<1>3. VlogOf(p) \in Vlogs /\ p \in PlogsOf(VlogOf(p))
  BY <1>2 DEF VlogOf
<1> QED
  BY <1>1, <1>3 DEF TypeOK, Mapped

-----------------------------------------------------------------------------
(* Type correctness.                                                       *)

USE DEF topologyVars, catalogVars, mediaVars, memoryVars

\* What a call can be asked to relocate is the plog of a shard (CallInv).
LEMMA TodoMapped ==
    ASSUME RelocationInv, NEW p \in call.todo
    PROVE  /\ VlogOf(p) \in Vlogs /\ p \in Plogs /\ p \in Mapped /\ place[p] \in Disks
           /\ \E s \in Shards : shard[VlogOf(p)][s] = p
<1>1. PICK v \in Vlogs, s \in Shards : p = shard[v][s]
  BY DEF RelocationInv, CallInv
<1>2. p \in PlogsOf(v)
  BY <1>1 DEF PlogsOf
<1>3. VlogOf(p) \in Vlogs /\ p \in Plogs /\ p \in PlogsOf(VlogOf(p)) /\ p \in Mapped
  BY <1>2, VlogOfType DEF RelocationInv
<1>4. place[p] \in Disks
  BY <1>1, <1>3 DEF RelocationInv, IdsInv, TypeOK
<1> QED
  BY <1>3, <1>4 DEF PlogsOf

\* The shards of a vlog, open and not, belong to vlogs (OpenOf, Survivors).
LEMMA CopiesType ==
    ASSUME TypeOK
    PROVE  /\ \A v \in Vlogs : \A p \in OpenOf(v) : VlogOf(p) \in Vlogs
           /\ \A p \in Mapped : VlogOf(p) \in Vlogs
  BY VlogOfType DEF OpenOf, Mapped

\* A destination is a disk (Destinations).
LEMMA DestinationIsDisk ==
    ASSUME RelocationInv, call # Free, NEW v, NEW from
    PROVE  Destinations(v, from) \subseteq Disks
<1>1. call.kind \in Kinds
  BY DEF RelocationInv, TypeOK, Calls, CallInv
<1>2. CASE call.kind \in {"drain", "reprotect"}
  BY <1>2 DEF Destinations
<1>3. CASE call.kind = "repair"
  BY <1>3 DEF Destinations
<1>4. CASE call.kind \in {"replace", "rebalance"}
  BY <1>4 DEF Destinations, RelocationInv, CallInv
<1> QED
  BY <1>1, <1>2, <1>3, <1>4 DEF Kinds, Evacuations

\* The beginnings of a move and of a rebuild (BeginMove, BeginRegenerate).
LEMMA BeginType ==
    ASSUME RelocationInv, NEW p \in Plogs, Relocate(p)
    PROVE  TypeOK'
<1>1. TypeOK /\ p \in call.todo /\ call # Free
  BY DEF RelocationInv, Relocate, Free
<1>2. /\ VlogOf(p) \in Vlogs /\ place[p] \in Disks
      /\ (CHOOSE s \in Shards : shard[VlogOf(p)][s] = p) \in Shards
  BY <1>1, TodoMapped
<1>3. PICK to \in Destinations(VlogOf(p), place[p]) :
          \/ BeginMove(p, to) \/ BeginMoveFails(p, to)
          \/ BeginRegenerate(p, to) \/ BeginRegenerateFails(p)
  BY DEF Relocate
<1>4. to \in Disks
  BY <1>1, DestinationIsDisk
<1>5. CASE BeginMove(p, to)
  <2>1. CaughtUp(OpenOf(VlogOf(p))) \in Media
    BY <1>1, <1>2, CopiesType, MediaType
  <2>2. file' \in Media
    BY <1>1, <1>4, <1>5, <2>1, MediaType, Constants DEF BeginMove
  <2>3. rel' \in Relocations
    BY <1>1, <1>2, <1>4, <1>5 DEF BeginMove, Relocations, TypeOK
  <2> QED
    BY <1>1, <1>5, <2>2, <2>3 DEF BeginMove, TypeOK, Media
<1>6. CASE BeginMoveFails(p, to)
  <2>1. call' \in Calls /\ rel' = NoRel
    BY <1>1, <1>6, ReturnType DEF BeginMoveFails
  <2>2. file' \in Media
    BY <1>1, <1>6, MediaType DEF BeginMoveFails
  <2> QED
    BY <1>1, <1>6, <2>1, <2>2 DEF BeginMoveFails, TypeOK, Media
<1>7. CASE BeginRegenerate(p, to)
  <2>1. PICK q \in Plogs :
            /\ spent' = spent \cup {q}
            /\ place' = [place EXCEPT ![q] = to]
            /\ file' = IF to \in gone THEN file ELSE [file EXCEPT ![to][q] = Torn]
            /\ rel' = [pc |-> "writing", v |-> VlogOf(p),
                       s |-> CHOOSE s \in Shards : shard[VlogOf(p)][s] = p,
                       p |-> p, q |-> q, from |-> place[p], to |-> to, stale |-> {}, err |-> FALSE,
                       had |-> open[p]]
    BY <1>7 DEF BeginRegenerate
  <2>2. file' \in Media
    BY <1>1, <1>4, <2>1, MediaType, Constants
  <2>3. rel' \in Relocations
    BY <1>1, <1>2, <1>4, <2>1 DEF Relocations, TypeOK
  <2> QED
    BY <1>1, <1>4, <1>7, <2>1, <2>2, <2>3 DEF BeginRegenerate, TypeOK, Media
<1>8. CASE BeginRegenerateFails(p)
  <2>1. call' \in Calls /\ rel' = NoRel
    BY <1>1, <1>8, ReturnType DEF BeginRegenerateFails
  <2> QED
    BY <1>1, <1>8, <2>1 DEF BeginRegenerateFails, TypeOK
<1> QED
  BY <1>3, <1>5, <1>6, <1>7, <1>8

\* The steps of a move (migratePlogLocked).
LEMMA MovingType ==
    ASSUME RelocationInv, Moving
    PROVE  TypeOK'
<1> DEFINE handles == [open EXCEPT ![rel.p] = rel.to]
<1>t. TypeOK
  BY DEF RelocationInv
<1>r. rel \in Relocations
  BY <1>t, Constants DEF TypeOK, Moving, CopyVerified, CopyFails, MoveCommits, MoveRefused,
     MoveUncertain, ResolveMoved, ResolveUnmoved, ResolveFails, Remounts, RemountFails, RollsBack,
     RollbackFails
<1>f. /\ rel.v \in Vlogs /\ rel.s \in Shards /\ rel.p \in Plogs /\ rel.q \in Plogs
      /\ rel.from \in Disks /\ rel.to \in Disks /\ rel.had \in Disks \cup {NoDisk}
      /\ rel.err \in BOOLEAN
  BY <1>r DEF Relocations
<1>p. \A pc \in {"copied", "moved", "rollback"} : [rel EXCEPT !.pc = pc] \in Relocations
  BY <1>r DEF Relocations
<1>u. [rel EXCEPT !.pc = "uncertain", !.err = TRUE] \in Relocations
  BY <1>r DEF Relocations
<1>q. Quarantine => /\ quarantined' \subseteq Vlogs /\ open' \in [Plogs -> Disks \cup {NoDisk}]
                    /\ offline' \subseteq Plogs /\ mount' = mount /\ call' \in Calls /\ rel' = NoRel
  BY <1>t, <1>f, ReturnType DEF Quarantine, TypeOK
<1>m. \A h \in [Plogs -> Disks \cup {NoDisk}] :
         Mounting({rel.v}, h) \in [Vlogs -> [Shards -> [plog : Plogs, disk : Disks \cup {NoDisk}]]]
  BY <1>t DEF Mounting, Client, TypeOK
<1>h. /\ [open EXCEPT ![rel.p] = rel.to] \in [Plogs -> Disks \cup {NoDisk}]
      /\ [open EXCEPT ![rel.p] = rel.had] \in [Plogs -> Disks \cup {NoDisk}]
  BY <1>t, <1>f DEF TypeOK
<1>d. \A d \in {rel.from, rel.to} : [place EXCEPT ![rel.p] = d] \in [Plogs -> Disks \cup {NoDisk}]
  BY <1>t, <1>f DEF TypeOK
<1>1. CASE CopyVerified
  <2>1. file' \in Media
    BY <1>t, <1>f, <1>1, MediaType DEF CopyVerified, Media
  <2>2. excused' \subseteq Disks \X Plogs
    BY <1>t, <1>f, <1>1 DEF CopyVerified, TypeOK
  <2> QED
    BY <1>t, <1>1, <1>p, <2>1, <2>2 DEF CopyVerified, TypeOK, Media
<1>2. CASE CopyFails
  <2>1. call' \in Calls /\ rel' = NoRel
    BY <1>t, <1>2, ReturnType DEF CopyFails
  <2>2. file' \in Media
    BY <1>t, <1>f, <1>2, MediaType DEF CopyFails
  <2> QED
    BY <1>t, <1>2, <2>1, <2>2 DEF CopyFails, TypeOK, Media
<1>3. CASE MoveCommits
  BY <1>t, <1>d, <1>p, <1>3 DEF MoveCommits, TypeOK
<1>4. CASE MoveRefused
  <2>1. call' \in Calls /\ rel' = NoRel
    BY <1>t, <1>4, ReturnType DEF MoveRefused
  <2>2. file' \in Media
    BY <1>t, <1>f, <1>4, MediaType DEF MoveRefused
  <2> QED
    BY <1>t, <1>4, <2>1, <2>2 DEF MoveRefused, TypeOK, Media
<1>5. CASE MoveUncertain
  BY <1>t, <1>d, <1>u, <1>5 DEF MoveUncertain, TypeOK
<1>6. CASE ResolveMoved
  BY <1>t, <1>p, <1>6 DEF ResolveMoved, TypeOK
<1>7. CASE ResolveUnmoved
  <2>1. call' \in Calls /\ rel' = NoRel
    BY <1>t, <1>7, ReturnType DEF ResolveUnmoved
  <2>2. file' \in Media
    BY <1>t, <1>f, <1>7, MediaType DEF ResolveUnmoved
  <2> QED
    BY <1>t, <1>7, <2>1, <2>2 DEF ResolveUnmoved, TypeOK, Media
<1>8. CASE ResolveFails
  BY <1>t, <1>q, <1>8 DEF ResolveFails, TypeOK
<1>9. CASE Remounts
  <2>1. call' \in Calls /\ rel' = NoRel
    BY <1>t, <1>f, <1>9, ReturnType DEF Remounts
  <2>2. file' \in Media
    BY <1>t, <1>f, <1>9, MediaType DEF Remounts
  <2>3. /\ open' \in [Plogs -> Disks \cup {NoDisk}]
        /\ mount' \in [Vlogs -> [Shards -> [plog : Plogs, disk : Disks \cup {NoDisk}]]]
    BY <1>m, <1>h, <1>9 DEF Remounts
  <2> QED
    BY <1>t, <1>9, <2>1, <2>2, <2>3 DEF Remounts, TypeOK, Media
<1>10. CASE RemountFails
  BY <1>t, <1>h, <1>p, <1>10 DEF RemountFails, TypeOK
<1>11. CASE RollsBack
  <2>1. call' \in Calls /\ rel' = NoRel
    BY <1>t, <1>11, ReturnType DEF RollsBack
  <2>2. file' \in Media /\ place' \in [Plogs -> Disks \cup {NoDisk}]
    BY <1>t, <1>f, <1>d, <1>11, MediaType DEF RollsBack
  <2>3. /\ open' \in [Plogs -> Disks \cup {NoDisk}]
        /\ mount' \in [Vlogs -> [Shards -> [plog : Plogs, disk : Disks \cup {NoDisk}]]]
    BY <1>m, <1>h, <1>11 DEF RollsBack
  <2> QED
    BY <1>t, <1>11, <2>1, <2>2, <2>3 DEF RollsBack, TypeOK, Media
<1>12. CASE RollbackFails
  <2>1. place' \in [Plogs -> Disks \cup {NoDisk}]
    BY <1>t, <1>d, <1>f, <1>12 DEF RollbackFails, TypeOK
  <2> QED
    BY <1>t, <1>q, <1>12, <2>1 DEF RollbackFails, TypeOK
<1> QED
  BY <1>1, <1>2, <1>3, <1>4, <1>5, <1>6, <1>7, <1>8, <1>9, <1>10, <1>11, <1>12 DEF Moving

\* The steps of a rebuild (regenerateShardLocked).
LEMMA RepairingType ==
    ASSUME RelocationInv, Repairing
    PROVE  TypeOK'
<1>t. TypeOK
  BY DEF RelocationInv
<1>r. rel \in Relocations
  BY <1>t, Constants DEF TypeOK, Repairing, Regenerated, RegenerateFails, RepairCommits, RepairFails
<1>f. /\ rel.v \in Vlogs /\ rel.s \in Shards /\ rel.p \in Plogs /\ rel.q \in Plogs
      /\ rel.from \in Disks /\ rel.to \in Disks
  BY <1>r DEF Relocations
<1>d. \A media \in Media, discarded \in BOOLEAN : Discard(media, discarded) => TypeOK'
  <2> TAKE media \in Media, discarded \in BOOLEAN
  <2> HAVE Discard(media, discarded)
  <2>1. call' \in Calls /\ rel' = NoRel
    BY <1>t, ReturnType DEF Discard
  <2>2. file' \in Media
    BY <1>t, <1>f, MediaType DEF Discard
  <2> QED
    BY <1>t, <1>f, <2>1, <2>2 DEF Discard, TypeOK, Media
<1>p. Repointed => /\ shard' \in [Vlogs -> [Shards -> Plogs]]
                   /\ place' \in [Plogs -> Disks \cup {NoDisk}]
                   /\ length' = length /\ spent' = spent /\ UNCHANGED <<diskState, nodeDown, abandoned>>
                   /\ gone' = gone /\ excused' = excused /\ busy' = busy
  BY <1>t, <1>f DEF Repointed, TypeOK
<1>h. HandlesAfter \in [Plogs -> Disks \cup {NoDisk}]
  BY <1>t, <1>f DEF HandlesAfter, TypeOK
<1>1. CASE Regenerated
  <2>1. CaughtUp(Siblings) \in Media
    BY <1>t, <1>f, CopiesType, MediaType DEF Siblings
  <2>2. file' \in Media
    <3>1. length[rel.v] \in Int
      BY <1>t, <1>f DEF TypeOK
    <3> QED
      BY <1>t, <1>f, <1>1, <2>1, <3>1, MediaType DEF Regenerated
  <2>3. rel' \in Relocations
    BY <1>r, <1>1 DEF Regenerated, Relocations
  <2> QED
    BY <1>t, <1>f, <1>1, <2>2, <2>3 DEF Regenerated, TypeOK, Media
<1>2. CASE RegenerateFails
  <2> DEFINE stale == {r \in Siblings : file[place[r]][r] \notin {length[rel.v], Absent}}
  <2>1. CASE CanRegenerate
    <3>1. PICK some \in SUBSET stale, discarded \in BOOLEAN : Discard(Emptied(some), discarded)
      BY <1>2, <2>1, Zenon DEF RegenerateFails
    <3> HIDE DEF stale
    <3>2. Emptied(some) \in Media
      BY <1>t, MediaType
    <3> QED
      BY <1>d, <3>1, <3>2
  <2>2. CASE ~CanRegenerate
    <3>1. Discard(file, TRUE)
      BY <1>2, <2>2, Zenon DEF RegenerateFails
    <3>2. file \in Media
      BY <1>t, MediaType
    <3> QED
      BY <1>d, <3>1, <3>2
  <2> QED
    BY <2>1, <2>2
<1>3. CASE RepairCommits
  <2>1. call' \in Calls /\ rel' = NoRel
    BY <1>t, <1>3, ReturnType DEF RepairCommits
  <2>2. file' \in Media
    BY <1>t, <1>f, <1>3, MediaType DEF RepairCommits
  <2>3. mount' \in [Vlogs -> [Shards -> [plog : Plogs, disk : Disks \cup {NoDisk}]]]
    BY <1>t, <1>f, <1>p, <1>h, <1>3 DEF RepairCommits, Client, TypeOK
  <2>4. Repointed
    BY <1>3 DEF RepairCommits
  <2> QED
    BY <1>t, <1>p, <1>h, <1>3, <2>1, <2>2, <2>3, <2>4 DEF RepairCommits, TypeOK, Media
<1>4. CASE RepairFails
  <2>1. CASE \E discarded \in BOOLEAN : Discard(file, discarded)
    BY <1>t, <1>d, <2>1, MediaType
  <2>2. CASE \E remounting \in BOOLEAN : Stranded(remounting)
    <3>1. PICK remounting \in BOOLEAN : Stranded(remounting)
      BY <2>2
    <3>2. call' \in Calls /\ rel' = NoRel
      BY <1>t, <3>1, ReturnType DEF Stranded
    <3> QED
      BY <1>t, <1>f, <1>p, <1>h, <3>1, <3>2 DEF Stranded, TypeOK
  <2> QED
    BY <1>4, <2>1, <2>2 DEF RepairFails
<1> QED
  BY <1>1, <1>2, <1>3, <1>4 DEF Repairing

-----------------------------------------------------------------------------
(* Facts about the invariant.                                              *)

\* A shard's plog is a plog on a disk, of that vlog alone (IdsInv, VlogOf).
LEMMA ShardFacts ==
    ASSUME RelocationInv, NEW v \in Vlogs, NEW s \in Shards
    PROVE  /\ shard[v][s] \in Plogs /\ place[shard[v][s]] \in Disks
           /\ shard[v][s] \in PlogsOf(v) /\ shard[v][s] \in Mapped
           /\ VlogOf(shard[v][s]) = v
<1>1. TypeOK /\ IdsInv
  BY DEF RelocationInv
<1>2. shard[v][s] \in PlogsOf(v)
  BY DEF PlogsOf
<1>3. /\ VlogOf(shard[v][s]) \in Vlogs /\ shard[v][s] \in PlogsOf(VlogOf(shard[v][s]))
      /\ shard[v][s] \in Mapped /\ shard[v][s] \in Plogs
  BY <1>1, <1>2, VlogOfType
<1>4. PICK t \in Shards : shard[VlogOf(shard[v][s])][t] = shard[v][s]
  BY <1>3 DEF PlogsOf
<1>5. VlogOf(shard[v][s]) = v
  BY <1>1, <1>3, <1>4 DEF IdsInv
<1>6. place[shard[v][s]] \in Disks
  BY <1>1, <1>3 DEF IdsInv, TypeOK
<1> QED
  BY <1>2, <1>3, <1>5, <1>6

\* A mapped plog is the plog of a shard (Mapped).
LEMMA MappedFacts ==
    ASSUME NEW p \in Mapped
    PROVE  \E v \in Vlogs, s \in Shards : p = shard[v][s]
  BY DEF Mapped, PlogsOf

\* A relocation under way is one of a call, and of a shard (RelInv).
LEMMA RelFacts ==
    ASSUME RelocationInv, rel # NoRel
    PROVE  /\ rel \in Relocations
           /\ rel.v \in Vlogs /\ rel.s \in Shards /\ rel.p \in Plogs /\ rel.q \in Plogs
           /\ rel.from \in Disks /\ rel.to \in Disks /\ rel.had \in Disks \cup {NoDisk}
           /\ rel.err \in BOOLEAN /\ rel.v \notin busy /\ call # Free
           /\ shard[rel.v][rel.s] = rel.p /\ MoveInv /\ RepairInv
<1>1. rel \in Relocations
  BY DEF RelocationInv, TypeOK
<1> QED
  BY <1>1 DEF RelocationInv, RelInv, Relocations

\* Between calls nothing is being relocated (RelInv).
LEMMA FreeFacts ==
    ASSUME RelocationInv, call = Free
    PROVE  rel = NoRel
  BY DEF RelocationInv, RelInv

\* With no relocation under way no shard is in transit (InTransit).
LEMMA NoTransit == ASSUME rel = NoRel PROVE \A v, s : ~InTransit(v, s)
  BY Constants DEF InTransit

-----------------------------------------------------------------------------
(* Steps that change no placement.                                         *)

\* Jobs, bounds and leases (BeginWrite, AbortWrite, RemoveDisk, ...).
LEMMA QuietStep ==
    ASSUME RelocationInv, busy' \subseteq Vlogs, rel # NoRel => rel.v \notin busy',
           UNCHANGED <<topologyVars, catalogVars, mediaVars, memoryVars, call, rel>>
    PROVE  RelocationInv'
<1>1. TypeOK'
  BY DEF RelocationInv, TypeOK
<1>2. IdsInv'
  BY DEF RelocationInv, IdsInv
<1>3. HandlesInv' /\ ClientsInv'
  BY DEF RelocationInv, HandlesInv, ClientsInv, InTransit
<1>4. CallInv'
  BY DEF RelocationInv, CallInv
<1>5. RelInv'
  BY DEF RelocationInv, RelInv, MoveInv, RepairInv, Whole
<1>6. PlacementWhole' /\ OneCopyPerDisk' /\ NoDetachedData'
  BY DEF RelocationInv, PlacementWhole, OneCopyPerDisk, NoDetachedData, Mapped, PlogsOf
<1> QED
  BY <1>1, <1>2, <1>3, <1>4, <1>5, <1>6 DEF RelocationInv

\* A call begins, goes on or ends between two relocations.
LEMMA CallStep ==
    ASSUME RelocationInv, rel = NoRel,
           diskState' \in [Disks -> {"active", "draining", "failed", "detached"}],
           abandoned' \subseteq Disks \X Plogs,
           \A p \in Mapped : diskState'[place[p]] = "detached" => <<place[p], p>> \in abandoned',
           call' \in Calls, CallInv',
           UNCHANGED <<nodeDown, catalogVars, mediaVars, memoryVars, busy, rel>>
    PROVE  RelocationInv'
<1>1. TypeOK'
  BY DEF RelocationInv, TypeOK
<1>2. IdsInv'
  BY DEF RelocationInv, IdsInv
<1>3. HandlesInv' /\ ClientsInv'
  BY DEF RelocationInv, HandlesInv, ClientsInv, InTransit
<1>5. RelInv'
  BY DEF RelInv
<1>6. PlacementWhole' /\ OneCopyPerDisk' /\ NoDetachedData'
  BY DEF RelocationInv, PlacementWhole, OneCopyPerDisk, NoDetachedData, Mapped, PlogsOf
<1> QED
  BY <1>1, <1>2, <1>3, <1>5, <1>6 DEF RelocationInv

\* The call after a relocation that left every shard where it was, or took its
\* own off the disk of the call (Return).
LEMMA ReturnCall ==
    ASSUME RelocationInv, NEW p, NEW failed \in BOOLEAN, Return(p, failed),
           UNCHANGED <<shard, diskState>>,
           call.kind \in {"drain", "replace"} /\ ~failed =>
               \A v \in Vlogs : \A s \in Shards : place'[shard[v][s]] = call.on =>
                   place[shard[v][s]] = call.on /\ shard[v][s] # p
    PROVE  CallInv'
<1>c. call \in Calls /\ CallInv
  BY DEF RelocationInv, TypeOK
<1>1. CASE ~failed
  <2>1. call' = [call EXCEPT !.todo = @ \ {p}]
    BY <1>1 DEF Return
  <2>2. /\ call'.kind = call.kind /\ call'.on = call.on /\ call'.dest = call.dest
        /\ call'.deferred = call.deferred /\ call'.todo = call.todo \ {p}
    BY <1>c, <2>1 DEF Calls
  <2>3. ASSUME call.kind = "free" PROVE call' = Free
    <3>1. call = Free
      BY <1>c, <2>3 DEF CallInv
    <3>2. Free.todo = {} /\ {} \ {p} = {}
      BY DEF Free
    <3>3. call' = [Free EXCEPT !.todo = {}]
      BY <2>1, <3>1, <3>2
    <3> QED
      BY <3>3 DEF Free
  <2> QED
    BY <1>1, <1>c, <2>2, <2>3 DEF CallInv
<1>2. CASE failed /\ call.kind = "repair"
  <2>1. call' = [call EXCEPT !.todo = @ \ {p}, !.failed = TRUE]
    BY <1>2 DEF Return
  <2>2. call'.kind = "repair" /\ call'.todo = call.todo \ {p}
    BY <1>2, <1>c, <2>1 DEF Calls
  <2> QED
    BY <1>c, <2>2 DEF CallInv
<1>3. CASE failed /\ call.kind # "repair"
  <2>1. call' = Free
    BY <1>3 DEF Return
  <2> QED
    BY <2>1 DEF CallInv, Free
<1> QED
  BY <1>1, <1>2, <1>3

\* The calls that begin (DrainDisk, ReplaceDiskWith, ReprotectDisk, RepairVlog,
\* Rebalance).
LEMMA BeginsCall ==
    ASSUME RelocationInv, Idle, NEW kind \in Kinds, NEW on \in Disks \cup Vlogs \cup {NoDisk},
           NEW dest \in Disks \cup {NoDisk}, NEW todo \in SUBSET Mapped, NEW stuck \in BOOLEAN,
           kind \in {"replace", "rebalance"} => dest \in Disks,
           UNCHANGED <<nodeDown, abandoned>>,
           diskState' = IF kind \in {"drain", "replace"}
                        THEN [diskState EXCEPT ![on] = "draining"] ELSE diskState,
           kind \in {"drain", "replace"} => on \in Disks /\ dest # on /\ todo = PlogsOnDisk(on),
           \/ call' = Call(kind, on, dest, todo)
           \/ kind = "repair" /\ call' = [Call(kind, on, dest, {}) EXCEPT !.failed = TRUE]
    PROVE  RelocationInv'
<1>t. TypeOK /\ rel = NoRel
  BY FreeFacts DEF RelocationInv, Idle
<1>u. UNCHANGED <<nodeDown, catalogVars, mediaVars, memoryVars, busy, rel>>
  BY DEF Idle
<1>p. todo \subseteq Plogs
  BY <1>t DEF Mapped, PlogsOf, TypeOK
<1>1. /\ diskState' \in [Disks -> {"active", "draining", "failed", "detached"}]
      /\ abandoned' \subseteq Disks \X Plogs
  BY <1>t DEF TypeOK
<1>2. \A p \in Mapped : diskState'[place[p]] = "detached" => <<place[p], p>> \in abandoned'
  <2> TAKE p \in Mapped
  <2>1. PICK v \in Vlogs, s \in Shards : p = shard[v][s]
    BY MappedFacts
  <2>2. place[p] \in Disks
    BY <2>1, ShardFacts
  <2> QED
    BY <1>t, <2>2 DEF RelocationInv, NoDetachedData, TypeOK
<1>3. CASE call' = Call(kind, on, dest, todo)
  <2>1. /\ call'.kind = kind /\ call'.on = on /\ call'.dest = dest /\ call'.todo = todo
    BY <1>3 DEF Call, Free
  <2>2. call' \in Calls
    BY <1>3, <1>p, CallType
  <2>3. \A p \in call'.todo : \E v \in Vlogs : \E s \in Shards : p = shard'[v][s]
    BY <1>u, <2>1, MappedFacts
  <2>4. kind # "free"
    BY DEF Kinds, Evacuations
  <2>5. kind \in {"drain", "replace"} => /\ diskState'[on] = "draining"
                                         /\ \A v \in Vlogs : \A s \in Shards :
                                               place'[shard'[v][s]] = on => shard'[v][s] \in todo
    BY <1>t, <1>u, ShardFacts DEF PlogsOnDisk, TypeOK
  <2>6. CallInv'
    BY <2>1, <2>3, <2>4, <2>5 DEF CallInv
  <2> QED
    BY <1>t, <1>u, <1>1, <1>2, <2>2, <2>6, CallStep
<1>4. CASE kind = "repair" /\ call' = [Call(kind, on, dest, {}) EXCEPT !.failed = TRUE]
  <2>1. call'.kind = "repair" /\ call'.todo = {}
    BY <1>4 DEF Call, Free
  <2>2. Call(kind, on, dest, {}) \in Calls
    BY CallType
  <2>3. call' \in Calls
    BY <1>4, <2>2 DEF Calls
  <2>4. CallInv'
    BY <2>1 DEF CallInv
  <2> QED
    BY <1>t, <1>u, <1>1, <1>2, <2>3, <2>4, CallStep
<1> QED
  BY <1>3, <1>4

\* The calls that operators and the driver make.
LEMMA OperatorSteps ==
    ASSUME RelocationInv, NEW d \in Disks,
           \/ DrainDisk(d) \/ ReprotectDisk(d)
           \/ \E e \in Disks : ReplaceDiskWith(d, e)
           \/ \E p \in Plogs : Rebalance(p, d)
    PROVE  RelocationInv'
<1>m. PlogsOnDisk(d) \subseteq Mapped
  BY DEF PlogsOnDisk
<1>k. Kinds = {"drain", "replace", "rebalance", "reprotect", "repair"}
  BY DEF Kinds, Evacuations
<1>1. CASE DrainDisk(d)
  BY <1>1, <1>m, <1>k, BeginsCall, Constants DEF DrainDisk
<1>2. CASE ReprotectDisk(d)
  BY <1>2, <1>m, <1>k, BeginsCall DEF ReprotectDisk
<1>3. ASSUME NEW e \in Disks, ReplaceDiskWith(d, e) PROVE RelocationInv'
  BY <1>3, <1>m, <1>k, BeginsCall DEF ReplaceDiskWith
<1>4. ASSUME NEW p \in Plogs, Rebalance(p, d) PROVE RelocationInv'
  <2>1. place[p] \in Disks
    BY <1>4, MappedFacts, ShardFacts DEF Rebalance
  <2> QED
    BY <1>4, <2>1, <1>k, BeginsCall DEF Rebalance
<1> QED
  BY <1>1, <1>2, <1>3, <1>4

\* A repair begins.
LEMMA RepairVlogStep ==
    ASSUME RelocationInv, NEW v \in Vlogs, NEW scrub \in BOOLEAN, RepairVlog(v, scrub)
    PROVE  RelocationInv'
<1> DEFINE bad == IF scrub THEN Corrupt(v) \cup Offline(v) ELSE Offline(v)
<1>1. bad \subseteq Mapped
  BY DEF Corrupt, Offline, OpenOf, Mapped
<1>2. Idle /\ UNCHANGED topologyVars
  BY DEF RepairVlog
<1>3. \/ call' = Call("repair", v, NoDisk, bad)
      \/ call' = [Call("repair", v, NoDisk, {}) EXCEPT !.failed = TRUE]
  BY DEF RepairVlog
<1>4. "repair" \in Kinds
  BY DEF Kinds
<1> HIDE DEF bad
<1> QED
  BY <1>1, <1>2, <1>3, <1>4, BeginsCall

\* The steps of a call between two relocations.
LEMMA CallSteps ==
    ASSUME RelocationInv,
           \/ CallFails \/ Detach \/ Finish
           \/ \E p \in Plogs : Defer(p) \/ NoDestination(p)
    PROVE  RelocationInv'
<1>c. TypeOK /\ call \in Calls /\ CallInv
  BY DEF RelocationInv, TypeOK
<1>n. \A p \in Mapped : diskState[place[p]] = "detached" => <<place[p], p>> \in abandoned
  BY DEF RelocationInv, NoDetachedData
<1>s. /\ diskState \in [Disks -> {"active", "draining", "failed", "detached"}]
      /\ abandoned \subseteq Disks \X Plogs
  BY <1>c DEF TypeOK
<1>f. call' = Free => call' \in Calls /\ CallInv'
  BY CallType DEF CallInv, Free
<1>1. CASE CallFails
  BY <1>1, <1>n, <1>s, <1>f, CallStep DEF CallFails
<1>2. CASE Finish
  BY <1>2, <1>n, <1>s, <1>f, CallStep DEF Finish, Done
<1>3. CASE Detach
  <2>1. /\ call.on \in Disks /\ call.kind \in {"drain", "replace"}
        /\ \A v \in Vlogs : \A s \in Shards : place[shard[v][s]] # call.on
    BY <1>3, <1>c DEF Detach, Detaches, Done, CallInv
  <2>2. \A p \in Mapped : place[p] # call.on /\ place[p] \in Disks
    BY <2>1, MappedFacts, ShardFacts
  <2>3. diskState' = [diskState EXCEPT ![call.on] = "detached"] /\ abandoned' = abandoned
    BY <1>3 DEF Detach
  <2>4. \A p \in Mapped : diskState'[place[p]] = "detached" => <<place[p], p>> \in abandoned'
    BY <1>n, <1>s, <2>2, <2>3
  <2>5. /\ diskState' \in [Disks -> {"active", "draining", "failed", "detached"}]
        /\ abandoned' \subseteq Disks \X Plogs
    BY <1>s, <2>3
  <2>6. UNCHANGED <<nodeDown, catalogVars, mediaVars, memoryVars, busy, call, rel>> /\ rel = NoRel
    BY <1>3 DEF Detach, Done
  <2>7. CallInv'
    BY <1>c, <1>s, <2>1, <2>3, <2>6 DEF CallInv
  <2> QED
    BY <1>c, <2>4, <2>5, <2>6, <2>7, CallStep
<1>4. ASSUME NEW p \in Plogs, Defer(p) PROVE RelocationInv'
  <2>1. call' = [call EXCEPT !.todo = @ \ {p}, !.deferred = TRUE]
    BY <1>4, Zenon DEF Defer
  <2>2. /\ call'.kind = call.kind /\ call'.on = call.on /\ call'.dest = call.dest
        /\ call'.deferred = TRUE /\ call'.todo = call.todo \ {p}
    BY <1>c, <2>1 DEF Calls
  <2>3. call' \in Calls
    BY <1>c, <2>1 DEF Calls
  <2>p. p \in call.todo
    BY <1>4, Zenon DEF Defer
  <2>4. call.kind # "free"
    BY <1>c, <2>p DEF CallInv, Free
  <2>5. /\ UNCHANGED <<topologyVars, catalogVars, mediaVars, memoryVars, busy, rel>>
        /\ rel = NoRel
    BY <1>4, Zenon DEF Defer
  <2>6. CallInv'
    BY <1>c, <2>2, <2>4, <2>5 DEF CallInv
  <2> QED
    BY <1>n, <1>s, <2>3, <2>5, <2>6, CallStep
<1>5. ASSUME NEW p \in Plogs, NoDestination(p) PROVE RelocationInv'
  <2>1. /\ UNCHANGED <<topologyVars, catalogVars, mediaVars, memoryVars, busy>>
        /\ rel = NoRel /\ Return(p, TRUE)
    BY <1>5 DEF NoDestination
  <2>2. CallInv'
    BY <2>1, ReturnCall
  <2>3. call' \in Calls /\ rel' = NoRel
    BY <1>c, <2>1, ReturnType
  <2> QED
    BY <1>n, <1>s, <2>1, <2>2, <2>3, CallStep
<1> QED
  BY <1>1, <1>2, <1>3, <1>4, <1>5

\* The steps that touch nothing but jobs, leases and bounds.
LEMMA QuietSteps ==
    ASSUME RelocationInv,
           \/ \E v \in Vlogs : BeginWrite(v) \/ AbortWrite(v) \/ RepairNothing(v)
           \/ \E d \in Disks : RemoveDisk(d) \/ ConfirmDetached(d) \/ ReprotectEmptyDisk(d)
    PROVE  RelocationInv'
<1>b. busy \subseteq Vlogs /\ (rel # NoRel => rel.v \notin busy)
  BY DEF RelocationInv, TypeOK, RelInv
<1>1. ASSUME NEW v \in Vlogs, BeginWrite(v) PROVE RelocationInv'
  BY <1>1, <1>b, FreeFacts, QuietStep DEF BeginWrite
<1>2. ASSUME NEW v \in Vlogs, AbortWrite(v) PROVE RelocationInv'
  BY <1>2, <1>b, QuietStep DEF AbortWrite
<1>3. ASSUME NEW v \in Vlogs, RepairNothing(v) PROVE RelocationInv'
  BY <1>3, <1>b, QuietStep DEF RepairNothing, Idle
<1>4. ASSUME NEW d \in Disks, RemoveDisk(d) \/ ConfirmDetached(d) \/ ReprotectEmptyDisk(d)
      PROVE  RelocationInv'
  BY <1>4, <1>b, QuietStep DEF RemoveDisk, ConfirmDetached, ReprotectEmptyDisk, Idle
<1> QED
  BY <1>1, <1>2, <1>3, <1>4

-----------------------------------------------------------------------------
(* Faults of the media, and the sweep.                                     *)

\* Files change, and nothing else but the history of faults and what the
\* relocation's captured generations tell: it is enough that the files at the
\* places of the catalog, and the two of the relocation, are whole or excused.
LEMMA MediaStep ==
    ASSUME RelocationInv, TypeOK', RelInv', PlacementWhole',
           rel'.pc = rel.pc, rel'.v = rel.v, rel'.s = rel.s, rel'.from = rel.from,
           UNCHANGED <<topologyVars, catalogVars, stranded, memoryVars, busy, call>>
    PROVE  RelocationInv'
<1>2. IdsInv'
  BY DEF RelocationInv, IdsInv
<1>3. HandlesInv' /\ ClientsInv'
  BY DEF RelocationInv, HandlesInv, ClientsInv, InTransit
<1>4. CallInv'
  BY DEF RelocationInv, CallInv
<1>6. OneCopyPerDisk' /\ NoDetachedData'
  BY DEF RelocationInv, OneCopyPerDisk, NoDetachedData, Mapped, PlogsOf
<1> QED
  BY <1>2, <1>3, <1>4, <1>6 DEF RelocationInv

\* Enough for MediaStep: no file that is whole or excused stops being so.
LEMMA WholeStep ==
    ASSUME RelocationInv, TypeOK',
           \A v \in Vlogs, p \in Plogs, d \in Disks : Whole(v, p, d) => Whole(v, p, d)',
           UNCHANGED <<topologyVars, catalogVars, stranded, memoryVars, busy, call, rel>>
    PROVE  RelocationInv'
<1>t. PlacementWhole /\ RelInv
  BY DEF RelocationInv
<1>1. PlacementWhole'
  <2> SUFFICES ASSUME NEW v \in Vlogs \ stranded, NEW s \in Shards
               PROVE  Whole(v, shard[v][s], place[shard[v][s]])'
    BY DEF PlacementWhole, PlogsOf, Whole
  <2>1. Whole(v, shard[v][s], place[shard[v][s]])
    BY <1>t DEF PlacementWhole, PlogsOf, Whole
  <2> QED
    BY <2>1, ShardFacts
<1>2. RelInv'
  <2>1. CASE rel = NoRel
    BY <2>1 DEF RelInv
  <2>2. CASE rel # NoRel
    <3>1. /\ Whole(rel.v, rel.p, rel.from) => Whole(rel.v, rel.p, rel.from)'
          /\ Whole(rel.v, rel.p, rel.to) => Whole(rel.v, rel.p, rel.to)'
          /\ Whole(rel.v, rel.q, rel.to) => Whole(rel.v, rel.q, rel.to)'
      BY <2>2, RelFacts
    <3> QED
      BY <1>t, <3>1 DEF RelInv, MoveInv, RepairInv
  <2> QED
    BY <2>1, <2>2
<1> QED
  BY <1>1, <1>2, MediaStep

\* A disk dies, or a file decays.
LEMMA FaultSteps ==
    ASSUME RelocationInv, (\E d \in Disks : LoseDisk(d)) \/ (\E p \in Plogs : Rot(p))
    PROVE  RelocationInv'
<1>t. TypeOK
  BY DEF RelocationInv
<1>1. ASSUME NEW d \in Disks, LoseDisk(d) PROVE RelocationInv'
  <2>u. /\ UNCHANGED <<topologyVars, catalogVars, stranded, memoryVars, busy, call, rel>>
        /\ gone' = gone \cup {d}
        /\ file' = [file EXCEPT ![d] = [p \in Plogs |-> Absent]]
        /\ excused' = excused \cup {<<d, p>> : p \in Plogs}
    BY <1>1 DEF LoseDisk
  <2>1. TypeOK'
    BY <1>t, <2>u, Constants DEF TypeOK
  <2>2. ASSUME NEW v \in Vlogs, NEW p \in Plogs, NEW e \in Disks, Whole(v, p, e)
        PROVE  Whole(v, p, e)'
    <3>1. CASE e = d
      BY <2>u, <3>1 DEF Whole
    <3>2. CASE e # d
      BY <1>t, <2>u, <2>2, <3>2 DEF Whole, TypeOK
    <3> QED
      BY <3>1, <3>2
  <2> QED
    BY <2>u, <2>1, <2>2, WholeStep
<1>2. ASSUME NEW r \in Plogs, Rot(r) PROVE RelocationInv'
  <2>u. /\ UNCHANGED <<topologyVars, catalogVars, gone, stranded, memoryVars, busy, call, rel>>
        /\ file' = [file EXCEPT ![place[r]][r] = Torn]
        /\ excused' = excused \cup {<<place[r], r>>}
    BY <1>2 DEF Rot
  <2>d. place[r] \in Disks
    BY <1>2, MappedFacts, ShardFacts DEF Rot
  <2>1. TypeOK'
    BY <1>t, <2>u, <2>d, Constants DEF TypeOK
  <2>2. ASSUME NEW v \in Vlogs, NEW p \in Plogs, NEW e \in Disks, Whole(v, p, e)
        PROVE  Whole(v, p, e)'
    <3>1. CASE e = place[r] /\ p = r
      BY <2>u, <3>1 DEF Whole
    <3>2. CASE ~(e = place[r] /\ p = r)
      BY <1>t, <2>u, <2>2, <2>d, <3>2 DEF Whole, TypeOK
    <3> QED
      BY <3>1, <3>2
  <2> QED
    BY <2>u, <2>1, <2>2, WholeStep
<1> QED
  BY <1>1, <1>2

\* The sweep removes no file at a place of the catalog.
LEMMA SweepStep ==
    ASSUME RelocationInv, SweepStrayPlogFiles
    PROVE  RelocationInv'
<1>t. TypeOK /\ PlacementWhole /\ rel = NoRel
  BY FreeFacts DEF RelocationInv, SweepStrayPlogFiles
<1>u. /\ UNCHANGED <<topologyVars, catalogVars, gone, excused, stranded, memoryVars, busy, call, rel>>
      /\ file' = [d \in Disks |-> [p \in Plogs |-> IF Stray(d, p) THEN Absent ELSE file[d][p]]]
  BY DEF SweepStrayPlogFiles
<1>1. TypeOK'
  BY <1>t, <1>u, Constants DEF TypeOK
<1>2. PlacementWhole'
  <2> SUFFICES ASSUME NEW v \in Vlogs \ stranded, NEW s \in Shards
               PROVE  Whole(v, shard[v][s], place[shard[v][s]])'
    BY <1>u DEF PlacementWhole, PlogsOf, Whole
  <2>1. Whole(v, shard[v][s], place[shard[v][s]])
    BY <1>t DEF PlacementWhole, PlogsOf, Whole
  <2>2. file'[place[shard[v][s]]][shard[v][s]] = file[place[shard[v][s]]][shard[v][s]]
    BY <1>u, ShardFacts DEF Stray
  <2> QED
    BY <1>u, <2>1, <2>2 DEF Whole
<1>3. RelInv'
  BY <1>t, <1>u DEF RelInv
<1> QED
  BY <1>u, <1>1, <1>2, <1>3, MediaStep

\* Another disk is put behind a row: the captured generations tell.
LEMMA ReplaceRowStep ==
    ASSUME RelocationInv, NEW d \in Disks, ReplaceDiskRow(d)
    PROVE  RelocationInv'
<1> DEFINE new == rel.stale \cup (IF \E p \in PlogsOf(rel.v) : place[p] = d THEN {"source"} ELSE {})
                            \cup (IF d = rel.to THEN {"dest"} ELSE {})
                            \cup (IF d = rel.from THEN {"rollback"} ELSE {})
<1>t. TypeOK /\ PlacementWhole /\ RelInv
  BY DEF RelocationInv
<1>u. /\ UNCHANGED <<topologyVars, catalogVars, gone, stranded, memoryVars, busy, call>>
      /\ file' = [file EXCEPT ![d] = [p \in Plogs |-> Absent]]
      /\ excused' = excused \cup {<<d, p>> : p \in Rows(d) \cap Mapped}
      /\ rel # NoRel /\ rel' = [rel EXCEPT !.stale = new]
  BY DEF ReplaceDiskRow
<1>r. rel \in Relocations
  BY <1>u, RelFacts
<1>n. /\ new \in SUBSET {"source", "dest", "rollback"} /\ rel.stale \subseteq new
      /\ d = rel.to => "dest" \in new
      /\ d = rel.from => "rollback" \in new
  BY <1>r DEF Relocations
<1> HIDE DEF new
<1>f. /\ rel' \in Relocations /\ rel'.stale = new
      /\ rel'.pc = rel.pc /\ rel'.v = rel.v /\ rel'.s = rel.s /\ rel'.p = rel.p /\ rel'.q = rel.q
      /\ rel'.from = rel.from /\ rel'.to = rel.to /\ rel'.had = rel.had
  BY <1>r, <1>u, <1>n DEF Relocations
<1>1. TypeOK'
  <2>1. file' \in [Disks -> [Plogs -> Int]]
    BY <1>t, <1>u, Constants DEF TypeOK
  <2>2. excused' \subseteq Disks \X Plogs
    BY <1>t, <1>u DEF TypeOK, Rows
  <2> QED
    BY <1>t, <1>u, <1>f, <2>1, <2>2 DEF TypeOK
<1>2. \A v \in Vlogs, p \in Plogs, e \in Disks : Whole(v, p, e) /\ e # d => Whole(v, p, e)'
  BY <1>t, <1>u DEF Whole, TypeOK
<1>3. PlacementWhole'
  <2> SUFFICES ASSUME NEW v \in Vlogs \ stranded, NEW s \in Shards
               PROVE  Whole(v, shard[v][s], place[shard[v][s]])'
    BY <1>u DEF PlacementWhole, PlogsOf, Whole
  <2>1. Whole(v, shard[v][s], place[shard[v][s]])
    BY <1>t DEF PlacementWhole, PlogsOf, Whole
  <2>2. shard[v][s] \in Plogs /\ place[shard[v][s]] \in Disks /\ shard[v][s] \in Mapped
    BY ShardFacts
  <2>3. CASE place[shard[v][s]] = d
    BY <1>u, <2>2, <2>3 DEF Whole, Rows
  <2>4. CASE place[shard[v][s]] # d
    BY <1>2, <1>u, <2>1, <2>2, <2>4
  <2> QED
    BY <2>3, <2>4
<1>4. RelInv'
  <2>1. MoveInv /\ RepairInv /\ shard[rel.v][rel.s] = rel.p /\ rel.v \notin busy /\ call # Free
    BY <1>u, RelFacts
  <2>2. /\ rel.v \in Vlogs /\ rel.p \in Plogs /\ rel.q \in Plogs /\ rel.from \in Disks
        /\ rel.to \in Disks
    BY <1>u, RelFacts
  <2>3. /\ "rollback" \in rel.stale \/ Whole(rel.v, rel.p, rel.from) =>
               "rollback" \in new \/ Whole(rel.v, rel.p, rel.from)'
        /\ "dest" \in rel.stale \/ Whole(rel.v, rel.p, rel.to) =>
               "dest" \in new \/ Whole(rel.v, rel.p, rel.to)'
        /\ "dest" \in rel.stale \/ Whole(rel.v, rel.q, rel.to) =>
               "dest" \in new \/ Whole(rel.v, rel.q, rel.to)'
    BY <1>2, <1>n, <1>f, <2>2
  <2>4. MoveInv'
    BY <1>u, <1>f, <2>1, <2>3 DEF MoveInv
  <2>5. RepairInv'
    BY <1>u, <1>f, <2>1, <2>3 DEF RepairInv
  <2> QED
    BY <1>u, <1>f, <2>1, <2>4, <2>5 DEF RelInv
<1> QED
  BY <1>u, <1>f, <1>1, <1>3, <1>4, MediaStep

-----------------------------------------------------------------------------
(* A write.                                                                *)

\* A write grows the copies that took it, and excuses those that did not.
LEMMA EndWriteStep ==
    ASSUME RelocationInv, NEW v \in Vlogs, EndWrite(v)
    PROVE  RelocationInv'
<1>t. TypeOK /\ IdsInv /\ ClientsInv /\ PlacementWhole /\ RelInv
  BY DEF RelocationInv
<1>u. /\ UNCHANGED <<topologyVars, shard, place, spent, gone, stranded, memoryVars, call, rel>>
      /\ length' = [length EXCEPT ![v] = @ + 1] /\ busy' = busy \ {v}
      /\ v \in busy /\ v \notin quarantined
  BY DEF EndWrite
<1>k. PICK took \in SUBSET {s \in Shards : Takes(v, mount[v][s])} :
          /\ file' = [d \in Disks |-> [p \in Plogs |->
                IF file[d][p] # Torn /\ \E s \in took : mount[v][s] = [plog |-> p, disk |-> d]
                THEN file[d][p] + 1 ELSE file[d][p]]]
          /\ excused' = excused \cup {<<place[shard[v][s]], shard[v][s]>> :
                s \in {t \in Shards \ took : mount[v][t].plog = shard[v][t]}}
  BY DEF EndWrite
<1>r. rel # NoRel => rel.v # v
  BY <1>u, RelFacts
<1>1. TypeOK'
  <2>1. file' \in [Disks -> [Plogs -> Int]]
    BY <1>t, <1>k DEF TypeOK
  <2>2. excused' \subseteq Disks \X Plogs
    <3>1. \A s \in Shards : <<place[shard[v][s]], shard[v][s]>> \in Disks \X Plogs
      BY ShardFacts
    <3> QED
      BY <1>t, <1>k, <3>1 DEF TypeOK
  <2>3. length' \in [Vlogs -> Nat \ {0}]
    BY <1>t, <1>u DEF TypeOK
  <2> QED
    BY <1>t, <1>u, <2>1, <2>2, <2>3 DEF TypeOK
<1>2. IdsInv'
  BY <1>t, <1>u DEF IdsInv
<1>3. HandlesInv' /\ ClientsInv'
  BY <1>u DEF RelocationInv, HandlesInv, ClientsInv, InTransit
<1>4. CallInv'
  BY <1>u DEF RelocationInv, CallInv
<1>5. ASSUME NEW w \in Vlogs, NEW p \in Plogs, NEW d \in Disks, w # v,
             \A s \in Shards : mount[v][s].plog # p, Whole(w, p, d)
      PROVE  Whole(w, p, d)'
  <2>1. \A s \in Shards : mount[v][s] # [plog |-> p, disk |-> d]
    BY <1>5
  <2>2. file'[d][p] = file[d][p]
    BY <1>k, <2>1
  <2>3. length'[w] = length[w]
    BY <1>t, <1>u, <1>5 DEF TypeOK
  <2> QED
    BY <1>5, <1>k, <2>2, <2>3 DEF Whole
<1>6. PlacementWhole'
  <2> SUFFICES ASSUME NEW w \in Vlogs \ stranded, NEW s \in Shards
               PROVE  Whole(w, shard[w][s], place[shard[w][s]])'
    BY <1>u DEF PlacementWhole, PlogsOf, Whole
  <2> DEFINE p == shard[w][s]
             d == place[p]
  <2>1. Whole(w, p, d)
    BY <1>t DEF PlacementWhole, PlogsOf, Whole
  <2>2. p \in Plogs /\ d \in Disks
    BY ShardFacts
  <2>3. CASE w # v
    <3>1. \A t \in Shards : mount[v][t].plog # p
      BY <1>t, <2>3 DEF IdsInv
    <3> QED
      BY <1>5, <1>u, <2>1, <2>2, <2>3, <3>1
  <2>4. CASE w = v
    <3>1. ~InTransit(v, s)
      BY <1>r, Constants DEF InTransit
    <3>2. mount[v][s].plog = p /\ mount[v][s].disk \in {d, NoDisk}
      BY <1>t, <1>u, <2>4, <3>1 DEF ClientsInv
    <3>3. CASE s \notin took
      <4>1. <<d, p>> \in excused'
        BY <1>k, <2>4, <3>2, <3>3
      <4> QED
        BY <1>u, <4>1 DEF Whole
    <3>4. CASE s \in took
      <4>1. mount[v][s].disk = d /\ file[d][p] \in {length[v], Torn}
        BY <3>2, <3>4 DEF Takes, Alive
      <4>2. mount[v][s] \in [plog : Plogs, disk : Disks \cup {NoDisk}]
        BY <1>t DEF TypeOK
      <4>3. mount[v][s] = [plog |-> p, disk |-> d]
        BY <3>2, <4>1, <4>2
      <4>4. length[v] \in Nat /\ Torn \notin Nat /\ length'[v] = length[v] + 1
        BY <1>t, <1>u DEF TypeOK, Torn
      <4>5. CASE <<d, p>> \in excused
        BY <1>k, <1>u, <4>5 DEF Whole
      <4>6. CASE <<d, p>> \notin excused
        <5>1. file[d][p] = length[v]
          BY <2>1, <2>4, <4>6 DEF Whole
        <5>2. file'[d][p] = file[d][p] + 1
          BY <1>k, <2>2, <3>4, <4>3, <4>4, <5>1
        <5> HIDE DEF p, d
        <5>3. <<d, p>> \in excused' \/ file'[d][p] = length'[v]
          BY <4>4, <5>1, <5>2
        <5> QED
          BY <1>u, <2>4, <5>3 DEF Whole, p, d
      <4> QED
        BY <4>5, <4>6
    <3> QED
      BY <3>3, <3>4
  <2> QED
    BY <2>3, <2>4
<1>7. RelInv'
  <2>1. CASE rel = NoRel
    BY <1>u, <2>1 DEF RelInv
  <2>2. CASE rel # NoRel
    <3>1. /\ rel.v \in Vlogs /\ rel.s \in Shards /\ rel.p \in Plogs /\ rel.q \in Plogs
          /\ rel.from \in Disks /\ rel.to \in Disks /\ rel.v # v /\ shard[rel.v][rel.s] = rel.p
      BY <1>r, <2>2, RelFacts
    <3>2. \A t \in Shards : mount[v][t].plog # rel.p
      BY <1>t, <3>1 DEF IdsInv
    <3>3. /\ Whole(rel.v, rel.p, rel.from) => Whole(rel.v, rel.p, rel.from)'
          /\ Whole(rel.v, rel.p, rel.to) => Whole(rel.v, rel.p, rel.to)'
      BY <1>5, <1>u, <3>1, <3>2
    <3>4. RepairInv' /\ MoveInv'
      <4>1. CASE rel.pc \in {"writing", "regenerated"}
        <5>1. \A t \in Shards : mount[v][t].plog # rel.q
          BY <2>2, <4>1, RelFacts DEF RepairInv
        <5>2. Whole(rel.v, rel.q, rel.to) => Whole(rel.v, rel.q, rel.to)'
          BY <1>5, <1>u, <3>1, <5>1
        <5> QED
          BY <1>t, <1>u, <2>2, <4>1, <5>2 DEF RelInv, RepairInv, MoveInv
      <4>2. CASE rel.pc \notin {"writing", "regenerated"}
        BY <1>t, <1>u, <2>2, <3>3, <4>2 DEF RelInv, RepairInv, MoveInv
      <4> QED
        BY <4>1, <4>2
    <3> QED
      BY <1>t, <1>u, <2>2, <3>4 DEF RelInv
  <2> QED
    BY <2>1, <2>2
<1>8. OneCopyPerDisk' /\ NoDetachedData'
  BY <1>u DEF RelocationInv, OneCopyPerDisk, NoDetachedData, Mapped, PlogsOf
<1> QED
  BY <1>1, <1>2, <1>3, <1>4, <1>6, <1>7, <1>8 DEF RelocationInv

-----------------------------------------------------------------------------
(* Disks and nodes that fail and return.                                   *)

\* A caught up copy has what is published, and the others stay (CaughtUp).
LEMMA CatchUpStep ==
    ASSUME RelocationInv, NEW copies \in SUBSET Mapped,
           \A v \in Vlogs : \A s \in Shards :
               file'[place[shard[v][s]]][shard[v][s]] = CaughtUp(copies)[place[shard[v][s]]][shard[v][s]],
           \A v \in Vlogs : \A s \in Shards :
               <<place[shard[v][s]], shard[v][s]>> \in excused \ Placed(copies) =>
                   <<place[shard[v][s]], shard[v][s]>> \in excused',
           UNCHANGED <<shard, place, length, stranded>>
    PROVE  PlacementWhole'
<1> SUFFICES ASSUME NEW v \in Vlogs \ stranded, NEW s \in Shards
             PROVE  Whole(v, shard[v][s], place[shard[v][s]])'
  BY DEF PlacementWhole, PlogsOf, Whole
<1> DEFINE p == shard[v][s]
<1>1. Whole(v, p, place[p])
  BY DEF RelocationInv, PlacementWhole, PlogsOf, Whole
<1>2. p \in Plogs /\ place[p] \in Disks /\ VlogOf(p) = v
  BY ShardFacts
<1>3. CASE p \in copies
  <2>1. CaughtUp(copies)[place[p]][p] = length[v]
    BY <1>2, <1>3 DEF CaughtUp
  <2> QED
    BY <2>1 DEF Whole
<1>4. CASE p \notin copies
  <2>1. CaughtUp(copies)[place[p]][p] = file[place[p]][p]
    BY <1>2, <1>4 DEF CaughtUp
  <2>2. <<place[p], p>> \notin Placed(copies)
    BY <1>4 DEF Placed
  <2> QED
    BY <1>1, <2>1, <2>2 DEF Whole
<1> QED
  BY <1>3, <1>4

\* A change of topology between calls: the states of disks and nodes, and
\* perhaps the handles, the clients and the copies that were caught up.
LEMMA TopologyStep ==
    ASSUME RelocationInv, call = Free, nodeDown' \subseteq Disks,
           diskState' \in [Disks -> {"active", "draining", "failed", "detached"}],
           abandoned' \subseteq Disks \X Plogs,
           \A p \in Mapped : diskState'[place[p]] = "detached" => <<place[p], p>> \in abandoned',
           UNCHANGED <<catalogVars, gone, stranded, quarantined, busy, call, rel>>,
           NEW copies \in SUBSET Mapped, NEW which \in SUBSET Vlogs,
           NEW handles \in [Plogs -> Disks \cup {NoDisk}],
           \A v \in Vlogs : \A s \in Shards : handles[shard[v][s]] \in {place[shard[v][s]], NoDisk},
           \/ UNCHANGED <<file, excused, open, offline, mount>>
           \/ /\ file' = CaughtUp(copies) /\ excused' = excused \ Placed(copies)
              /\ open' = handles /\ offline' \subseteq Plogs /\ mount' = Mounting(which, handles)
    PROVE  RelocationInv'
<1>t. TypeOK /\ IdsInv /\ HandlesInv /\ ClientsInv /\ PlacementWhole /\ rel = NoRel
  BY FreeFacts DEF RelocationInv
<1>n. (\A v, s : ~InTransit(v, s)) /\ (\A v, s : ~InTransit(v, s)')
  BY <1>t, Constants DEF InTransit
<1>1. CASE UNCHANGED <<file, excused, open, offline, mount>>
  <2>1. TypeOK'
    BY <1>t, <1>1 DEF TypeOK
  <2>2. IdsInv'
    BY <1>t, <1>1 DEF IdsInv
  <2>3. HandlesInv' /\ ClientsInv'
    BY <1>t, <1>n, <1>1 DEF HandlesInv, ClientsInv
  <2>4. CallInv'
    BY DEF CallInv, Free
  <2>5. RelInv'
    BY <1>t DEF RelInv
  <2>6. PlacementWhole' /\ OneCopyPerDisk' /\ NoDetachedData'
    BY <1>1 DEF RelocationInv, PlacementWhole, OneCopyPerDisk, NoDetachedData, Mapped, PlogsOf
  <2> QED
    BY <2>1, <2>2, <2>3, <2>4, <2>5, <2>6 DEF RelocationInv
<1>2. CASE /\ file' = CaughtUp(copies) /\ excused' = excused \ Placed(copies)
           /\ open' = handles /\ offline' \subseteq Plogs /\ mount' = Mounting(which, handles)
  <2>m. \A v \in Vlogs : \A s \in Shards :
            /\ v \in which => /\ mount'[v][s].plog = shard[v][s]
                              /\ mount'[v][s].disk = handles[shard[v][s]]
            /\ v \notin which => mount'[v][s] = mount[v][s]
    BY <1>2 DEF Mounting, Client
  <2>1. TypeOK'
    <3>1. file' \in [Disks -> [Plogs -> Int]]
      BY <1>t, <1>2, CopiesType, MediaType DEF Media
    <3>2. mount' \in [Vlogs -> [Shards -> [plog : Plogs, disk : Disks \cup {NoDisk}]]]
      BY <1>t, <1>2 DEF Mounting, Client, TypeOK
    <3> QED
      BY <1>t, <1>2, <3>1, <3>2 DEF TypeOK
  <2>2. IdsInv'
    BY <1>t, <2>m DEF IdsInv
  <2>3. HandlesInv'
    BY <1>2 DEF HandlesInv
  <2>c. ClientsInv'
    BY <1>t, <1>n, <2>m DEF ClientsInv
  <2>4. CallInv'
    BY DEF CallInv, Free
  <2>5. RelInv'
    BY <1>t DEF RelInv
  <2>6. PlacementWhole'
    BY <1>2, CatchUpStep
  <2>7. OneCopyPerDisk' /\ NoDetachedData'
    BY DEF RelocationInv, OneCopyPerDisk, NoDetachedData, Mapped, PlogsOf
  <2> QED
    BY <2>1, <2>2, <2>3, <2>c, <2>4, <2>5, <2>6, <2>7 DEF RelocationInv
<1> QED
  BY <1>1, <1>2

\* What going offline and coming back do to handles, clients and copies.
LEMMA OfflineHandles ==
    ASSUME RelocationInv, call = Free, NEW d \in Disks, TakeOffline(d) \/ BringBack(d)
    PROVE  \E copies \in SUBSET Mapped, which \in SUBSET Vlogs,
              handles \in [Plogs -> Disks \cup {NoDisk}] :
              /\ \A v \in Vlogs : \A s \in Shards :
                    handles[shard[v][s]] \in {place[shard[v][s]], NoDisk}
              /\ \/ UNCHANGED <<file, excused, open, offline, mount>>
                 \/ /\ file' = CaughtUp(copies) /\ excused' = excused \ Placed(copies)
                    /\ open' = handles /\ offline' \subseteq Plogs /\ mount' = Mounting(which, handles)
<1>t. TypeOK /\ HandlesInv /\ rel = NoRel
  BY FreeFacts DEF RelocationInv
<1>h. \A v \in Vlogs : \A s \in Shards :
          shard[v][s] \in Plogs /\ open[shard[v][s]] \in {place[shard[v][s]], NoDisk}
  BY <1>t, ShardFacts, NoTransit DEF HandlesInv
<1>1. CASE TakeOffline(d)
  <2> DEFINE mounted == Affected(d) \ quarantined
             copies  == UNION {Survivors(v, d) : v \in mounted}
             handles == [p \in Plogs |-> IF place[p] = d THEN NoDisk ELSE open[p]]
  <2>1. copies \in SUBSET Mapped
    BY DEF Affected, Survivors, OpenOf, Mapped
  <2>2. handles \in [Plogs -> Disks \cup {NoDisk}]
    BY <1>t DEF TypeOK
  <2>3. \A v \in Vlogs : \A s \in Shards : handles[shard[v][s]] \in {place[shard[v][s]], NoDisk}
    BY <1>h
  <2>4. mounted \subseteq Vlogs
    BY DEF Affected
  <2>5. \/ UNCHANGED <<file, excused, open, offline, mount>>
        \/ /\ file' = CaughtUp(copies) /\ excused' = excused \ Placed(copies)
           /\ open' = handles /\ offline' = offline \cup Rows(d)
           /\ \E which \in SUBSET mounted : mount' = Mounting(which, handles)
    BY <1>1, Zenon DEF TakeOffline
  <2>6. offline \cup Rows(d) \subseteq Plogs
    BY <1>t DEF TypeOK, Rows
  <2> HIDE DEF copies, handles, mounted
  <2>7. CASE UNCHANGED <<file, excused, open, offline, mount>>
    BY <2>1, <2>2, <2>3, <2>4, <2>7
  <2>8. CASE /\ file' = CaughtUp(copies) /\ excused' = excused \ Placed(copies)
             /\ open' = handles /\ offline' = offline \cup Rows(d)
             /\ \E which \in SUBSET mounted : mount' = Mounting(which, handles)
    <3>1. PICK which \in SUBSET mounted : mount' = Mounting(which, handles)
      BY <2>8
    <3>2. which \in SUBSET Vlogs /\ offline' \subseteq Plogs
      BY <2>4, <2>6, <2>8
    <3> QED
      BY <2>1, <2>2, <2>3, <2>8, <3>1, <3>2
  <2> QED
    BY <2>5, <2>7, <2>8
<1>2. CASE BringBack(d)
  <2> DEFINE back    == Rows(d) \cap offline
             copies  == back \cap Mapped
             handles == [p \in Plogs |-> IF p \in back THEN d ELSE open[p]]
             which   == {v \in Vlogs : back \cap PlogsOf(v) # {}}
  <2>1. copies \in SUBSET Mapped /\ which \in SUBSET Vlogs
    OBVIOUS
  <2>2. handles \in [Plogs -> Disks \cup {NoDisk}]
    BY <1>t DEF TypeOK
  <2>3. \A v \in Vlogs : \A s \in Shards : handles[shard[v][s]] \in {place[shard[v][s]], NoDisk}
    BY <1>h DEF Rows
  <2>4. /\ file' = CaughtUp(copies) /\ excused' = excused \ Placed(copies)
        /\ open' = handles /\ offline' = offline \ back /\ mount' = Mounting(which, handles)
    BY <1>2, Zenon DEF BringBack
  <2>5. offline' \subseteq Plogs
    BY <1>t, <2>4 DEF TypeOK
  <2> HIDE DEF back, copies, handles, which
  <2> QED
    BY <2>1, <2>2, <2>3, <2>4, <2>5
<1> QED
  BY <1>1, <1>2

\* FailDisk, FailNode, ReturnDisk and ReturnNode.
LEMMA TopologySteps ==
    ASSUME RelocationInv, NEW d \in Disks,
           FailDisk(d) \/ FailNode(d) \/ ReturnDisk(d) \/ ReturnNode(d)
    PROVE  RelocationInv'
<1>t. TypeOK
  BY DEF RelocationInv
<1>c. /\ call = Free
      /\ UNCHANGED <<catalogVars, gone, stranded, quarantined, busy, call, rel>>
  BY DEF FailDisk, FailNode, ReturnDisk, ReturnNode
<1>1. nodeDown' \subseteq Disks
  BY <1>t DEF FailDisk, FailNode, ReturnDisk, ReturnNode, TypeOK
<1>2. \/ diskState' = diskState \/ diskState' = [diskState EXCEPT ![d] = "failed"]
      \/ diskState' = [diskState EXCEPT ![d] = "active"]
  BY DEF FailDisk, FailNode, ReturnDisk, ReturnNode
<1>3. diskState' \in [Disks -> {"active", "draining", "failed", "detached"}]
  BY <1>t, <1>2 DEF TypeOK
<1>a. /\ abandoned' \subseteq abandoned
      /\ abandoned' = abandoned \/ (/\ diskState' = [diskState EXCEPT ![d] = "failed"]
                                   /\ abandoned' = abandoned \ {<<d, p>> : p \in Plogs})
  BY DEF FailDisk, FailNode, ReturnDisk, ReturnNode
<1>b. abandoned' \subseteq Disks \X Plogs
  BY <1>t, <1>a DEF TypeOK
<1>4. \A p \in Mapped : diskState'[place[p]] = "detached" => <<place[p], p>> \in abandoned'
  <2> SUFFICES ASSUME NEW p \in Mapped, diskState'[place[p]] = "detached"
               PROVE  <<place[p], p>> \in abandoned'
    OBVIOUS
  <2>1. place[p] \in Disks
    BY MappedFacts, ShardFacts
  <2>2. diskState[place[p]] = "detached"
    BY <1>t, <1>2, <2>1 DEF TypeOK
  <2>3. <<place[p], p>> \in abandoned
    BY <2>2 DEF RelocationInv, NoDetachedData
  <2>4. diskState' = [diskState EXCEPT ![d] = "failed"] => place[p] # d
    BY <1>t, <2>1 DEF TypeOK
  <2> QED
    BY <1>a, <2>3, <2>4
<1>5. CASE UNCHANGED <<file, excused, open, offline, mount>>
  <2>1. open \in [Plogs -> Disks \cup {NoDisk}]
    BY <1>t DEF TypeOK
  <2>2. \A v \in Vlogs : \A s \in Shards : open[shard[v][s]] \in {place[shard[v][s]], NoDisk}
    BY <1>c, FreeFacts, NoTransit DEF RelocationInv, HandlesInv
  <2> QED
    BY <1>c, <1>1, <1>3, <1>b, <1>4, <1>5, <2>1, <2>2, TopologyStep
<1>6. CASE TakeOffline(d) \/ BringBack(d)
  <2>1. PICK copies \in SUBSET Mapped, which \in SUBSET Vlogs,
              handles \in [Plogs -> Disks \cup {NoDisk}] :
              /\ \A v \in Vlogs : \A s \in Shards :
                    handles[shard[v][s]] \in {place[shard[v][s]], NoDisk}
              /\ \/ UNCHANGED <<file, excused, open, offline, mount>>
                 \/ /\ file' = CaughtUp(copies) /\ excused' = excused \ Placed(copies)
                    /\ open' = handles /\ offline' \subseteq Plogs /\ mount' = Mounting(which, handles)
    BY <1>c, <1>6, OfflineHandles
  <2> QED
    BY <1>c, <1>1, <1>3, <1>b, <1>4, <2>1, TopologyStep
<1> QED
  BY <1>5, <1>6 DEF FailDisk, FailNode, ReturnDisk, ReturnNode

\* SetDiskState, between calls, to a state that leaves the files alone.
LEMMA SetDiskStateStep ==
    ASSUME RelocationInv, NEW d \in Disks, NEW state \in {"active", "draining", "detached"},
           SetDiskState(d, state)
    PROVE  RelocationInv'
<1>t. TypeOK
  BY DEF RelocationInv
<1>u. /\ call = Free /\ diskState' = [diskState EXCEPT ![d] = state]
      /\ abandoned' = (abandoned \ {<<d, p>> : p \in Plogs})
                       \cup {<<d, p>> : p \in IF state = "detached" THEN PlogsOnDisk(d) ELSE {}}
      /\ UNCHANGED <<nodeDown, catalogVars, mediaVars, memoryVars, busy, call, rel>>
  BY DEF SetDiskState
<1>r. rel = NoRel
  BY <1>u, FreeFacts
<1>1. diskState' \in [Disks -> {"active", "draining", "failed", "detached"}]
  BY <1>t, <1>u DEF TypeOK
<1>2. abandoned' \subseteq Disks \X Plogs
  <2>1. PlogsOnDisk(d) \subseteq Plogs
    BY <1>t DEF PlogsOnDisk, Mapped, PlogsOf, TypeOK
  <2> QED
    BY <1>t, <1>u, <2>1 DEF TypeOK
<1>3. \A p \in Mapped : diskState'[place[p]] = "detached" => <<place[p], p>> \in abandoned'
  <2> SUFFICES ASSUME NEW p \in Mapped, diskState'[place[p]] = "detached"
               PROVE  <<place[p], p>> \in abandoned'
    OBVIOUS
  <2>1. place[p] \in Disks
    BY MappedFacts, ShardFacts
  <2>2. CASE place[p] = d
    <3>1. state = "detached"
      BY <1>t, <1>u, <2>2 DEF TypeOK
    <3>2. p \in PlogsOnDisk(d)
      BY <2>2 DEF PlogsOnDisk
    <3> QED
      BY <1>u, <2>2, <3>1, <3>2
  <2>3. CASE place[p] # d
    <3>1. diskState[place[p]] = "detached"
      BY <1>t, <1>u, <2>1, <2>3 DEF TypeOK
    <3>2. <<place[p], p>> \in abandoned
      BY <3>1 DEF RelocationInv, NoDetachedData
    <3> QED
      BY <1>u, <2>3, <3>2
  <2> QED
    BY <2>2, <2>3
<1>4. call' \in Calls /\ CallInv'
  BY <1>u, CallType DEF CallInv, Free
<1> QED
  BY <1>u, <1>r, <1>1, <1>2, <1>3, <1>4, CallStep

\* A crash and a restart: what the catalog names is what is opened and mounted.
LEMMA RecoverStep ==
    ASSUME RelocationInv, Recover
    PROVE  RelocationInv'
<1> DEFINE state  == [d \in Disks |-> IF /\ diskState[d] \in {"active", "draining"}
                                          /\ d \in gone \ nodeDown
                                       THEN "failed" ELSE diskState[d]]
           orphan == {p \in Plogs : place[p] # NoDisk /\ p \notin Mapped}
           usable(p) == /\ state[place[p]] # "failed" /\ place[p] \notin nodeDown
                        /\ file[place[p]][p] \in {length[VlogOf(p)], Torn}
           handles == [p \in Plogs |-> IF p \in Mapped /\ usable(p) THEN place[p] ELSE NoDisk]
<1>t. TypeOK /\ IdsInv /\ PlacementWhole /\ OneCopyPerDisk /\ NoDetachedData
  BY DEF RelocationInv
<1>u. /\ UNCHANGED <<nodeDown, abandoned, shard, length, spent, gone, stranded, excused, busy>>
      /\ quarantined' = {} /\ call' = Free /\ rel' = NoRel /\ diskState' = state
  BY Zenon DEF Recover
<1>g. /\ place' = [p \in Plogs |-> IF p \in orphan THEN NoDisk ELSE place[p]]
      /\ file' = [d \in Disks |-> [p \in Plogs |->
                    IF p \in orphan /\ d = place[p] /\ Reachable(d) THEN Absent ELSE file[d][p]]]
  BY Zenon DEF Recover
<1>h. /\ open' = handles /\ offline' = {p \in Mapped : handles[p] = NoDisk}
      /\ mount' = Mounting(Vlogs, handles)
  BY Zenon DEF Recover
<1>o. /\ open' \in [Plogs -> Disks \cup {NoDisk}]
      /\ \A p \in Plogs : open'[p] \in {place[p], NoDisk}
  BY <1>t, <1>h DEF TypeOK
<1>s. /\ diskState' \in [Disks -> {"active", "draining", "failed", "detached"}]
      /\ \A d \in Disks : diskState'[d] = "detached" => diskState[d] = "detached"
  BY <1>t, <1>u DEF TypeOK
<1> HIDE DEF state, usable, handles
<1>p. \A v \in Vlogs : \A s \in Shards :
          /\ shard[v][s] \in Plogs /\ shard[v][s] \in Mapped /\ shard[v][s] \notin orphan
          /\ place[shard[v][s]] \in Disks /\ place'[shard[v][s]] = place[shard[v][s]]
          /\ file'[place[shard[v][s]]][shard[v][s]] = file[place[shard[v][s]]][shard[v][s]]
  BY <1>g, ShardFacts
<1>m. \A v \in Vlogs : \A s \in Shards :
          mount'[v][s].plog = shard[v][s] /\ mount'[v][s].disk = open'[shard[v][s]]
  BY <1>h DEF Mounting, Client
<1>1. TypeOK'
  <2>1. place' \in [Plogs -> Disks \cup {NoDisk}] /\ file' \in [Disks -> [Plogs -> Int]]
    BY <1>t, <1>g, Constants DEF TypeOK
  <2>2. mount' \in [Vlogs -> [Shards -> [plog : Plogs, disk : Disks \cup {NoDisk}]]]
    BY <1>t, <1>h, <1>o DEF Mounting, Client, TypeOK
  <2>3. Mapped \subseteq Plogs
    BY <1>t DEF Mapped, PlogsOf, TypeOK
  <2>4. offline' \subseteq Plogs
    BY <1>h, <2>3
  <2> QED
    BY <1>t, <1>u, <1>s, <1>o, <2>1, <2>2, <2>4, CallType DEF TypeOK
<1> HIDE DEF orphan
<1>2. IdsInv'
  BY <1>t, <1>u, <1>p, <1>m DEF IdsInv
<1>n. \A v \in Vlogs : \A s \in Shards : ~InTransit(v, s)'
  BY <1>u, Constants DEF InTransit
<1>d. \A v \in Vlogs : \A s \in Shards : open'[shard'[v][s]] \in {place'[shard'[v][s]], NoDisk}
  BY <1>u, <1>p, <1>o
<1>3. HandlesInv'
  BY <1>d DEF HandlesInv
<1>c. ClientsInv'
  BY <1>u, <1>n, <1>d, <1>m DEF ClientsInv
<1>4. CallInv' /\ RelInv'
  BY <1>u DEF CallInv, RelInv, Free
<1>5. PlacementWhole'
  <2> SUFFICES ASSUME NEW v \in Vlogs \ stranded, NEW s \in Shards
               PROVE  Whole(v, shard[v][s], place[shard[v][s]])'
    BY <1>u DEF PlacementWhole, PlogsOf, Whole
  <2>1. Whole(v, shard[v][s], place[shard[v][s]])
    BY <1>t DEF PlacementWhole, PlogsOf, Whole
  <2> QED
    BY <1>u, <1>p, <2>1 DEF Whole
<1>6. OneCopyPerDisk'
  BY <1>t, <1>u, <1>p DEF OneCopyPerDisk
<1>7. NoDetachedData'
  <2> SUFFICES ASSUME NEW v \in Vlogs, NEW s \in Shards
               PROVE  diskState'[place'[shard[v][s]]] = "detached" =>
                          <<place'[shard[v][s]], shard[v][s]>> \in abandoned
    BY <1>u DEF NoDetachedData, Mapped, PlogsOf
  <2>1. diskState[place[shard[v][s]]] = "detached" => <<place[shard[v][s]], shard[v][s]>> \in abandoned
    BY <1>t, <1>p DEF NoDetachedData
  <2> QED
    BY <1>s, <1>p, <2>1
<1> QED
  BY <1>1, <1>2, <1>3, <1>c, <1>4, <1>5, <1>6, <1>7 DEF RelocationInv

-----------------------------------------------------------------------------
(* The steps of a move.                                                    *)

\* What every step of a move knows (MoveInv).
LEMMA MoveFacts ==
    ASSUME RelocationInv, rel.pc \in {"copying", "copied", "uncertain", "moved", "rollback"}
    PROVE  /\ rel # NoRel /\ rel \in Relocations
           /\ rel.v \in Vlogs /\ rel.s \in Shards /\ rel.p \in Plogs
           /\ rel.from \in Disks /\ rel.to \in Disks /\ rel.to # rel.from
           /\ rel.had \in {rel.from, NoDisk} /\ rel.err \in BOOLEAN
           /\ shard[rel.v][rel.s] = rel.p /\ rel.p \in PlogsOf(rel.v)
           /\ place[rel.p] \in {rel.from, rel.to}
           /\ call.kind \in Evacuations /\ call.kind # "repair" /\ call # Free /\ rel.v \notin busy
           /\ call.kind \in {"drain", "replace"} => rel.to # call.on
           /\ \A v \in Vlogs : \A s \in Shards :
                 shard[v][s] = rel.p <=> v = rel.v /\ s = rel.s
<1>1. rel # NoRel
  BY Constants
<1>2. /\ rel \in Relocations /\ rel.v \in Vlogs /\ rel.s \in Shards /\ rel.p \in Plogs
      /\ rel.from \in Disks /\ rel.to \in Disks /\ rel.err \in BOOLEAN
      /\ shard[rel.v][rel.s] = rel.p /\ call # Free /\ rel.v \notin busy /\ MoveInv
  BY <1>1, RelFacts
<1>3. rel.p \in PlogsOf(rel.v)
  BY <1>2 DEF PlogsOf
<1>4. \A v \in Vlogs : \A s \in Shards : shard[v][s] = rel.p <=> v = rel.v /\ s = rel.s
  BY <1>2 DEF RelocationInv, IdsInv
<1>5. /\ rel.to # rel.from /\ rel.had \in {rel.from, NoDisk} /\ place[rel.p] \in {rel.from, rel.to}
      /\ call.kind \in Evacuations /\ call.kind # "repair"
      /\ call.kind \in {"drain", "replace"} => rel.to # call.on
  BY <1>2 DEF MoveInv, Evacuations
<1> QED
  BY <1>1, <1>2, <1>3, <1>4, <1>5

\* The moved plog is, or stays, on d, whose file is whole, and at most the file
\* on another disk is removed (MovePlogToDisk, RemovePlogFiles).
LEMMA Repointing ==
    ASSUME RelocationInv, rel.pc \in {"copying", "copied", "uncertain", "moved", "rollback"},
           NEW d \in Disks, NEW e \in Disks, d # e,
           \A p \in Plogs : place'[p] = IF p = rel.p THEN d ELSE place[p],
           \/ d = place[rel.p]
           \/ /\ diskState[d] \in {"active", "draining"}
              /\ \A r \in PlogsOf(rel.v) \ {rel.p} : place[r] # d
              /\ rel.v \notin stranded => Whole(rel.v, rel.p, d),
           file' \in {file, Removed(file, e, rel.p)},
           UNCHANGED <<shard, length, stranded, excused, diskState, abandoned>>
    PROVE  /\ PlacementWhole' /\ OneCopyPerDisk' /\ NoDetachedData'
           /\ \A v \in Vlogs : \A s \in Shards :
                 /\ place'[shard[v][s]] # NoDisk
                 /\ place'[shard[v][s]] = IF v = rel.v /\ s = rel.s THEN d ELSE place[shard[v][s]]
<1>t. TypeOK /\ PlacementWhole /\ OneCopyPerDisk /\ NoDetachedData
  BY DEF RelocationInv
<1>m. /\ rel.v \in Vlogs /\ rel.s \in Shards /\ rel.p \in Plogs /\ shard[rel.v][rel.s] = rel.p
      /\ \A v \in Vlogs : \A s \in Shards : shard[v][s] = rel.p <=> v = rel.v /\ s = rel.s
  BY MoveFacts
<1>p. \A v \in Vlogs : \A s \in Shards :
         /\ place'[shard[v][s]] = IF v = rel.v /\ s = rel.s THEN d ELSE place[shard[v][s]]
         /\ shard[v][s] \in Plogs /\ place[shard[v][s]] \in Disks
  BY <1>m, ShardFacts
<1>f. \A v \in Vlogs : \A s \in Shards :
         file'[place'[shard[v][s]]][shard[v][s]] = file[place'[shard[v][s]]][shard[v][s]]
  <2>1. CASE file' = file
    BY <2>1
  <2>2. CASE file' = Removed(file, e, rel.p)
    <3>1. CASE e \in gone
      BY <2>2, <3>1 DEF Removed
    <3>2. CASE e \notin gone
      <4>1. file' = [file EXCEPT ![e][rel.p] = Absent]
        BY <2>2, <3>2 DEF Removed
      <4> QED
        BY <1>t, <1>m, <1>p, <4>1 DEF TypeOK
    <3> QED
      BY <3>1, <3>2
  <2> QED
    BY <2>1, <2>2
<1>w. ASSUME NEW v \in Vlogs \ stranded, NEW s \in Shards PROVE Whole(v, shard[v][s], place[shard[v][s]])
  BY <1>t DEF PlacementWhole, PlogsOf, Whole
<1>1. PlacementWhole'
  <2> SUFFICES ASSUME NEW v \in Vlogs \ stranded, NEW s \in Shards
               PROVE  \/ <<place'[shard[v][s]], shard[v][s]>> \in excused
                      \/ file'[place'[shard[v][s]]][shard[v][s]] = length[v]
    BY DEF PlacementWhole, PlogsOf
  <2>1. Whole(v, shard[v][s], place'[shard[v][s]])
    BY <1>m, <1>p, <1>w
  <2> QED
    BY <1>f, <2>1 DEF Whole
<1>2. OneCopyPerDisk'
  <2> SUFFICES ASSUME NEW v \in Vlogs, NEW s \in Shards, NEW t \in Shards,
                      place'[shard[v][s]] = place'[shard[v][t]]
               PROVE  s = t
    BY DEF OneCopyPerDisk
  <2>1. CASE v # rel.v \/ d = place[rel.p]
    BY <1>t, <1>m, <1>p, <2>1 DEF OneCopyPerDisk
  <2>2. CASE v = rel.v /\ d # place[rel.p]
    <3>1. \A u \in Shards \ {rel.s} : place[shard[rel.v][u]] # d
      BY <1>m, <2>2 DEF PlogsOf
    <3> QED
      BY <1>t, <1>m, <1>p, <2>2, <3>1 DEF OneCopyPerDisk
  <2> QED
    BY <2>1, <2>2
<1>3. NoDetachedData'
  <2> SUFFICES ASSUME NEW v \in Vlogs, NEW s \in Shards
               PROVE  diskState[place'[shard[v][s]]] = "detached" =>
                          <<place'[shard[v][s]], shard[v][s]>> \in abandoned
    BY DEF NoDetachedData, Mapped, PlogsOf
  <2>1. diskState[place[shard[v][s]]] = "detached" => <<place[shard[v][s]], shard[v][s]>> \in abandoned
    BY <1>t, ShardFacts DEF NoDetachedData
  <2> QED
    BY <1>m, <1>p, <2>1
<1>4. \A v \in Vlogs : \A s \in Shards : place'[shard[v][s]] # NoDisk
  BY <1>p, Constants
<1> QED
  BY <1>1, <1>2, <1>3, <1>4, <1>p

\* A move ends with the plog on d: its handle, if it has one, is there, and the
\* vlog is mounted there or quarantined.
LEMMA MoveEnds ==
    ASSUME RelocationInv, TypeOK', rel' = NoRel, CallInv',
           rel.pc \in {"copying", "copied", "uncertain", "moved", "rollback"},
           NEW d \in Disks,
           PlacementWhole', OneCopyPerDisk', NoDetachedData',
           \A v \in Vlogs : \A s \in Shards :
               /\ place'[shard[v][s]] # NoDisk
               /\ place'[shard[v][s]] = IF v = rel.v /\ s = rel.s THEN d ELSE place[shard[v][s]],
           \A p \in Plogs \ {rel.p} : open'[p] = open[p],
           open'[rel.p] \in {d, NoDisk}, quarantined \subseteq quarantined',
           \A v \in Vlogs : \A s \in Shards :
               \/ /\ mount'[v][s] = mount[v][s]
                  /\ v # rel.v \/ rel.v \in quarantined' \/ d = rel.from
               \/ /\ v = rel.v /\ mount'[v][s].plog = shard[v][s]
                  /\ mount'[v][s].disk = open'[shard[v][s]],
           UNCHANGED <<shard, spent, stranded>>
    PROVE  RelocationInv'
<1>t. TypeOK /\ IdsInv /\ HandlesInv /\ ClientsInv
  BY DEF RelocationInv
<1>m. /\ rel.v \in Vlogs /\ rel.s \in Shards /\ rel.p \in Plogs /\ shard[rel.v][rel.s] = rel.p
      /\ \A v \in Vlogs : \A s \in Shards : shard[v][s] = rel.p <=> v = rel.v /\ s = rel.s
  BY MoveFacts
<1>n. \A v \in Vlogs : \A s \in Shards : ~InTransit(v, s)'
  BY Constants DEF InTransit
<1>o. \A v \in Vlogs : \A s \in Shards : v # rel.v \/ s # rel.s => ~InTransit(v, s)
  BY DEF InTransit
<1>h. \A v \in Vlogs : \A s \in Shards : open'[shard[v][s]] \in {place'[shard[v][s]], NoDisk}
  <2> TAKE v \in Vlogs
  <2> TAKE s \in Shards
  <2>1. CASE v = rel.v /\ s = rel.s
    BY <1>m, <2>1
  <2>2. CASE v # rel.v \/ s # rel.s
    BY <1>t, <1>m, <1>o, <2>2, ShardFacts DEF HandlesInv
  <2> QED
    BY <2>1, <2>2
<1>1. IdsInv'
  BY <1>t DEF IdsInv
<1>2. HandlesInv'
  BY <1>h DEF HandlesInv
<1>3. ClientsInv'
  <2> SUFFICES ASSUME NEW v \in Vlogs \ (quarantined' \cup stranded), NEW s \in Shards
               PROVE  /\ mount'[v][s].plog = shard[v][s]
                      /\ mount'[v][s].disk \in {place'[shard[v][s]], NoDisk}
    BY <1>n DEF ClientsInv
  <2>1. CASE mount'[v][s].plog = shard[v][s] /\ mount'[v][s].disk = open'[shard[v][s]]
    BY <1>h, <2>1
  <2>2. CASE /\ mount'[v][s] = mount[v][s]
             /\ v # rel.v \/ rel.v \in quarantined' \/ d = rel.from
    <3>1. /\ mount[v][s].plog = shard[v][s]
          /\ mount[v][s].disk \in {IF InTransit(v, s) THEN rel.from ELSE place[shard[v][s]], NoDisk}
      BY <1>t DEF ClientsInv
    <3>2. CASE v # rel.v \/ s # rel.s
      BY <1>o, <2>2, <3>1, <3>2
    <3>3. CASE v = rel.v /\ s = rel.s
      <4>1. d = rel.from
        BY <2>2, <3>3
      <4>2. InTransit(v, s) \/ place[shard[v][s]] = rel.from
        BY <1>m, <3>3, RelFacts, MoveFacts DEF InTransit, MoveInv
      <4> QED
        BY <2>2, <3>1, <3>3, <4>1, <4>2
    <3> QED
      BY <3>2, <3>3
  <2> QED
    BY <2>1, <2>2
<1>4. RelInv'
  BY DEF RelInv
<1> QED
  BY <1>1, <1>2, <1>3, <1>4 DEF RelocationInv

\* The clients of a remounted vlog are those of its shards (Mounting).
LEMMA Remounted ==
    ASSUME TypeOK, NEW which \in SUBSET Vlogs, NEW handles, open' = handles, mount' = Mounting(which, handles)
    PROVE  \A v \in Vlogs : \A s \in Shards :
               /\ v \notin which => mount'[v][s] = mount[v][s]
               /\ v \in which => /\ mount'[v][s].plog = shard[v][s]
                                 /\ mount'[v][s].disk = open'[shard[v][s]]
  BY DEF Mounting, Client

\* A move goes on: its plog is in transit, or not yet repointed.
LEMMA MoveGoesOn ==
    ASSUME RelocationInv, TypeOK', RelInv', PlacementWhole', OneCopyPerDisk', NoDetachedData',
           rel.pc \in {"copying", "copied", "uncertain", "moved", "rollback"},
           NEW d \in {rel.from, rel.to},
           \A v \in Vlogs : \A s \in Shards :
               /\ place'[shard[v][s]] # NoDisk
               /\ place'[shard[v][s]] = IF v = rel.v /\ s = rel.s THEN d ELSE place[shard[v][s]],
           d # place[rel.p] => d = rel.to,
           \A p \in Plogs \ {rel.p} : open'[p] = open[p],
           rel'.v = rel.v, rel'.s = rel.s, rel'.from = rel.from,
           \/ rel'.pc = "copied" /\ place' = place /\ open' = open /\ rel.pc = "copying"
           \/ rel'.pc \in {"uncertain", "moved", "rollback"},
           UNCHANGED <<shard, spent, stranded, mount, quarantined, call, diskState>>
    PROVE  RelocationInv'
<1>t. TypeOK /\ IdsInv /\ HandlesInv /\ ClientsInv /\ CallInv
  BY DEF RelocationInv
<1>m. /\ rel.v \in Vlogs /\ rel.s \in Shards /\ rel.p \in Plogs /\ shard[rel.v][rel.s] = rel.p
      /\ call.kind \in {"drain", "replace"} => rel.to # call.on
      /\ \A v \in Vlogs : \A s \in Shards : shard[v][s] = rel.p <=> v = rel.v /\ s = rel.s
  BY MoveFacts
<1>o. \A v \in Vlogs : \A s \in Shards :
          v # rel.v \/ s # rel.s => ~InTransit(v, s) /\ ~InTransit(v, s)'
  BY DEF InTransit
<1>k. InTransit(rel.v, rel.s) \/ place[rel.p] = rel.from
  BY RelFacts, MoveFacts DEF InTransit, MoveInv
<1>n. \/ InTransit(rel.v, rel.s)'
      \/ ~InTransit(rel.v, rel.s) /\ place' = place /\ open' = open
  BY DEF InTransit
<1>1. IdsInv'
  BY <1>t DEF IdsInv
<1>2. HandlesInv'
  <2> SUFFICES ASSUME NEW v \in Vlogs, NEW s \in Shards, ~InTransit(v, s)'
               PROVE  open'[shard[v][s]] \in {place'[shard[v][s]], NoDisk}
    BY DEF HandlesInv
  <2>1. CASE v = rel.v /\ s = rel.s
    BY <1>t, <1>n, <2>1 DEF HandlesInv
  <2>2. CASE v # rel.v \/ s # rel.s
    BY <1>t, <1>m, <1>o, <2>2, ShardFacts DEF HandlesInv
  <2> QED
    BY <2>1, <2>2
<1>3. ClientsInv'
  <2> SUFFICES ASSUME NEW v \in Vlogs \ (quarantined \cup stranded), NEW s \in Shards
               PROVE  /\ mount[v][s].plog = shard[v][s]
                      /\ mount[v][s].disk \in {IF InTransit(v, s)' THEN rel.from
                                               ELSE place'[shard[v][s]], NoDisk}
    BY DEF ClientsInv
  <2>1. /\ mount[v][s].plog = shard[v][s]
        /\ mount[v][s].disk \in {IF InTransit(v, s) THEN rel.from ELSE place[shard[v][s]], NoDisk}
    BY <1>t DEF ClientsInv
  <2>2. CASE v = rel.v /\ s = rel.s
    BY <1>m, <1>k, <1>n, <2>1, <2>2
  <2>3. CASE v # rel.v \/ s # rel.s
    BY <1>o, <2>1, <2>3
  <2> QED
    BY <2>2, <2>3
<1>4. CallInv'
  <2>1. \A v \in Vlogs : \A s \in Shards :
            call.kind \in {"drain", "replace"} /\ place'[shard[v][s]] = call.on =>
                place[shard[v][s]] = call.on
    BY <1>m
  <2> QED
    BY <1>t, <2>1 DEF CallInv
<1> QED
  BY <1>1, <1>2, <1>3, <1>4 DEF RelocationInv

\* Ends of a move that leave the plog where it was (CopyFails, MoveRefused,
\* ResolveUnmoved).
LEMMA MoveUndone ==
    ASSUME RelocationInv, Moving, rel.pc \in {"copying", "copied", "uncertain"},
           place[rel.p] = rel.from, file' = Removed(file, rel.to, rel.p), Return(rel.p, TRUE),
           UNCHANGED <<topologyVars, catalogVars, gone, stranded, excused, memoryVars, busy>>
    PROVE  RelocationInv'
<1>t. TypeOK /\ TypeOK'
  BY MovingType DEF RelocationInv
<1>m. /\ rel # NoRel /\ rel.from \in Disks /\ rel.to \in Disks /\ rel.to # rel.from /\ rel.p \in Plogs
      /\ rel.had \in {rel.from, NoDisk}
  BY MoveFacts
<1>1. CallInv' /\ rel' = NoRel
  BY ReturnCall DEF Return
<1>2. open[rel.p] \in {rel.from, NoDisk}
  BY <1>m, RelFacts DEF MoveInv
<1>3. /\ PlacementWhole' /\ OneCopyPerDisk' /\ NoDetachedData'
      /\ \A v \in Vlogs : \A s \in Shards :
            /\ place'[shard[v][s]] # NoDisk
            /\ place'[shard[v][s]] = IF v = rel.v /\ s = rel.s THEN rel.from ELSE place[shard[v][s]]
  BY <1>m, Repointing
<1> QED
  BY <1>t, <1>m, <1>1, <1>2, <1>3, MoveEnds

\* The copy is verified.
LEMMA CopyVerifiedStep ==
    ASSUME RelocationInv, CopyVerified
    PROVE  RelocationInv'
<1>t. TypeOK /\ TypeOK' /\ PlacementWhole /\ RelInv
  BY MovingType DEF RelocationInv, Moving
<1>u. /\ rel.pc = "copying" /\ rel' = [rel EXCEPT !.pc = "copied"]
      /\ file' = [file EXCEPT ![rel.to][rel.p] = file[rel.from][rel.p]]
      /\ UNCHANGED <<topologyVars, catalogVars, gone, stranded, memoryVars, busy, call>>
  BY DEF CopyVerified
<1>e. excused' = IF <<rel.from, rel.p>> \in excused
                 THEN excused \cup {<<rel.to, rel.p>>} ELSE excused \ {<<rel.to, rel.p>>}
  BY DEF CopyVerified
<1>m. /\ rel # NoRel /\ rel \in Relocations /\ rel.v \in Vlogs /\ rel.s \in Shards /\ rel.p \in Plogs
      /\ rel.from \in Disks /\ rel.to \in Disks /\ rel.to # rel.from
      /\ shard[rel.v][rel.s] = rel.p /\ rel.p \in PlogsOf(rel.v)
      /\ \A v \in Vlogs : \A s \in Shards : shard[v][s] = rel.p <=> v = rel.v /\ s = rel.s
  BY <1>u, MoveFacts
<1>f. /\ rel'.pc = "copied" /\ rel'.v = rel.v /\ rel'.s = rel.s /\ rel'.p = rel.p
      /\ rel'.from = rel.from /\ rel'.to = rel.to /\ rel'.stale = rel.stale /\ rel'.had = rel.had
  BY <1>u, <1>m DEF Relocations
<1>i. MoveInv /\ place[rel.p] = rel.from
  BY <1>u, <1>m, RelFacts DEF MoveInv
<1>1. \A p \in Plogs, d \in Disks : p # rel.p \/ d # rel.to =>
          /\ file'[d][p] = file[d][p]
          /\ <<d, p>> \in excused' <=> <<d, p>> \in excused
  BY <1>t, <1>u, <1>e, <1>m DEF TypeOK
<1>w. ASSUME NEW v \in Vlogs \ stranded, NEW s \in Shards PROVE Whole(v, shard[v][s], place[shard[v][s]])
  BY <1>t DEF PlacementWhole, PlogsOf, Whole
<1>2. PlacementWhole'
  <2> SUFFICES ASSUME NEW v \in Vlogs \ stranded, NEW s \in Shards
               PROVE  Whole(v, shard[v][s], place[shard[v][s]])'
    BY <1>u DEF PlacementWhole, PlogsOf, Whole
  <2>1. Whole(v, shard[v][s], place[shard[v][s]])
    BY <1>w
  <2>2. shard[v][s] # rel.p \/ place[shard[v][s]] # rel.to
    BY <1>i, <1>m
  <2>3. /\ file'[place[shard[v][s]]][shard[v][s]] = file[place[shard[v][s]]][shard[v][s]]
        /\ <<place[shard[v][s]], shard[v][s]>> \in excused' <=>
               <<place[shard[v][s]], shard[v][s]>> \in excused
    BY <1>1, <2>2, ShardFacts
  <2> QED
    BY <1>u, <2>1, <2>3 DEF Whole
<1>3. rel.v \notin stranded => Whole(rel.v, rel.p, rel.from)' /\ Whole(rel.v, rel.p, rel.to)'
  <2> SUFFICES ASSUME rel.v \notin stranded
               PROVE  /\ <<rel.from, rel.p>> \in excused' \/ file'[rel.from][rel.p] = length[rel.v]
                      /\ <<rel.to, rel.p>> \in excused' \/ file'[rel.to][rel.p] = length[rel.v]
    BY <1>u, <1>f DEF Whole
  <2>1. <<rel.from, rel.p>> \in excused \/ file[rel.from][rel.p] = length[rel.v]
    BY <1>m, <1>i, <1>w DEF Whole
  <2>2. file'[rel.from][rel.p] = file[rel.from][rel.p] /\ file'[rel.to][rel.p] = file[rel.from][rel.p]
    BY <1>t, <1>u, <1>m DEF TypeOK
  <2> QED
    BY <1>e, <1>m, <2>1, <2>2
<1>4. RelInv'
  <2>1. MoveInv'
    BY <1>u, <1>f, <1>i, <1>3 DEF MoveInv
  <2>2. RepairInv'
    BY <1>f DEF RepairInv
  <2> QED
    BY <1>t, <1>u, <1>m, <1>f, <2>1, <2>2 DEF RelInv
<1>5. OneCopyPerDisk' /\ NoDetachedData'
  BY <1>u DEF RelocationInv, OneCopyPerDisk, NoDetachedData, Mapped, PlogsOf
<1>6. \A v \in Vlogs : \A s \in Shards :
         /\ place'[shard[v][s]] # NoDisk
         /\ place'[shard[v][s]] = IF v = rel.v /\ s = rel.s THEN rel.from ELSE place[shard[v][s]]
  BY <1>u, <1>m, <1>i, ShardFacts, Constants
<1> QED
  BY <1>t, <1>u, <1>f, <1>i, <1>2, <1>4, <1>5, <1>6, MoveGoesOn

\* The move is committed, or may have been.
LEMMA MoveCommitsStep ==
    ASSUME RelocationInv, MoveCommits \/ MoveUncertain
    PROVE  RelocationInv'
<1>t. TypeOK /\ TypeOK' /\ RelInv
  BY MovingType DEF RelocationInv, Moving
<1>u. /\ rel.pc = "copied" /\ MovePlogToDisk(rel.to, {"source", "dest"})
      /\ UNCHANGED <<topologyVars, shard, length, spent, mediaVars, memoryVars, busy, call>>
  BY DEF MoveCommits, MoveUncertain
<1>m. /\ rel # NoRel /\ rel \in Relocations /\ rel.v \in Vlogs /\ rel.s \in Shards /\ rel.p \in Plogs
      /\ rel.from \in Disks /\ rel.to \in Disks /\ rel.to # rel.from
      /\ shard[rel.v][rel.s] = rel.p
  BY <1>u, MoveFacts
<1>i. MoveInv /\ place[rel.p] = rel.from
  BY <1>u, <1>m, RelFacts DEF MoveInv
<1>f. /\ rel'.v = rel.v /\ rel'.s = rel.s /\ rel'.p = rel.p /\ rel' # NoRel
      /\ rel'.from = rel.from /\ rel'.to = rel.to /\ rel'.stale = rel.stale /\ rel'.had = rel.had
  <2>1. CASE rel' = [rel EXCEPT !.pc = "moved"]
    BY <1>m, <2>1 DEF Relocations, NoRel
  <2>2. CASE rel' = [rel EXCEPT !.pc = "uncertain", !.err = TRUE]
    BY <1>m, <2>2 DEF Relocations, NoRel
  <2> QED
    BY <2>1, <2>2 DEF MoveCommits, MoveUncertain
<1>d. \E d \in {rel.from, rel.to} :
         /\ place' = [place EXCEPT ![rel.p] = d]
         /\ rel'.pc = "uncertain" \/ (rel'.pc = "moved" /\ d = rel.to)
  <2>1. CASE MoveCommits
    BY <1>m, <2>1 DEF MoveCommits, Relocations
  <2>2. CASE MoveUncertain
    <3>1. rel'.pc = "uncertain"
      BY <1>m, <2>2 DEF MoveUncertain, Relocations
    <3> QED
      BY <2>2, <3>1 DEF MoveUncertain
  <2> QED
    BY <2>1, <2>2
<1>e. PICK d \in {rel.from, rel.to} :
         /\ place' = [place EXCEPT ![rel.p] = d]
         /\ rel'.pc = "uncertain" \/ (rel'.pc = "moved" /\ d = rel.to)
  BY <1>d
<1>p. \A p \in Plogs : place'[p] = IF p = rel.p THEN d ELSE place[p]
  BY <1>t, <1>m, <1>e DEF TypeOK
<1>g. /\ diskState[rel.to] \in {"active", "draining"}
      /\ \A r \in PlogsOf(rel.v) \ {rel.p} : place[r] # rel.to
      /\ rel.v \notin stranded => Whole(rel.v, rel.p, rel.to)
  BY <1>u, <1>i DEF MovePlogToDisk, MoveInv
<1>o. PICK other \in {rel.from, rel.to} : other # d
  BY <1>m
<1>1. /\ PlacementWhole' /\ OneCopyPerDisk' /\ NoDetachedData'
      /\ \A v \in Vlogs : \A s \in Shards :
            /\ place'[shard[v][s]] # NoDisk
            /\ place'[shard[v][s]] = IF v = rel.v /\ s = rel.s THEN d ELSE place[shard[v][s]]
  <2>1. \/ d = place[rel.p]
        \/ /\ diskState[d] \in {"active", "draining"}
           /\ \A r \in PlogsOf(rel.v) \ {rel.p} : place[r] # d
           /\ rel.v \notin stranded => Whole(rel.v, rel.p, d)
    BY <1>i, <1>g
  <2>2. d \in Disks /\ other \in Disks /\ d # other /\ file' = file
    BY <1>m, <1>o, <1>u
  <2> QED
    BY <1>u, <1>p, <2>1, <2>2, Repointing
<1>2. RelInv'
  <2>1. MoveInv'
    BY <1>u, <1>f, <1>e, <1>p, <1>m, <1>i DEF MoveInv, Whole
  <2>2. RepairInv'
    BY <1>e DEF RepairInv
  <2> QED
    BY <1>t, <1>u, <1>m, <1>f, <2>1, <2>2 DEF RelInv
<1> QED
  BY <1>t, <1>u, <1>e, <1>f, <1>i, <1>1, <1>2, MoveGoesOn

\* The outcome of the commit is found to be the move, or the remount fails.
LEMMA MoveResolvedStep ==
    ASSUME RelocationInv, ResolveMoved \/ RemountFails
    PROVE  RelocationInv'
<1>t. TypeOK /\ TypeOK' /\ RelInv
  BY MovingType DEF RelocationInv, Moving
<1>u. /\ rel.pc \in {"uncertain", "moved"}
      /\ UNCHANGED <<topologyVars, catalogVars, mediaVars, offline, mount, quarantined, busy, call>>
      /\ \/ rel' = [rel EXCEPT !.pc = "moved"] /\ open' = open
         \/ rel' = [rel EXCEPT !.pc = "rollback"] /\ open' = [open EXCEPT ![rel.p] = rel.to]
  BY DEF ResolveMoved, RemountFails
<1>m. /\ rel # NoRel /\ rel \in Relocations /\ rel.v \in Vlogs /\ rel.s \in Shards /\ rel.p \in Plogs
      /\ rel.from \in Disks /\ rel.to \in Disks
      /\ shard[rel.v][rel.s] = rel.p
  BY <1>u, MoveFacts
<1>i. MoveInv /\ place[rel.p] = rel.to
  <2>1. MoveInv
    BY <1>m, RelFacts
  <2>2. CASE ResolveMoved
    BY <2>1, <2>2 DEF ResolveMoved
  <2>3. CASE RemountFails
    BY <2>1, <2>3 DEF RemountFails, MoveInv
  <2> QED
    BY <2>1, <2>2, <2>3
<1>f. /\ rel'.v = rel.v /\ rel'.s = rel.s /\ rel'.p = rel.p /\ rel' # NoRel
      /\ rel'.from = rel.from /\ rel'.to = rel.to /\ rel'.stale = rel.stale /\ rel'.had = rel.had
      /\ rel'.pc = "rollback" \/ (rel'.pc = "moved" /\ open' = open)
  <2>1. CASE rel' = [rel EXCEPT !.pc = "moved"] /\ open' = open
    BY <1>m, <2>1 DEF Relocations, NoRel
  <2>2. CASE rel' = [rel EXCEPT !.pc = "rollback"]
    BY <1>m, <2>2 DEF Relocations, NoRel
  <2> QED
    BY <1>u, <2>1, <2>2
<1>1. PlacementWhole' /\ OneCopyPerDisk' /\ NoDetachedData'
  BY <1>u DEF RelocationInv, PlacementWhole, OneCopyPerDisk, NoDetachedData, Mapped, PlogsOf
<1>2. RelInv'
  <2>1. MoveInv'
    BY <1>u, <1>f, <1>i DEF MoveInv, Whole
  <2>2. RepairInv'
    BY <1>f DEF RepairInv
  <2> QED
    BY <1>t, <1>u, <1>m, <1>f, <2>1, <2>2 DEF RelInv
<1>3. \A v \in Vlogs : \A s \in Shards :
         /\ place'[shard[v][s]] # NoDisk
         /\ place'[shard[v][s]] = IF v = rel.v /\ s = rel.s THEN rel.to ELSE place[shard[v][s]]
  BY <1>u, <1>m, <1>i, ShardFacts, Constants
<1>4. \A p \in Plogs \ {rel.p} : open'[p] = open[p]
  BY <1>u, <1>t DEF TypeOK
<1> QED
  BY <1>t, <1>u, <1>f, <1>i, <1>1, <1>2, <1>3, <1>4, MoveGoesOn

\* The vlog is remounted on the new file, or on the old one.
LEMMA RemountsStep ==
    ASSUME RelocationInv, Remounts \/ RollsBack
    PROVE  RelocationInv'
<1>t. TypeOK /\ TypeOK'
  BY MovingType DEF RelocationInv, Moving
<1>u. /\ rel.pc \in {"moved", "rollback"}
      /\ UNCHANGED <<topologyVars, shard, length, spent, gone, stranded, excused, offline,
                     quarantined, busy>>
  BY DEF Remounts, RollsBack
<1>m. /\ rel # NoRel /\ rel.v \in Vlogs /\ rel.s \in Shards /\ rel.p \in Plogs
      /\ rel.from \in Disks /\ rel.to \in Disks /\ rel.to # rel.from
      /\ rel.had \in {rel.from, NoDisk} /\ rel.err \in BOOLEAN
      /\ call.kind \in {"drain", "replace"} => rel.to # call.on
      /\ MoveInv /\ place[rel.p] = rel.to
  BY <1>u, MoveFacts, RelFacts DEF MoveInv
<1>1. CASE Remounts
  <2> DEFINE handles == [open EXCEPT ![rel.p] = rel.to]
  <2>1. /\ open' = handles /\ mount' = Mounting({rel.v}, handles)
        /\ file' \in {file, Removed(file, rel.from, rel.p)}
        /\ Return(rel.p, rel.err) /\ place' = place
    BY <1>1, Zenon DEF Remounts
  <2>2. open'[rel.p] = rel.to /\ \A p \in Plogs \ {rel.p} : open'[p] = open[p]
    BY <1>t, <1>m, <2>1 DEF TypeOK
  <2>o. call.kind \in {"drain", "replace"} /\ ~rel.err =>
            \A v \in Vlogs : \A s \in Shards : place'[shard[v][s]] = call.on =>
                place[shard[v][s]] = call.on /\ shard[v][s] # rel.p
    BY <1>m, <2>1, Zenon
  <2>r. Return(rel.p, rel.err) /\ UNCHANGED <<shard, diskState>> /\ rel.err \in BOOLEAN
    BY <1>u, <1>m, <2>1, Zenon
  <2>3. CallInv' /\ rel' = NoRel
    <3>1. rel' = NoRel
      BY <2>r DEF Return
    <3> QED
      BY <2>o, <2>r, <3>1, ReturnCall, Zenon
  <2>4. \A v \in Vlogs : \A s \in Shards :
            /\ v \notin {rel.v} => mount'[v][s] = mount[v][s]
            /\ v \in {rel.v} => /\ mount'[v][s].plog = shard[v][s]
                                /\ mount'[v][s].disk = open'[shard[v][s]]
    BY <1>t, <1>m, <2>1, Remounted
  <2> HIDE DEF handles
  <2>5. /\ PlacementWhole' /\ OneCopyPerDisk' /\ NoDetachedData'
        /\ \A v \in Vlogs : \A s \in Shards :
              /\ place'[shard[v][s]] # NoDisk
              /\ place'[shard[v][s]] = IF v = rel.v /\ s = rel.s THEN rel.to ELSE place[shard[v][s]]
    BY <1>u, <1>m, <2>1, Repointing
  <2> QED
    BY <1>t, <1>u, <1>m, <2>2, <2>3, <2>4, <2>5, MoveEnds
<1>2. CASE RollsBack
  <2> DEFINE handles == [open EXCEPT ![rel.p] = rel.had]
  <2>1. /\ open' = handles /\ mount' = Mounting({rel.v}, handles)
        /\ file' = Removed(file, rel.to, rel.p)
        /\ Return(rel.p, TRUE) /\ place' = [place EXCEPT ![rel.p] = rel.from]
        /\ MovePlogToDisk(rel.from, {"source", "rollback"}) /\ rel.pc = "rollback"
    BY <1>2, Zenon DEF RollsBack
  <2>2. open'[rel.p] = rel.had /\ \A p \in Plogs \ {rel.p} : open'[p] = open[p]
    BY <1>t, <1>m, <2>1 DEF TypeOK
  <2>3. CallInv' /\ rel' = NoRel
    BY <1>u, <2>1, ReturnCall DEF Return
  <2>4. \A v \in Vlogs : \A s \in Shards :
            /\ v \notin {rel.v} => mount'[v][s] = mount[v][s]
            /\ v \in {rel.v} => /\ mount'[v][s].plog = shard[v][s]
                                /\ mount'[v][s].disk = open'[shard[v][s]]
    BY <1>t, <1>m, <2>1, Remounted
  <2> HIDE DEF handles
  <2>5. \A p \in Plogs : place'[p] = IF p = rel.p THEN rel.from ELSE place[p]
    BY <1>t, <1>m, <2>1 DEF TypeOK
  <2>6. /\ diskState[rel.from] \in {"active", "draining"}
        /\ \A r \in PlogsOf(rel.v) \ {rel.p} : place[r] # rel.from
        /\ rel.v \notin stranded => Whole(rel.v, rel.p, rel.from)
    BY <1>m, <2>1 DEF MovePlogToDisk, MoveInv
  <2>7. /\ PlacementWhole' /\ OneCopyPerDisk' /\ NoDetachedData'
        /\ \A v \in Vlogs : \A s \in Shards :
              /\ place'[shard[v][s]] # NoDisk
              /\ place'[shard[v][s]] = IF v = rel.v /\ s = rel.s THEN rel.from ELSE place[shard[v][s]]
    BY <1>u, <1>m, <2>1, <2>5, <2>6, Repointing
  <2> QED
    BY <1>t, <1>u, <1>m, <2>2, <2>3, <2>4, <2>7, MoveEnds
<1> QED
  BY <1>1, <1>2

\* The outcome cannot be determined, or the move back fails: the vlog is
\* quarantined, wherever its plog is.
LEMMA QuarantineStep ==
    ASSUME RelocationInv, ResolveFails \/ RollbackFails
    PROVE  RelocationInv'
<1>t. TypeOK /\ TypeOK'
  BY MovingType DEF RelocationInv, Moving
<1>u. /\ rel.pc \in {"uncertain", "rollback"} /\ Quarantine
      /\ UNCHANGED <<topologyVars, shard, length, spent, mediaVars, busy>>
  BY DEF ResolveFails, RollbackFails
<1>m. /\ rel # NoRel /\ rel.v \in Vlogs /\ rel.s \in Shards /\ rel.p \in Plogs
      /\ rel.from \in Disks /\ rel.to \in Disks /\ rel.to # rel.from
      /\ MoveInv /\ place[rel.p] \in {rel.from, rel.to}
  BY <1>u, MoveFacts, RelFacts
<1>d. \E d \in {rel.from, rel.to} :
         /\ place' = [place EXCEPT ![rel.p] = d]
         /\ d = place[rel.p] \/ (rel.pc = "rollback" /\ MovePlogToDisk(d, {"source", "rollback"}))
  <2>1. CASE ResolveFails
    <3>1. place' = place
      BY <2>1 DEF ResolveFails
    <3> QED
      BY <1>t, <1>m, <3>1 DEF TypeOK
  <2>2. CASE RollbackFails
    <3>1. rel.pc = "rollback" /\ place[rel.p] = rel.to
      BY <1>m, <2>2 DEF RollbackFails, MoveInv
    <3>2. \/ /\ MovePlogToDisk(rel.from, {"source", "rollback"})
             /\ \E d \in {rel.from, rel.to} : place' = [place EXCEPT ![rel.p] = d]
          \/ place' = [place EXCEPT ![rel.p] = place[rel.p]]
      BY <2>2 DEF RollbackFails
    <3> QED
      BY <1>m, <3>1, <3>2
  <2> QED
    BY <2>1, <2>2
<1>e. PICK d \in {rel.from, rel.to} :
         /\ place' = [place EXCEPT ![rel.p] = d]
         /\ d = place[rel.p] \/ (rel.pc = "rollback" /\ MovePlogToDisk(d, {"source", "rollback"}))
  BY <1>d
<1>p. \A p \in Plogs : place'[p] = IF p = rel.p THEN d ELSE place[p]
  BY <1>t, <1>m, <1>e DEF TypeOK
<1>g. \/ d = place[rel.p]
      \/ /\ diskState[d] \in {"active", "draining"}
         /\ \A r \in PlogsOf(rel.v) \ {rel.p} : place[r] # d
         /\ rel.v \notin stranded => Whole(rel.v, rel.p, d)
  BY <1>m, <1>e DEF MovePlogToDisk, MoveInv
<1>o. PICK other \in {rel.from, rel.to} : other # d
  BY <1>m
<1>q. /\ open' = [open EXCEPT ![rel.p] = NoDisk] /\ mount' = mount
      /\ quarantined' = quarantined \cup {rel.v} /\ Return(rel.p, TRUE)
  BY <1>u, Zenon DEF Quarantine
<1>h. open'[rel.p] = NoDisk /\ \A p \in Plogs \ {rel.p} : open'[p] = open[p]
  BY <1>t, <1>m, <1>q DEF TypeOK
<1>c. CallInv' /\ rel' = NoRel
  BY <1>u, <1>q, ReturnCall DEF Return
<1>1. /\ PlacementWhole' /\ OneCopyPerDisk' /\ NoDetachedData'
      /\ \A v \in Vlogs : \A s \in Shards :
            /\ place'[shard[v][s]] # NoDisk
            /\ place'[shard[v][s]] = IF v = rel.v /\ s = rel.s THEN d ELSE place[shard[v][s]]
  <2>1. d \in Disks /\ other \in Disks /\ d # other /\ file' = file
    BY <1>m, <1>o, <1>u
  <2> QED
    BY <1>u, <1>p, <1>g, <2>1, Repointing
<1>2. d \in Disks
  BY <1>m
<1> QED
  BY <1>t, <1>u, <1>2, <1>q, <1>h, <1>c, <1>1, MoveEnds

\* Every step of a move (migratePlogLocked).
LEMMA MovingSteps ==
    ASSUME RelocationInv, Moving
    PROVE  RelocationInv'
<1>1. CASE CopyVerified
  BY <1>1, CopyVerifiedStep
<1>2. CASE MoveCommits \/ MoveUncertain
  BY <1>2, MoveCommitsStep
<1>3. CASE ResolveMoved \/ RemountFails
  BY <1>3, MoveResolvedStep
<1>4. CASE Remounts \/ RollsBack
  BY <1>4, RemountsStep
<1>5. CASE ResolveFails \/ RollbackFails
  BY <1>5, QuarantineStep
<1>6. CASE CopyFails \/ MoveRefused \/ ResolveUnmoved
  <2>1. /\ rel.pc \in {"copying", "copied", "uncertain"}
        /\ file' = Removed(file, rel.to, rel.p) /\ Return(rel.p, TRUE)
        /\ UNCHANGED <<topologyVars, catalogVars, gone, stranded, excused, memoryVars, busy>>
    BY <1>6 DEF CopyFails, MoveRefused, ResolveUnmoved
  <2>2. MoveInv
    BY <2>1, MoveFacts, RelFacts
  <2>3. place[rel.p] = rel.from
    BY <1>6, <2>2 DEF CopyFails, MoveRefused, ResolveUnmoved, MoveInv
  <2> QED
    BY <2>1, <2>3, MoveUndone
<1> QED
  BY <1>1, <1>2, <1>3, <1>4, <1>5, <1>6 DEF Moving

-----------------------------------------------------------------------------
(* The beginning of a relocation.                                          *)

\* A step that moves no shard and no handle of one, with no shard in transit
\* before it or after it.
LEMMA SettledStep ==
    ASSUME RelocationInv, TypeOK', RelInv', CallInv', PlacementWhole',
           \A v \in Vlogs : \A s \in Shards :
               /\ place'[shard[v][s]] = place[shard[v][s]] /\ open'[shard[v][s]] = open[shard[v][s]]
               /\ ~InTransit(v, s) /\ ~InTransit(v, s)',
           spent \subseteq spent',
           UNCHANGED <<shard, mount, quarantined, stranded, diskState, abandoned>>
    PROVE  RelocationInv'
<1>1. IdsInv'
  BY DEF RelocationInv, IdsInv
<1>2. HandlesInv' /\ ClientsInv'
  BY DEF RelocationInv, HandlesInv, ClientsInv
<1>3. OneCopyPerDisk' /\ NoDetachedData'
  BY DEF RelocationInv, OneCopyPerDisk, NoDetachedData, Mapped, PlogsOf
<1> QED
  BY <1>1, <1>2, <1>3 DEF RelocationInv

\* A file that changes was not what the vlog has published (Emptied).
LEMMA KeptStep ==
    ASSUME RelocationInv,
           \A v \in Vlogs : \A s \in Shards :
               LET p == shard[v][s] IN
               /\ place'[p] = place[p]
               /\ file'[place[p]][p] = file[place[p]][p] \/ file[place[p]][p] # length[v],
           UNCHANGED <<shard, length, stranded, excused>>
    PROVE  PlacementWhole'
<1> SUFFICES ASSUME NEW v \in Vlogs \ stranded, NEW s \in Shards
             PROVE  \/ <<place'[shard[v][s]], shard[v][s]>> \in excused
                    \/ file'[place'[shard[v][s]]][shard[v][s]] = length[v]
  BY DEF PlacementWhole, PlogsOf
<1>1. <<place[shard[v][s]], shard[v][s]>> \in excused \/ file[place[shard[v][s]]][shard[v][s]] = length[v]
  BY DEF RelocationInv, PlacementWhole, PlogsOf
<1> QED
  BY <1>1

\* What an error in catching up copies that differ leaves (Emptied).
LEMMA EmptiedFacts ==
    ASSUME RelocationInv, NEW w \in Vlogs, NEW some \in SUBSET OpenOf(w),
           \A r \in some : file[place[r]][r] # length[w]
    PROVE  \A v \in Vlogs : \A s \in Shards :
               LET p == shard[v][s] IN
               Emptied(some)[place[p]][p] = file[place[p]][p] \/ file[place[p]][p] # length[v]
<1> TAKE v \in Vlogs
<1> TAKE s \in Shards
<1> DEFINE p == shard[v][s]
<1>1. p \in Plogs /\ place[p] \in Disks
  BY ShardFacts
<1>2. CASE p \in some
  <2>1. PICK t \in Shards : p = shard[w][t]
    BY <1>2 DEF OpenOf, PlogsOf
  <2>2. v = w
    BY <2>1 DEF RelocationInv, IdsInv
  <2> QED
    BY <1>2, <2>2
<1>3. CASE p \notin some
  BY <1>1, <1>3 DEF Emptied
<1> QED
  BY <1>2, <1>3

\* A drain, and a replacement, move copies to other disks (Destinations).
LEMMA DestinationLeaves ==
    ASSUME RelocationInv, NEW v, NEW from, NEW to \in Destinations(v, from),
           call.kind \in {"drain", "replace"}
    PROVE  to # call.on
<1>1. CASE call.kind = "drain"
  <2>1. diskState[to] = "active"
    BY <1>1 DEF Destinations, Live
  <2> QED
    BY <2>1 DEF RelocationInv, CallInv
<1>2. CASE call.kind = "replace"
  <2>1. to = call.dest
    BY <1>2 DEF Destinations
  <2> QED
    BY <2>1 DEF RelocationInv, CallInv
<1> QED
  BY <1>1, <1>2

\* A move begins: the open copies are caught up.
LEMMA BeginMoveStep ==
    ASSUME RelocationInv, NEW p \in Plogs, TypeOK', rel = NoRel, p \in call.todo, VlogOf(p) \notin busy,
           call.kind \in Evacuations, NEW to \in Destinations(VlogOf(p), place[p]), BeginMove(p, to)
    PROVE  RelocationInv'
<1> DEFINE v == VlogOf(p)
           s == CHOOSE s \in Shards : shard[v][s] = p
<1>t. TypeOK /\ CallInv /\ HandlesInv /\ call # Free
  BY DEF RelocationInv, Free, Evacuations
<1>v. /\ v \in Vlogs /\ s \in Shards /\ shard[v][s] = p /\ place[p] \in Disks /\ to \in Disks
      /\ OpenOf(v) \subseteq Mapped
  BY <1>t, TodoMapped, DestinationIsDisk DEF OpenOf, Mapped
<1>u. /\ to # place[p] /\ excused' = excused \ Placed(OpenOf(v))
      /\ file' = [CaughtUp(OpenOf(v)) EXCEPT ![to][p] = Torn]
      /\ rel' = [pc |-> "copying", v |-> v, s |-> s, p |-> p, q |-> p, from |-> place[p], to |-> to,
                 stale |-> {}, err |-> FALSE, had |-> open[p]]
      /\ UNCHANGED <<topologyVars, catalogVars, gone, stranded, memoryVars, busy, call>>
  BY Zenon DEF BeginMove
<1> HIDE DEF v, s
<1>f. /\ rel'.pc = "copying" /\ rel'.v = v /\ rel'.s = s /\ rel'.p = p /\ rel'.from = place[p]
      /\ rel'.to = to /\ rel'.stale = {} /\ rel'.had = open[p]
  BY <1>u
<1>n. \A w \in Vlogs : \A t \in Shards : ~InTransit(w, t) /\ ~InTransit(w, t)'
  BY <1>f, NoTransit DEF InTransit
<1>1. PlacementWhole'
  <2>1. \A w \in Vlogs : \A t \in Shards :
            file'[place[shard[w][t]]][shard[w][t]] =
                CaughtUp(OpenOf(v))[place[shard[w][t]]][shard[w][t]]
    <3> TAKE w \in Vlogs
    <3> TAKE t \in Shards
    <3>1. CaughtUp(OpenOf(v)) \in Media
      BY <1>t, <1>v, CopiesType, MediaType
    <3>2. shard[w][t] \in Plogs /\ place[shard[w][t]] \in Disks
      BY ShardFacts
    <3>3. shard[w][t] # p \/ place[shard[w][t]] # to
      BY <1>u
    <3>4. file' = [CaughtUp(OpenOf(v)) EXCEPT ![to][p] = Torn]
      BY <1>u
    <3> QED
      BY <1>v, <3>1, <3>2, <3>3, <3>4 DEF Media
  <2> QED
    BY <1>v, <1>u, <2>1, CatchUpStep
<1>2. RelInv'
  <2>1. open[p] \in {place[p], NoDisk}
    BY <1>t, <1>v, <1>n DEF HandlesInv
  <2>2. call.kind \in {"drain", "replace"} => to # call.on
    BY DestinationLeaves
  <2>3. MoveInv'
    BY <1>u, <1>f, <2>1, <2>2 DEF MoveInv
  <2>4. RepairInv'
    BY <1>f DEF RepairInv
  <2>5. v \notin busy
    BY DEF v
  <2> QED
    BY <1>t, <1>v, <1>u, <1>f, <2>3, <2>4, <2>5 DEF RelInv
<1>3. CallInv'
  BY <1>t, <1>u DEF CallInv
<1> QED
  BY <1>u, <1>n, <1>1, <1>2, <1>3, SettledStep

\* A move does not begin: copies that differed may have been emptied.
LEMMA BeginMoveFailsStep ==
    ASSUME RelocationInv, NEW p \in Plogs, TypeOK', rel = NoRel, p \in call.todo,
           NEW to, BeginMoveFails(p, to)
    PROVE  RelocationInv'
<1> DEFINE v == VlogOf(p)
           stale == {r \in OpenOf(v) : file[place[r]][r] \notin {length[v], Absent}}
<1>v. v \in Vlogs
  BY TodoMapped
<1>u. /\ file' = file \/ \E some \in SUBSET stale : file' = Emptied(some)
      /\ Return(p, TRUE)
      /\ UNCHANGED <<topologyVars, catalogVars, gone, stranded, excused, memoryVars, busy>>
  BY Zenon DEF BeginMoveFails
<1>s. stale \subseteq OpenOf(v) /\ \A r \in stale : file[place[r]][r] # length[v]
  OBVIOUS
<1> HIDE DEF v, stale
<1>1. PlacementWhole'
  <2>1. CASE file' = file
    BY <1>u, <2>1, KeptStep
  <2>2. CASE \E some \in SUBSET stale : file' = Emptied(some)
    BY <1>u, <1>v, <1>s, <2>2, EmptiedFacts, KeptStep
  <2> QED
    BY <1>u, <2>1, <2>2
<1>2. CallInv' /\ rel' = NoRel
  BY <1>u, ReturnCall DEF Return
<1>3. RelInv'
  BY <1>2 DEF RelInv
<1>4. \A w \in Vlogs : \A t \in Shards : ~InTransit(w, t) /\ ~InTransit(w, t)'
  BY <1>2, Constants DEF InTransit
<1> QED
  BY <1>u, <1>1, <1>2, <1>3, <1>4, SettledStep

\* A rebuild begins, under a plog id that nothing knows.
LEMMA BeginRegenerateStep ==
    ASSUME RelocationInv, NEW p \in Plogs, TypeOK', rel = NoRel, p \in call.todo, VlogOf(p) \notin busy,
           call.kind \notin Evacuations, NEW to \in Destinations(VlogOf(p), place[p]),
           BeginRegenerate(p, to)
    PROVE  RelocationInv'
<1> DEFINE v == VlogOf(p)
           s == CHOOSE s \in Shards : shard[v][s] = p
<1>t. TypeOK /\ CallInv /\ IdsInv /\ call # Free
  BY DEF RelocationInv, Free
<1>v. v \in Vlogs /\ s \in Shards /\ shard[v][s] = p /\ to \in Disks
  BY <1>t, TodoMapped, DestinationIsDisk
<1>u. UNCHANGED <<topologyVars, shard, length, gone, stranded, excused, memoryVars, busy, call>>
  BY DEF BeginRegenerate
<1>q. \E q \in Plogs :
         /\ q \notin spent /\ spent' = spent \cup {q} /\ place' = [place EXCEPT ![q] = to]
         /\ file' = IF to \in gone THEN file ELSE [file EXCEPT ![to][q] = Torn]
         /\ rel' = [pc |-> "writing", v |-> v, s |-> s, p |-> p, q |-> q, from |-> place[p], to |-> to,
                    stale |-> {}, err |-> FALSE, had |-> open[p]]
  BY Zenon DEF BeginRegenerate, FreshPlog
<1> HIDE DEF v, s
<1>k. PICK q \in Plogs :
         /\ q \notin spent /\ spent' = spent \cup {q} /\ place' = [place EXCEPT ![q] = to]
         /\ file' = IF to \in gone THEN file ELSE [file EXCEPT ![to][q] = Torn]
         /\ rel' = [pc |-> "writing", v |-> v, s |-> s, p |-> p, q |-> q, from |-> place[p], to |-> to,
                    stale |-> {}, err |-> FALSE, had |-> open[p]]
  BY <1>q
<1>f. /\ rel'.pc = "writing" /\ rel'.v = v /\ rel'.s = s /\ rel'.p = p /\ rel'.q = q /\ rel'.to = to
      /\ rel'.stale = {}
  BY <1>k
<1>m. \A w \in Vlogs : \A t \in Shards : shard[w][t] # q /\ mount[w][t].plog # q
  BY <1>t, <1>k DEF IdsInv
<1>n. \A w \in Vlogs : \A t \in Shards : ~InTransit(w, t) /\ ~InTransit(w, t)'
  BY <1>f, NoTransit DEF InTransit
<1>p. place'[q] = to /\ \A w \in Vlogs : \A t \in Shards : place'[shard[w][t]] = place[shard[w][t]]
  BY <1>t, <1>k, <1>m, ShardFacts DEF TypeOK
<1>1. PlacementWhole'
  <2>1. \A w \in Vlogs : \A t \in Shards :
            file'[place[shard[w][t]]][shard[w][t]] = file[place[shard[w][t]]][shard[w][t]]
    <3>1. CASE to \in gone
      BY <1>k, <3>1
    <3>2. CASE to \notin gone
      <4>1. file' = [file EXCEPT ![to][q] = Torn]
        BY <1>k, <3>2
      <4> QED
        BY <1>t, <1>v, <1>m, <4>1, ShardFacts DEF TypeOK
    <3> QED
      BY <3>1, <3>2
  <2> QED
    BY <1>u, <1>p, <2>1, KeptStep
<1>2. RelInv'
  <2>1. call.kind \in {"reprotect", "repair"}
    BY <1>t DEF TypeOK, Calls, Kinds, CallInv
  <2>2. q # p /\ v \notin busy
    BY <1>v, <1>m DEF v
  <2>3. RepairInv'
    BY <1>u, <1>k, <1>f, <1>m, <1>p, <2>1, <2>2 DEF RepairInv
  <2>4. MoveInv'
    BY <1>f DEF MoveInv
  <2> QED
    BY <1>t, <1>v, <1>u, <1>f, <2>2, <2>3, <2>4 DEF RelInv
<1>3. CallInv'
  BY <1>t, <1>u, <1>p DEF CallInv
<1> QED
  BY <1>u, <1>k, <1>n, <1>p, <1>1, <1>2, <1>3, SettledStep

\* A relocation begins, or fails to.
LEMMA RelocateSteps ==
    ASSUME RelocationInv, NEW p \in Plogs, Relocate(p)
    PROVE  RelocationInv'
<1>t. TypeOK' /\ TypeOK
  BY BeginType DEF RelocationInv
<1>u. rel = NoRel /\ p \in call.todo /\ VlogOf(p) \notin busy
  BY DEF Relocate
<1>d. PICK to \in Destinations(VlogOf(p), place[p]) :
          IF call.kind \in Evacuations
          THEN BeginMove(p, to) \/ BeginMoveFails(p, to)
          ELSE BeginRegenerate(p, to) \/ BeginRegenerateFails(p)
  BY DEF Relocate
<1>1. CASE call.kind \in Evacuations /\ BeginMove(p, to)
  BY <1>t, <1>u, <1>1, BeginMoveStep
<1>2. CASE BeginMoveFails(p, to)
  BY <1>t, <1>u, <1>2, BeginMoveFailsStep
<1>3. CASE call.kind \notin Evacuations /\ BeginRegenerate(p, to)
  BY <1>t, <1>u, <1>3, BeginRegenerateStep
<1>4. CASE BeginRegenerateFails(p)
  <2>1. /\ UNCHANGED <<topologyVars, catalogVars, mediaVars, memoryVars, busy>> /\ Return(p, TRUE)
    BY <1>4 DEF BeginRegenerateFails
  <2>2. CallInv'
    BY <2>1, ReturnCall
  <2>3. call' \in Calls /\ rel' = NoRel
    BY <1>t, <2>1, ReturnType
  <2>4. /\ diskState' \in [Disks -> {"active", "draining", "failed", "detached"}]
        /\ abandoned' \subseteq Disks \X Plogs
        /\ \A r \in Mapped : diskState'[place[r]] = "detached" => <<place[r], r>> \in abandoned'
    BY <1>t, <2>1 DEF TypeOK, RelocationInv, NoDetachedData
  <2> QED
    BY <1>u, <2>1, <2>2, <2>3, <2>4, CallStep
<1> QED
  BY <1>d, <1>1, <1>2, <1>3, <1>4

-----------------------------------------------------------------------------
(* The steps of a rebuild.                                                 *)

\* What every step of a rebuild knows (RepairInv).
LEMMA RepairFacts ==
    ASSUME RelocationInv, rel.pc \in {"writing", "regenerated"}
    PROVE  /\ rel # NoRel /\ rel \in Relocations
           /\ rel.v \in Vlogs /\ rel.s \in Shards /\ rel.p \in Plogs /\ rel.q \in Plogs
           /\ rel.to \in Disks /\ rel.from \in Disks /\ shard[rel.v][rel.s] = rel.p
           /\ call # Free /\ rel.v \notin busy /\ call.kind \in {"reprotect", "repair"}
           /\ rel.q \in spent /\ rel.q # rel.p /\ place[rel.q] = rel.to
           /\ \A v \in Vlogs : \A s \in Shards :
                 /\ shard[v][s] # rel.q /\ mount[v][s].plog # rel.q
                 /\ shard[v][s] = rel.p <=> v = rel.v /\ s = rel.s
           /\ \A v \in Vlogs : \A s \in Shards : ~InTransit(v, s)
           /\ RepairInv
<1>1. rel # NoRel
  BY Constants
<1>2. /\ rel \in Relocations /\ rel.v \in Vlogs /\ rel.s \in Shards /\ rel.p \in Plogs
      /\ rel.q \in Plogs /\ rel.to \in Disks /\ rel.from \in Disks
      /\ shard[rel.v][rel.s] = rel.p /\ call # Free /\ rel.v \notin busy /\ RepairInv
  BY <1>1, RelFacts
<1>3. \A v \in Vlogs : \A s \in Shards : shard[v][s] = rel.p <=> v = rel.v /\ s = rel.s
  BY <1>2 DEF RelocationInv, IdsInv
<1>4. /\ call.kind \in {"reprotect", "repair"}
      /\ rel.q \in spent /\ rel.q # rel.p /\ place[rel.q] = rel.to
      /\ \A v \in Vlogs : \A s \in Shards : shard[v][s] # rel.q /\ mount[v][s].plog # rel.q
  BY <1>2 DEF RepairInv
<1>5. \A v \in Vlogs : \A s \in Shards : ~InTransit(v, s)
  BY DEF InTransit
<1> QED
  BY <1>1, <1>2, <1>3, <1>4, <1>5

\* The new file is written, and the siblings are caught up.
LEMMA RegeneratedStep ==
    ASSUME RelocationInv, Regenerated
    PROVE  RelocationInv'
<1>t. TypeOK /\ TypeOK' /\ CallInv
  BY RepairingType DEF RelocationInv, Repairing
<1>u. /\ rel.pc = "writing" /\ rel' = [rel EXCEPT !.pc = "regenerated"]
      /\ open' = [open EXCEPT ![rel.q] = rel.to]
      /\ excused' = excused \ (Placed(Siblings) \cup {<<rel.to, rel.q>>})
      /\ file' = [CaughtUp(Siblings) EXCEPT ![rel.to][rel.q] = length[rel.v]]
      /\ UNCHANGED <<topologyVars, catalogVars, gone, stranded, offline, mount, quarantined, busy, call>>
  BY Zenon DEF Regenerated
<1>m. /\ rel # NoRel /\ rel \in Relocations /\ rel.v \in Vlogs /\ rel.s \in Shards /\ rel.p \in Plogs
      /\ rel.q \in Plogs /\ rel.to \in Disks /\ shard[rel.v][rel.s] = rel.p
      /\ call # Free /\ rel.v \notin busy /\ call.kind \in {"reprotect", "repair"}
      /\ rel.q \in spent /\ rel.q # rel.p /\ place[rel.q] = rel.to
      /\ \A v \in Vlogs : \A s \in Shards : shard[v][s] # rel.q /\ mount[v][s].plog # rel.q
      /\ \A v \in Vlogs : \A s \in Shards : ~InTransit(v, s)
  BY <1>u, RepairFacts
<1>f. /\ rel'.pc = "regenerated" /\ rel'.v = rel.v /\ rel'.s = rel.s /\ rel'.p = rel.p
      /\ rel'.q = rel.q /\ rel'.to = rel.to
  BY <1>u, <1>m DEF Relocations
<1>c. Siblings \subseteq Mapped /\ CaughtUp(Siblings) \in Media
  <2>1. Siblings \subseteq Mapped
    BY <1>m DEF Siblings, OpenOf, Mapped
  <2> QED
    BY <1>t, <2>1, CopiesType, MediaType
<1>o. open'[rel.q] = rel.to /\ \A v \in Vlogs : \A s \in Shards : open'[shard[v][s]] = open[shard[v][s]]
  BY <1>t, <1>u, <1>m, ShardFacts DEF TypeOK
<1>n. \A v \in Vlogs : \A s \in Shards : ~InTransit(v, s)'
  BY <1>f DEF InTransit
<1>l. file'[rel.to][rel.q] = length[rel.v]
  BY <1>u, <1>m, <1>c DEF Media
<1>1. PlacementWhole'
  <2>1. \A v \in Vlogs : \A s \in Shards :
            file'[place[shard[v][s]]][shard[v][s]] = CaughtUp(Siblings)[place[shard[v][s]]][shard[v][s]]
    <3> TAKE v \in Vlogs
    <3> TAKE s \in Shards
    <3>1. shard[v][s] \in Plogs /\ place[shard[v][s]] \in Disks /\ shard[v][s] # rel.q
      BY <1>m, ShardFacts
    <3>2. file' = [CaughtUp(Siblings) EXCEPT ![rel.to][rel.q] = length[rel.v]]
      BY <1>u
    <3> QED
      BY <1>m, <1>c, <3>1, <3>2 DEF Media
  <2>2. \A v \in Vlogs : \A s \in Shards :
            <<place[shard[v][s]], shard[v][s]>> \in excused \ Placed(Siblings) =>
                <<place[shard[v][s]], shard[v][s]>> \in excused'
    BY <1>u, <1>m
  <2>3. UNCHANGED <<shard, place, length, stranded>>
    BY <1>u
  <2> QED
    BY <1>c, <2>1, <2>2, <2>3, CatchUpStep
<1>2. RelInv'
  <2>1. Whole(rel.v, rel.q, rel.to)'
    BY <1>u, <1>f, <1>l DEF Whole
  <2>2. RepairInv'
    BY <1>u, <1>m, <1>f, <1>o, <2>1 DEF RepairInv
  <2>3. MoveInv'
    BY <1>f DEF MoveInv
  <2> QED
    BY <1>u, <1>m, <1>f, <2>2, <2>3 DEF RelInv
<1>3. CallInv'
  BY <1>t, <1>u DEF CallInv
<1> QED
  BY <1>t, <1>u, <1>m, <1>n, <1>o, <1>1, <1>2, <1>3, SettledStep

\* The rebuild is given up before the repoint: the new plog is discarded, or
\* stays behind, unassigned (Discard).
LEMMA DiscardStep ==
    ASSUME RelocationInv, TypeOK', rel.pc \in {"writing", "regenerated"},
           NEW media \in Media, NEW discarded \in BOOLEAN, Discard(media, discarded),
           \A v \in Vlogs : \A s \in Shards :
               LET p == shard[v][s] IN
               media[place[p]][p] = file[place[p]][p] \/ file[place[p]][p] # length[v]
    PROVE  RelocationInv'
<1>t. TypeOK
  BY DEF RelocationInv
<1>m. /\ rel.q \in Plogs /\ rel.to \in Disks
      /\ \A v \in Vlogs : \A s \in Shards : shard[v][s] # rel.q
      /\ \A v \in Vlogs : \A s \in Shards : ~InTransit(v, s)
  BY RepairFacts
<1>u. /\ place' = IF discarded THEN [place EXCEPT ![rel.q] = NoDisk] ELSE place
      /\ open' = IF discarded THEN [open EXCEPT ![rel.q] = NoDisk] ELSE open
      /\ file' = IF discarded THEN Removed(media, rel.to, rel.q) ELSE media
      /\ Return(rel.p, TRUE)
      /\ UNCHANGED <<topologyVars, shard, length, spent, gone, stranded, excused, offline, mount,
                     quarantined, busy>>
  BY Zenon DEF Discard
<1>p. \A v \in Vlogs : \A s \in Shards :
         /\ place'[shard[v][s]] = place[shard[v][s]]
         /\ open'[shard[v][s]] = open[shard[v][s]]
  BY <1>t, <1>u, <1>m, ShardFacts DEF TypeOK
<1>f. \A v \in Vlogs : \A s \in Shards :
         file'[place[shard[v][s]]][shard[v][s]] = media[place[shard[v][s]]][shard[v][s]]
  <2>1. CASE ~discarded \/ rel.to \in gone
    BY <1>u, <2>1 DEF Removed
  <2>2. CASE discarded /\ rel.to \notin gone
    <3>1. file' = [media EXCEPT ![rel.to][rel.q] = Absent]
      BY <1>u, <2>2 DEF Removed
    <3> QED
      BY <1>m, <3>1, ShardFacts DEF Media
  <2> QED
    BY <2>1, <2>2
<1>1. PlacementWhole'
  BY <1>u, <1>p, <1>f, KeptStep
<1>2. CallInv' /\ rel' = NoRel
  BY <1>u, ReturnCall DEF Return
<1>3. RelInv'
  BY <1>2 DEF RelInv
<1>4. \A v \in Vlogs : \A s \in Shards : ~InTransit(v, s)'
  BY <1>2, Constants DEF InTransit
<1> QED
  BY <1>u, <1>m, <1>p, <1>1, <1>2, <1>3, <1>4, SettledStep

\* The call after a repoint lists shards still (Return).
LEMMA RepairCall ==
    ASSUME RelocationInv, rel.pc \in {"writing", "regenerated"}, NEW failed \in BOOLEAN,
           Return(rel.p, failed),
           \A v \in Vlogs : \A s \in Shards :
               shard'[v][s] = IF v = rel.v /\ s = rel.s THEN rel.q ELSE shard[v][s]
    PROVE  CallInv' /\ rel' = NoRel
<1>c. call \in Calls /\ CallInv
  BY DEF RelocationInv, TypeOK
<1>m. /\ call.kind \in {"reprotect", "repair"} /\ shard[rel.v][rel.s] = rel.p
  BY RepairFacts
<1>1. \A p \in call.todo \ {rel.p} : \E v \in Vlogs : \E s \in Shards : p = shard'[v][s]
  <2> TAKE p \in call.todo \ {rel.p}
  <2>1. PICK v \in Vlogs, s \in Shards : p = shard[v][s]
    BY <1>c DEF CallInv
  <2>2. p = shard'[v][s]
    BY <1>m, <2>1
  <2> QED
    BY <2>2
<1>2. rel' = NoRel
  BY DEF Return
<1>3. CASE call' = Free
  BY <1>2, <1>3 DEF CallInv, Free
<1>4. CASE call' # Free
  <2>1. call' \in {[call EXCEPT !.todo = @ \ {rel.p}], [call EXCEPT !.todo = @ \ {rel.p}, !.failed = TRUE]}
    BY <1>4, Zenon DEF Return
  <2>2. call'.kind = call.kind /\ call'.todo = call.todo \ {rel.p}
    BY <1>c, <2>1 DEF Calls
  <2> QED
    BY <1>m, <1>1, <1>2, <2>2 DEF CallInv
<1> QED
  BY <1>3, <1>4

\* The shard is repointed to the new plog, which is whole, and the vlog is
\* mounted on it or known to be stranded (ReplaceShardPlog).
LEMMA RepointedStep ==
    ASSUME RelocationInv, TypeOK', rel.pc = "regenerated", ReplaceShardPlog, Repointed,
           NEW failed \in BOOLEAN, Return(rel.p, failed),
           \A r \in Plogs \ {rel.p} :
               open'[r] = open[r] /\ \A d \in Disks : file'[d][r] = file[d][r],
           quarantined' = quarantined,
           \/ /\ stranded' = stranded
              /\ \A v \in Vlogs : \A s \in Shards :
                    /\ v # rel.v => mount'[v][s] = mount[v][s]
                    /\ v = rel.v => /\ mount'[v][s].plog = shard'[v][s]
                                    /\ mount'[v][s].disk = open'[shard'[v][s]]
           \/ mount' = mount /\ stranded' = stranded \cup ({rel.v} \ quarantined)
    PROVE  RelocationInv'
<1>t. TypeOK /\ IdsInv /\ HandlesInv /\ ClientsInv /\ PlacementWhole /\ OneCopyPerDisk /\ NoDetachedData
  BY DEF RelocationInv
<1>m. /\ rel.v \in Vlogs /\ rel.s \in Shards /\ rel.p \in Plogs /\ rel.q \in Plogs
      /\ rel.to \in Disks /\ shard[rel.v][rel.s] = rel.p
      /\ rel.q \in spent /\ rel.q # rel.p /\ place[rel.q] = rel.to
      /\ \A v \in Vlogs : \A s \in Shards :
            /\ shard[v][s] # rel.q /\ mount[v][s].plog # rel.q
            /\ shard[v][s] = rel.p <=> v = rel.v /\ s = rel.s
      /\ \A v \in Vlogs : \A s \in Shards : ~InTransit(v, s)
      /\ RepairInv
  BY RepairFacts
<1>u. /\ shard' = [shard EXCEPT ![rel.v][rel.s] = rel.q]
      /\ place' = [place EXCEPT ![rel.p] = NoDisk]
      /\ UNCHANGED <<topologyVars, length, spent, gone, excused, busy>>
  BY Zenon DEF Repointed
<1>x. excused' = excused /\ length' = length
  BY <1>u
<1>s. \A v \in Vlogs : \A s \in Shards :
         shard'[v][s] = IF v = rel.v /\ s = rel.s THEN rel.q ELSE shard[v][s]
  BY <1>t, <1>u, <1>m DEF TypeOK
<1>p. \A r \in Plogs \ {rel.p} : place'[r] = place[r]
  BY <1>t, <1>u DEF TypeOK
<1>d. \A v \in Vlogs : \A s \in Shards :
         /\ shard'[v][s] \in Plogs \ {rel.p}
         /\ place'[shard'[v][s]] = IF v = rel.v /\ s = rel.s THEN rel.to ELSE place[shard[v][s]]
         /\ place'[shard'[v][s]] \in Disks
  BY <1>m, <1>s, <1>p, ShardFacts
<1>g. /\ "dest" \notin rel.stale /\ diskState[rel.to] = "active"
      /\ \A s \in Shards \ {rel.s} : place[shard[rel.v][s]] # rel.to
  BY DEF ReplaceShardPlog, Live
<1>w. Whole(rel.v, rel.q, rel.to) /\ open[rel.q] \in {rel.to, NoDisk}
  BY <1>m, <1>g DEF RepairInv
<1>c. CallInv' /\ rel' = NoRel
  BY <1>s, RepairCall
<1>n. \A v \in Vlogs : \A s \in Shards : ~InTransit(v, s)'
  BY <1>c, Constants DEF InTransit
<1>h. \A v \in Vlogs : \A s \in Shards : open'[shard'[v][s]] \in {place'[shard'[v][s]], NoDisk}
  <2> TAKE v \in Vlogs
  <2> TAKE s \in Shards
  <2>1. CASE v = rel.v /\ s = rel.s
    BY <1>m, <1>s, <1>d, <1>w, <2>1
  <2>2. CASE v # rel.v \/ s # rel.s
    <3>1. open[shard[v][s]] \in {place[shard[v][s]], NoDisk}
      BY <1>t, <1>m DEF HandlesInv
    <3>2. shard'[v][s] = shard[v][s] /\ place'[shard'[v][s]] = place[shard[v][s]]
      BY <1>s, <1>d, <2>2
    <3> QED
      BY <1>d, <3>1, <3>2
  <2> QED
    BY <2>1, <2>2
<1>i. \A v, w \in Vlogs : \A s, t \in Shards :
         /\ shard[v][s] = shard[w][t] => v = w /\ s = t
         /\ shard[v][s] \in spent /\ mount[v][s].plog \in spent
         /\ mount[v][s].plog = shard[w][t] => v = w
  BY <1>t DEF IdsInv
<1>j. \A v, w \in Vlogs : \A s, t \in Shards : shard'[v][s] = shard'[w][t] => v = w /\ s = t
  BY <1>i, <1>m, <1>s
<1>1. IdsInv'
  <2> SUFFICES ASSUME NEW v \in Vlogs, NEW w \in Vlogs, NEW s \in Shards, NEW t \in Shards
               PROVE  /\ shard'[v][s] = shard'[w][t] => v = w /\ s = t
                      /\ shard'[v][s] \in spent /\ place'[shard'[v][s]] # NoDisk
                      /\ mount'[v][s].plog \in spent
                      /\ mount'[v][s].plog = shard'[w][t] => v = w
    BY <1>u DEF IdsInv
  <2>1. shard'[v][s] \in spent /\ place'[shard'[v][s]] # NoDisk
    BY <1>i, <1>m, <1>s, <1>d, Constants
  <2>2. CASE mount'[v][s].plog = shard'[v][s]
    BY <1>j, <2>1, <2>2
  <2>3. CASE mount'[v][s] = mount[v][s]
    <3>1. mount[v][s].plog = shard'[w][t] => v = w
      BY <1>i, <1>m, <1>s
    <3> QED
      BY <1>i, <1>j, <2>1, <2>3, <3>1
  <2> QED
    BY <2>2, <2>3
<1>2. HandlesInv'
  BY <1>h DEF HandlesInv
<1>3. ClientsInv'
  <2> SUFFICES ASSUME NEW v \in Vlogs \ (quarantined \cup stranded'), NEW s \in Shards
               PROVE  /\ mount'[v][s].plog = shard'[v][s]
                      /\ mount'[v][s].disk \in {place'[shard'[v][s]], NoDisk}
    BY <1>n DEF ClientsInv
  <2>1. CASE v = rel.v
    BY <1>h, <2>1
  <2>2. CASE v # rel.v
    <3>1. mount'[v][s] = mount[v][s] /\ v \notin stranded
      BY <2>2
    <3>2. mount[v][s].plog = shard[v][s] /\ mount[v][s].disk \in {place[shard[v][s]], NoDisk}
      BY <1>t, <1>m, <3>1 DEF ClientsInv
    <3>3. shard'[v][s] = shard[v][s] /\ place'[shard'[v][s]] = place[shard[v][s]]
      BY <1>s, <1>d, <2>2
    <3> QED
      BY <3>1, <3>2, <3>3
  <2> QED
    BY <2>1, <2>2
<1>4. RelInv'
  BY <1>c DEF RelInv
<1>5. PlacementWhole'
  <2> SUFFICES ASSUME NEW v \in Vlogs \ stranded', NEW s \in Shards
               PROVE  \/ <<place'[shard'[v][s]], shard'[v][s]>> \in excused
                      \/ file'[place'[shard'[v][s]]][shard'[v][s]] = length[v]
    BY <1>x DEF PlacementWhole, PlogsOf
  <2>1. file'[place'[shard'[v][s]]][shard'[v][s]] = file[place'[shard'[v][s]]][shard'[v][s]]
    <3>1. shard'[v][s] \in Plogs \ {rel.p} /\ place'[shard'[v][s]] \in Disks
      BY <1>d
    <3> QED
      BY <3>1, Zenon
  <2>2. CASE v = rel.v /\ s = rel.s
    BY <1>s, <1>d, <1>w, <2>1, <2>2 DEF Whole
  <2>3. CASE v # rel.v \/ s # rel.s
    <3>1. shard'[v][s] = shard[v][s] /\ place'[shard'[v][s]] = place[shard[v][s]]
      BY <1>s, <1>d, <2>3
    <3>2. <<place[shard[v][s]], shard[v][s]>> \in excused \/ file[place[shard[v][s]]][shard[v][s]] = length[v]
      BY <1>t DEF PlacementWhole, PlogsOf
    <3> QED
      BY <2>1, <3>1, <3>2
  <2> QED
    BY <2>2, <2>3
<1>6. OneCopyPerDisk'
  <2> SUFFICES ASSUME NEW v \in Vlogs, NEW s \in Shards, NEW t \in Shards,
                      place'[shard'[v][s]] = place'[shard'[v][t]]
               PROVE  s = t
    BY DEF OneCopyPerDisk
  <2>1. CASE v # rel.v
    BY <1>t, <1>d, <2>1 DEF OneCopyPerDisk
  <2>2. CASE v = rel.v
    BY <1>t, <1>d, <1>g, <2>2 DEF OneCopyPerDisk
  <2> QED
    BY <2>1, <2>2
<1>7. NoDetachedData'
  <2> SUFFICES ASSUME NEW v \in Vlogs, NEW s \in Shards
               PROVE  diskState[place'[shard'[v][s]]] = "detached" =>
                          <<place'[shard'[v][s]], shard'[v][s]>> \in abandoned
    BY <1>u DEF NoDetachedData, Mapped, PlogsOf
  <2>1. diskState[place[shard[v][s]]] = "detached" => <<place[shard[v][s]], shard[v][s]>> \in abandoned
    BY <1>t, ShardFacts DEF NoDetachedData
  <2>2. CASE v = rel.v /\ s = rel.s
    BY <1>d, <1>g, <2>2
  <2>3. CASE v # rel.v \/ s # rel.s
    <3>1. shard'[v][s] = shard[v][s] /\ place'[shard'[v][s]] = place[shard[v][s]]
      BY <1>s, <1>d, <2>3
    <3> QED
      BY <2>1, <3>1
  <2> QED
    BY <2>2, <2>3
<1> QED
  BY <1>c, <1>1, <1>2, <1>3, <1>4, <1>5, <1>6, <1>7 DEF RelocationInv

\* The repoint and the remount.
LEMMA RepairCommitsStep ==
    ASSUME RelocationInv, RepairCommits
    PROVE  RelocationInv'
<1>t. TypeOK /\ TypeOK'
  BY RepairingType DEF RelocationInv, Repairing
<1>u. /\ rel.pc = "regenerated" /\ ReplaceShardPlog /\ Repointed /\ Return(rel.p, FALSE)
      /\ open' = HandlesAfter
      /\ mount' = [mount EXCEPT ![rel.v] = [s \in Shards |-> Client(shard'[rel.v][s], HandlesAfter)]]
      /\ file' \in {file, IF call.kind = "repair" THEN Removed(file, rel.from, rel.p) ELSE file}
      /\ UNCHANGED <<stranded, quarantined>>
  BY Zenon DEF RepairCommits
<1>m. rel.v \in Vlogs /\ rel.p \in Plogs /\ rel.from \in Disks
  BY <1>u, RepairFacts
<1>o. \A r \in Plogs \ {rel.p} : open'[r] = open[r]
  BY <1>t, <1>u DEF HandlesAfter, TypeOK
<1>f. \A r \in Plogs \ {rel.p} : \A d \in Disks : file'[d][r] = file[d][r]
  <2>1. CASE file' = file
    BY <2>1
  <2>2. CASE file' = [file EXCEPT ![rel.from][rel.p] = Absent]
    BY <1>t, <1>m, <2>2 DEF TypeOK
  <2> QED
    BY <1>u, <2>1, <2>2 DEF Removed
<1>c. \A v \in Vlogs : \A s \in Shards :
         /\ v # rel.v => mount'[v][s] = mount[v][s]
         /\ v = rel.v => /\ mount'[v][s].plog = shard'[v][s]
                         /\ mount'[v][s].disk = open'[shard'[v][s]]
  <2> TAKE v \in Vlogs
  <2> TAKE s \in Shards
  <2>1. CASE v # rel.v
    <3>1. mount'[v] = mount[v]
      BY <1>t, <1>u, <2>1 DEF TypeOK
    <3> QED
      BY <2>1, <3>1
  <2>2. CASE v = rel.v
    <3>1. mount'[v] = [t \in Shards |-> Client(shard'[rel.v][t], HandlesAfter)]
      BY <1>t, <1>u, <1>m, <2>2 DEF TypeOK
    <3>2. mount'[v][s] = [plog |-> shard'[v][s], disk |-> open'[shard'[v][s]]]
      BY <1>u, <2>2, <3>1 DEF Client
    <3> QED
      BY <2>2, <3>2
  <2> QED
    BY <2>1, <2>2
<1> QED
  BY <1>t, <1>u, <1>o, <1>f, <1>c, RepointedStep

\* The steps of a rebuild that fail.
LEMMA RepairFailsStep ==
    ASSUME RelocationInv, RepairFails
    PROVE  RelocationInv'
<1>t. TypeOK /\ TypeOK'
  BY RepairingType DEF RelocationInv, Repairing
<1>u. /\ rel.pc = "regenerated"
      /\ \E outcome \in Failures :
            IF outcome \in {"discarded", "kept"} THEN Discard(file, outcome = "discarded")
                                               ELSE Stranded(outcome = "remounting")
  BY DEF RepairFails
<1>m. rel.v \in Vlogs /\ rel.p \in Plogs /\ file \in Media
  BY <1>t, <1>u, RepairFacts, MediaType
<1>1. CASE \E discarded \in BOOLEAN : Discard(file, discarded)
  <2>1. PICK discarded \in BOOLEAN : Discard(file, discarded)
    BY <1>1
  <2> QED
    BY <1>t, <1>u, <1>m, <2>1, DiscardStep
<1>2. CASE ReplaceShardPlog /\ \E remounting \in BOOLEAN : Stranded(remounting)
  <2>1. PICK remounting \in BOOLEAN : Stranded(remounting)
    BY <1>2
  <2>2. /\ Repointed /\ Return(rel.p, TRUE) /\ open' = (IF remounting THEN HandlesAfter ELSE open)
        /\ stranded' = stranded \cup ({rel.v} \ quarantined)
        /\ UNCHANGED <<file, mount, quarantined>>
    BY <2>1, Zenon DEF Stranded
  <2>3. \A r \in Plogs \ {rel.p} : open'[r] = open[r] /\ \A d \in Disks : file'[d][r] = file[d][r]
    BY <1>t, <2>2 DEF HandlesAfter, TypeOK
  <2> QED
    BY <1>t, <1>u, <1>2, <2>2, <2>3, RepointedStep
<1>3. PICK outcome \in Failures :
         IF outcome \in {"discarded", "kept"} THEN Discard(file, outcome = "discarded")
                                            ELSE Stranded(outcome = "remounting")
  BY <1>u
<1>4. outcome \in {"discarded", "kept"} \/ ReplaceShardPlog
  BY <1>3 DEF Failures
<1> QED
  BY <1>1, <1>2, <1>3, <1>4

\* The new file cannot be written, or the siblings not be caught up.
LEMMA RegenerateFailsStep ==
    ASSUME RelocationInv, RegenerateFails
    PROVE  RelocationInv'
<1> DEFINE stale == {r \in Siblings : file[place[r]][r] \notin {length[rel.v], Absent}}
<1>t. TypeOK /\ TypeOK'
  BY RepairingType DEF RelocationInv, Repairing
<1>u. /\ rel.pc = "writing"
      /\ \/ \E some \in SUBSET stale, discarded \in BOOLEAN : Discard(Emptied(some), discarded)
         \/ Discard(file, TRUE)
  BY Zenon DEF RegenerateFails
<1>s. stale \subseteq OpenOf(rel.v) /\ \A r \in stale : file[place[r]][r] # length[rel.v]
  BY DEF Siblings
<1> HIDE DEF stale
<1>m. rel.v \in Vlogs /\ file \in Media /\ rel.pc \in {"writing", "regenerated"}
  BY <1>t, <1>u, RepairFacts, MediaType
<1>1. CASE Discard(file, TRUE)
  BY <1>t, <1>m, <1>1, DiscardStep
<1>2. ASSUME NEW some \in SUBSET stale, NEW discarded \in BOOLEAN, Discard(Emptied(some), discarded)
      PROVE  RelocationInv'
  <2>1. Emptied(some) \in Media
    BY <1>t, MediaType
  <2>2. some \in SUBSET OpenOf(rel.v) /\ \A r \in some : file[place[r]][r] # length[rel.v]
    BY <1>s
  <2>3. \A v \in Vlogs : \A s \in Shards :
            LET p == shard[v][s] IN
            Emptied(some)[place[p]][p] = file[place[p]][p] \/ file[place[p]][p] # length[v]
    BY <1>m, <2>2, EmptiedFacts
  <2> QED
    BY <1>t, <1>m, <1>2, <2>1, <2>3, DiscardStep
<1> QED
  BY <1>u, <1>1, <1>2

\* Every step of a rebuild (regenerateShardLocked).
LEMMA RepairingSteps ==
    ASSUME RelocationInv, Repairing
    PROVE  RelocationInv'
  BY RegeneratedStep, RegenerateFailsStep, RepairCommitsStep, RepairFailsStep DEF Repairing

-----------------------------------------------------------------------------
(* The theorems.                                                           *)

\* What provisioning leaves satisfies the invariant.
LEMMA InitInv == Init => RelocationInv
<1> SUFFICES ASSUME Init PROVE RelocationInv
  OBVIOUS
<1>i. /\ shard = InitialShard /\ place = InitialPlace /\ open = InitialPlace
      /\ diskState = [d \in Disks |-> "active"] /\ nodeDown = {} /\ abandoned = {} /\ length = [v \in Vlogs |-> 1]
      /\ spent = {p \in Plogs : InitialPlace[p] # NoDisk}
      /\ file = [d \in Disks |-> [p \in Plogs |-> IF InitialPlace[p] = d THEN 1 ELSE Absent]]
      /\ gone = {} /\ excused = {} /\ stranded = {} /\ offline = {} /\ quarantined = {} /\ busy = {}
      /\ mount = [v \in Vlogs |-> [s \in Shards |-> Client(InitialShard[v][s], InitialPlace)]]
      /\ call = Free /\ rel = NoRel
  BY DEF Init
<1>a. /\ InitialShard \in [Vlogs -> [Shards -> Plogs]]
      /\ InitialPlace \in [Plogs -> Disks \cup {NoDisk}]
      /\ \A v, w \in Vlogs, s, t \in Shards :
            /\ InitialPlace[InitialShard[v][s]] # NoDisk
            /\ InitialShard[v][s] = InitialShard[w][t] => v = w /\ s = t
            /\ InitialPlace[InitialShard[v][s]] = InitialPlace[InitialShard[v][t]] => s = t
  BY InitialAssumption
<1>m. \A v \in Vlogs : \A s \in Shards :
         /\ mount[v][s].plog = InitialShard[v][s]
         /\ mount[v][s].disk = InitialPlace[InitialShard[v][s]]
         /\ InitialShard[v][s] \in Plogs /\ InitialPlace[InitialShard[v][s]] \in Disks
  BY <1>i, <1>a DEF Client
<1>1. TypeOK
  <2>1. file \in [Disks -> [Plogs -> Int]]
    BY <1>i, Constants
  <2>2. mount \in [Vlogs -> [Shards -> [plog : Plogs, disk : Disks \cup {NoDisk}]]]
    BY <1>i, <1>a DEF Client
  <2> QED
    BY <1>i, <1>a, <2>1, <2>2, CallType DEF TypeOK
<1>2. IdsInv
  <2> SUFFICES ASSUME NEW v \in Vlogs, NEW w \in Vlogs, NEW s \in Shards, NEW t \in Shards
               PROVE  /\ shard[v][s] = shard[w][t] => v = w /\ s = t
                      /\ shard[v][s] \in spent /\ place[shard[v][s]] # NoDisk
                      /\ mount[v][s].plog \in spent
                      /\ mount[v][s].plog = shard[w][t] => v = w
    BY DEF IdsInv
  <2>1. InitialShard[v][s] \in spent /\ InitialPlace[InitialShard[v][s]] # NoDisk
    BY <1>i, <1>m, Constants
  <2>2. mount[v][s].plog = InitialShard[v][s]
    BY <1>m
  <2>3. InitialShard[v][s] = InitialShard[w][t] => v = w /\ s = t
    BY <1>a
  <2> QED
    BY <1>i, <2>1, <2>2, <2>3
<1>n. \A v, s : ~InTransit(v, s)
  BY <1>i, NoTransit
<1>e. shard = InitialShard /\ place = InitialPlace /\ open = InitialPlace
  BY <1>i
<1>3. HandlesInv /\ ClientsInv
  BY <1>e, <1>m, <1>n DEF HandlesInv, ClientsInv
<1>4. CallInv /\ RelInv
  BY <1>i DEF CallInv, RelInv, Free
<1>5. PlacementWhole
  <2> SUFFICES ASSUME NEW v \in Vlogs, NEW s \in Shards
               PROVE  file[place[shard[v][s]]][shard[v][s]] = length[v]
    BY DEF PlacementWhole, PlogsOf
  <2> QED
    BY <1>i, <1>m
<1>6. OneCopyPerDisk
  BY <1>i, <1>a DEF OneCopyPerDisk
<1>7. NoDetachedData
  <2> SUFFICES ASSUME NEW v \in Vlogs, NEW s \in Shards
               PROVE  diskState[place[shard[v][s]]] # "detached"
    BY DEF NoDetachedData, Mapped, PlogsOf
  <2> QED
    BY <1>i, <1>m
<1> QED
  BY <1>1, <1>2, <1>3, <1>4, <1>5, <1>6, <1>7 DEF RelocationInv

\* Every step preserves the invariant.
LEMMA NextInv == RelocationInv /\ [Next]_vars => RelocationInv'
<1> SUFFICES ASSUME RelocationInv, [Next]_vars PROVE RelocationInv'
  OBVIOUS
<1>1. CASE UNCHANGED vars
  <2>1. UNCHANGED <<topologyVars, catalogVars, mediaVars, memoryVars, call, rel>> /\ busy' = busy
    BY <1>1 DEF vars
  <2>2. busy \subseteq Vlogs /\ (rel # NoRel => rel.v \notin busy)
    BY DEF RelocationInv, TypeOK, RelInv
  <2> QED
    BY <2>1, <2>2, QuietStep
<1>2. ASSUME NEW v \in Vlogs,
             \/ BeginWrite(v) \/ EndWrite(v) \/ AbortWrite(v) \/ RepairNothing(v)
             \/ \E scrub \in BOOLEAN : RepairVlog(v, scrub)
      PROVE  RelocationInv'
  <2>1. CASE EndWrite(v)
    BY <2>1, EndWriteStep
  <2>2. CASE \E scrub \in BOOLEAN : RepairVlog(v, scrub)
    BY <2>2, RepairVlogStep
  <2> QED
    BY <1>2, <2>1, <2>2, QuietSteps
<1>3. ASSUME NEW d \in Disks,
             \/ RemoveDisk(d) \/ DrainDisk(d) \/ ConfirmDetached(d)
             \/ ReprotectDisk(d) \/ ReprotectEmptyDisk(d)
             \/ FailDisk(d) \/ ReturnDisk(d) \/ FailNode(d) \/ ReturnNode(d)
             \/ \E state \in {"active", "draining", "detached"} : SetDiskState(d, state)
             \/ LoseDisk(d) \/ ReplaceDiskRow(d)
             \/ \E e \in Disks : ReplaceDiskWith(d, e)
             \/ \E p \in Plogs : Rebalance(p, d)
      PROVE  RelocationInv'
  <2>1. CASE RemoveDisk(d) \/ ConfirmDetached(d) \/ ReprotectEmptyDisk(d)
    BY <2>1, QuietSteps
  <2>2. CASE \/ DrainDisk(d) \/ ReprotectDisk(d) \/ (\E e \in Disks : ReplaceDiskWith(d, e))
             \/ \E p \in Plogs : Rebalance(p, d)
    BY <2>2, OperatorSteps
  <2>3. CASE FailDisk(d) \/ ReturnDisk(d) \/ FailNode(d) \/ ReturnNode(d)
    BY <2>3, TopologySteps
  <2>4. CASE LoseDisk(d)
    BY <2>4, FaultSteps
  <2>5. CASE ReplaceDiskRow(d)
    BY <2>5, ReplaceRowStep
  <2>6. CASE \E state \in {"active", "draining", "detached"} : SetDiskState(d, state)
    BY <2>6, SetDiskStateStep
  <2> QED
    BY <1>3, <2>1, <2>2, <2>3, <2>4, <2>5, <2>6
<1>4. ASSUME NEW p \in Plogs, Rot(p) PROVE RelocationInv'
  BY <1>4, FaultSteps
<1>5. CASE Continue
  <2>1. CASE Moving
    BY <2>1, MovingSteps
  <2>2. CASE Repairing
    BY <2>2, RepairingSteps
  <2>3. CASE \/ CallFails \/ Detach \/ Finish \/ \E p \in Plogs : Defer(p) \/ NoDestination(p)
    BY <2>3, CallSteps
  <2>4. CASE \E p \in Plogs : Relocate(p)
    BY <2>4, RelocateSteps
  <2> QED
    BY <1>5, <2>1, <2>2, <2>3, <2>4 DEF Continue
<1>6. CASE SweepStrayPlogFiles
  BY <1>6, SweepStep
<1>7. CASE Recover
  BY <1>7, RecoverStep
<1> QED
  BY <1>1, <1>2, <1>3, <1>4, <1>5, <1>6, <1>7 DEF Next

\* The parts of the invariant hold together, always: whatever is drained,
\* replaced, rebalanced, reprotected, repaired, lost, returned, swept or
\* recovered, and wherever a call fails, crashes or is refused.
THEOREM RelocationInvariance == Spec => []RelocationInv
  BY InitInv, NextInv, PTL DEF Spec

\* An authoritative copy is never lost or shortened by maintenance.
THEOREM CopiesStayWhole == Spec => []PlacementWhole
<1>1. RelocationInv => PlacementWhole
  BY DEF RelocationInv
<1> QED
  BY <1>1, RelocationInvariance, PTL

\* Two copies of a vlog are never on one disk.
THEOREM CopiesStayApart == Spec => []OneCopyPerDisk
<1>1. RelocationInv => OneCopyPerDisk
  BY DEF RelocationInv
<1> QED
  BY <1>1, RelocationInvariance, PTL

\* A drain or a replacement detaches a disk only when nothing is on it, and no
\* copy goes to a detached disk after: what is on one was there when SetDiskState
\* detached it.
THEOREM DetachedDisksAreEmpty == Spec => []NoDetachedData
<1>1. RelocationInv => NoDetachedData
  BY DEF RelocationInv
<1> QED
  BY <1>1, RelocationInvariance, PTL

\* Between calls the mounted clients are those the catalog names.
THEOREM MountsFollowCatalog == Spec => []MountedFollowsCatalog
<1>1. RelocationInv => MountedFollowsCatalog
  <2> SUFFICES ASSUME RelocationInv, call = Free PROVE
               \A v \in Vlogs \ (quarantined \cup stranded) : \A s \in Shards :
                   /\ mount[v][s].plog = shard[v][s]
                   /\ mount[v][s].disk \in {place[shard[v][s]], NoDisk}
    BY DEF MountedFollowsCatalog
  <2>1. \A v, s : ~InTransit(v, s)
    BY FreeFacts, NoTransit
  <2> QED
    BY <2>1 DEF RelocationInv, ClientsInv
<1> QED
  BY <1>1, RelocationInvariance, PTL
=============================================================================
