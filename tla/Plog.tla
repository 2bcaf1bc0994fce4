-------------------------------- MODULE Plog --------------------------------
(***************************************************************************)
(* One physical log (storage/plog.go): the layout of logical bytes in      *)
(* sectors, hash sectors and the open-block trailer; what a reopened plog  *)
(* believes about its open block; and which reads, appends and commits it  *)
(* then allows.                                                            *)
(*                                                                         *)
(* The file is a sequence of sectors, the superblock first.  A hash is the *)
(* hashed contents themselves (no collisions) and a MAC that was not       *)
(* computed over the present contents is simply wrong.  What power loss    *)
(* does to the file is CommitContract, which UndoJournal implements: an    *)
(* open shows one of the images in accept.  Rot is bit rot on the medium.  *)
(***************************************************************************)
EXTENDS Integers, Sequences, FiniteSets

CONSTANTS SectorUnits,     \* logical units (bytes in the code) per sector
          HashesPerBlock,  \* data sectors per block
          Values,          \* what a logical unit can hold
          Zero,            \* a unit of a sector that was never written
          Poison,          \* a hash that matches nothing
          Bitrot,          \* what a read that fails authentication returns
          NoHash,          \* memory holds no hash for a sector
          Hidden,          \* what a caller sees of a plog that is not open
          MaxUnits,        \* bound: logical length
          MaxAppend,       \* bound: units in one append
          MaxFaults,       \* bound: failed calls, closes and crashes
          MaxRot           \* bound: decayed sectors

ASSUME GeometryAssumption ==
    /\ SectorUnits \in Nat \ {0}
    /\ HashesPerBlock \in Nat \ {0}
ASSUME BoundsAssumption == {MaxUnits, MaxAppend, MaxFaults, MaxRot} \subseteq Nat

\* What a logical unit can be, and what a read of a sector that holds none delivers.
Units     == Values \cup {Zero}
Delivered == Units \cup {"super", "hash", "trailer", "rot"}

ASSUME MarkersAssumption == /\ \A marker \in {Poison, Bitrot, NoHash} : marker \notin Seq(Delivered)
                            /\ Poison # NoHash

VARIABLES file,               \* the sectors, as the running system sees them
          accept,             \* history: [image, stream] pairs an open may show
          phase,              \* mounting and committing progress
          undoActive, undoStart,
          logicalLength, buf, hashes,
          bufCorrupt, openUnverified, loadedFromTrailer,
          stream,             \* history: the units appended and not truncated
          acked,              \* length of the last successful Commit of this run
          recorded,           \* length in the catalog (SetVlogLength)
          faults, rot

plogVars == <<logicalLength, buf, hashes, bufCorrupt, openUnverified, loadedFromTrailer>>
undoVars == <<undoActive, undoStart>>
vars == <<file, accept, phase, undoVars, plogVars, stream, acked, recorded, faults, rot>>

Fault == faults < MaxFaults /\ faults' = faults + 1

-----------------------------------------------------------------------------
(* Geometry.  Physical sector p is file[p + 1].                            *)

BlockUnits == SectorUnits * HashesPerBlock

\* CalcPhysical of a length that ends on a sector boundary, in sectors.
CalcPhysical(sector) == 1 + (sector \div HashesPerBlock) * (HashesPerBlock + 1) + (sector % HashesPerBlock)

hashSectorPhys(block) == 1 + block * (HashesPerBlock + 1) + HashesPerBlock

\* CalcLogical of a file of so many whole sectors.
CalcLogical(sectors) ==
    LET chunks == (sectors - 1) \div (HashesPerBlock + 1)
        rem    == (sectors - 1) % (HashesPerBlock + 1)
    IN  IF sectors < 1 THEN 0 ELSE chunks * BlockUnits + rem * SectorUnits

BlockStart(units) == (units \div BlockUnits) * BlockUnits

\* Mutant: the protected range begins one sector late.
BlockPhysicalLate(units) == CalcPhysical(BlockStart(units) \div SectorUnits) + 1

\* The physical sector at which the block that holds this unit begins.
BlockPhysical(units) == CalcPhysical(BlockStart(units) \div SectorUnits)

Super         == [kind |-> "super"]
Rotten        == [kind |-> "rot"]
DataSector(u) == [kind |-> "data", units |-> [i \in 1 .. SectorUnits |-> IF i <= Len(u) THEN u[i] ELSE Zero]]
HashSector(block, h) == [kind |-> "hash", block |-> block, hashes |-> h]

\* buildOpenTrailer: the hashes of the sealed sectors and the ragged length,
\* under a MAC that also covers the ragged units.
Trailer(block, h, ragged) ==
    [kind |-> "trailer", block |-> block, hashes |-> h, raggedLen |-> Len(ragged),
     mac |-> <<block, h, ragged>>]

\* The units a sector read from the medium delivers.
Bytes(sector) == IF sector.kind = "data" THEN sector.units ELSE [i \in 1 .. SectorUnits |-> sector.kind]

\* WriteAt: a write past the end leaves a gap of zeros.
WriteAt(f, start, sectors) ==
    [i \in 1 .. (IF start + Len(sectors) > Len(f) THEN start + Len(sectors) ELSE Len(f)) |->
        IF i > start /\ i <= start + Len(sectors) THEN sectors[i - start]
        ELSE IF i <= Len(f) THEN f[i] ELSE DataSector(<<>>)]

TruncateFile(f, sectors) == SubSeq(WriteAt(f, sectors, <<>>), 1, sectors)

-----------------------------------------------------------------------------
(* Reading.                                                                *)

sealed == logicalLength - Len(buf)

\* A read past the end of the file fails, as a read of a decayed sector does.
SectorAt(p) == IF p + 1 <= Len(file) THEN file[p + 1] ELSE Rotten

\* sectorHashFor: from the block's hash sector once the block is complete,
\* else from memory; NoHash when memory has no hash for the sector.
sectorHashFor(i) ==
    LET block == i \div HashesPerBlock
        pos   == i % HashesPerBlock
    IN  IF sealed >= (block + 1) * BlockUnits
        THEN LET h == SectorAt(hashSectorPhys(block))
             IN  IF h.kind = "hash" /\ h.block = block THEN h.hashes[pos + 1] ELSE Bitrot
        ELSE IF pos + 1 > Len(hashes) THEN NoHash ELSE hashes[pos + 1]

\* readLocked of one sector: its units, or Bitrot for ErrBitrot.
ReadSector(i) ==
    IF i * SectorUnits >= sealed
    THEN IF bufCorrupt THEN Bitrot ELSE buf
    ELSE LET bytes    == Bytes(SectorAt(CalcPhysical(i)))
             expected == sectorHashFor(i)
         IN  IF expected = Bitrot \/ (expected # NoHash /\ expected # bytes) THEN Bitrot ELSE bytes

Holding(units) == (units + SectorUnits - 1) \div SectorUnits

\* readLocked(offset, length): Bitrot when any sector it touches is.
ReadRange(from, to) ==
    LET touched == {i \in 0 .. Holding(to) - 1 : (i + 1) * SectorUnits > from}
    IN  IF to > logicalLength \/ \E i \in touched : ReadSector(i) = Bitrot
        THEN Bitrot
        ELSE [k \in 1 .. to - from |->
                ReadSector((from + k - 1) \div SectorUnits)[((from + k - 1) % SectorUnits) + 1]]

-----------------------------------------------------------------------------
(* Opening: recoverFromTrailer, rebuildOpenBlock, reload.                  *)

LastOf(f) == f[Len(f)]

TrailerCount(f) == Len(LastOf(f).hashes)

\* The trailer sits one sector past the ragged edge, so its block begins
\* TrailerCount + 1 sectors before it (sectors counted past the superblock).
TrailerStart(f) == Len(f) - 2 - (TrailerCount(f) + 1)

TrailerBlock(f) == TrailerStart(f) \div (HashesPerBlock + 1)

TrailerLength(f) == TrailerBlock(f) * BlockUnits + TrailerCount(f) * SectorUnits + LastOf(f).raggedLen

\* A trailer is taken for one only at the position its own count implies.
TrailerRecognised(f) ==
    /\ Len(f) >= 3
    /\ LastOf(f).kind = "trailer"
    /\ TrailerCount(f) < HashesPerBlock
    /\ TrailerCount(f) # 0 \/ LastOf(f).raggedLen # 0
    /\ TrailerStart(f) >= 0
    /\ TrailerStart(f) % (HashesPerBlock + 1) = 0

Ragged(f) ==
    IF LastOf(f).raggedLen = 0 THEN <<>>
    ELSE SubSeq(Bytes(f[CalcPhysical(TrailerBlock(f) * HashesPerBlock + TrailerCount(f)) + 1]),
                1, LastOf(f).raggedLen)

\* Mutant: the MAC is not compared.
TrailerTrusted(f) == TRUE

TrailerIntact(f) == LastOf(f).mac = <<TrailerBlock(f), LastOf(f).hashes, Ragged(f)>>

\* recoverFromTrailer.  When the MAC is wrong and the trailer claims a ragged
\* edge, the geometry is kept and everything in the open block is refused.
recoverFromTrailer(f) ==
    /\ TrailerRecognised(f)
    /\ TrailerIntact(f) \/ LastOf(f).raggedLen > 0
    /\ logicalLength' = TrailerLength(f)
    /\ buf' = Ragged(f)
    /\ hashes' = IF TrailerIntact(f) THEN LastOf(f).hashes ELSE [i \in 1 .. TrailerCount(f) |-> Poison]
    /\ bufCorrupt' = ~TrailerIntact(f)
    /\ openUnverified' = FALSE
    /\ loadedFromTrailer' = TRUE

\* The length reload falls back to: a trailer that was recognised before its
\* MAC failed has already set the cursor.
FallbackLength(f) == IF TrailerRecognised(f) THEN TrailerLength(f) ELSE CalcLogical(Len(f))

\* Geometry without evidence: the ragged units are suspect and the sealed
\* sectors of the open block carry hashes that match nothing.
rebuildOpenBlock(f, length) ==
    LET partial == length % SectorUnits
        whole   == length - partial
    IN  /\ logicalLength' = length
        /\ buf' = IF partial = 0 THEN <<>>
                  ELSE SubSeq(Bytes(f[CalcPhysical(whole \div SectorUnits) + 1]), 1, partial)
        /\ hashes' = [i \in 1 .. (whole - BlockStart(whole)) \div SectorUnits |-> Poison]
        /\ bufCorrupt' = (partial > 0)
        /\ openUnverified' = (BlockStart(whole) < length)
        /\ loadedFromTrailer' = FALSE

reload(f) ==
    \/ recoverFromTrailer(f)
    \/ /\ ~(TrailerRecognised(f) /\ (TrailerIntact(f) \/ LastOf(f).raggedLen > 0))
       /\ rebuildOpenBlock(f, FallbackLength(f))

\* openPlogFile after restoreUndo: any image the contract allows, then reload.
Open ==
    /\ phase = "closed"
    /\ \E a \in accept :
         /\ a.image[1] = Super
         /\ file' = a.image
         /\ stream' = a.stream
         /\ accept' = {a}
         /\ reload(a.image)
    /\ phase' = "opened"
    /\ undoActive' = FALSE
    /\ undoStart' = 0
    /\ acked' = recorded
    /\ UNCHANGED <<recorded, faults, rot>>

-----------------------------------------------------------------------------
(* protectPrefixLocked: UndoJournal's saveUndo, which can fail.            *)

Protect(start) ==
    /\ undoActive' = TRUE
    /\ undoStart' = IF undoActive /\ start >= undoStart THEN undoStart ELSE start

\* TruncateTo(recorded), as ReconcileShardLengths calls it on mount.  What the
\* old evidence still proves of the retained open block is kept.
TruncateTo ==
    /\ phase = "opened"
    /\ logicalLength > recorded
    /\ LET start    == BlockStart(recorded)
           verified == ReadRange(start, recorded)
           shorter  == WriteAt(SubSeq(file, 1, CalcPhysical(recorded \div SectorUnits)),
                               CalcPhysical(recorded \div SectorUnits),
                               IF recorded % SectorUnits = 0 THEN <<>>
                               ELSE <<DataSector(SubSeq(Bytes(file[CalcPhysical(recorded \div SectorUnits) + 1]),
                                                        1, recorded % SectorUnits))>>)
       IN  /\ Protect(BlockPhysical(recorded))
           /\ file' = shorter
           /\ IF verified = Bitrot
              THEN rebuildOpenBlock(shorter, recorded)
              ELSE LET whole == (recorded - start) \div SectorUnits
                   IN  /\ logicalLength' = recorded
                       /\ hashes' = [i \in 1 .. whole |->
                                       SubSeq(verified, (i - 1) * SectorUnits + 1, i * SectorUnits)]
                       /\ buf' = SubSeq(verified, whole * SectorUnits + 1, Len(verified))
                       /\ bufCorrupt' = FALSE
                       /\ openUnverified' = FALSE
                       /\ loadedFromTrailer' = TRUE
    /\ stream' = SubSeq(stream, 1, recorded)
    /\ phase' = "reconciled"
    /\ UNCHANGED <<accept, acked, recorded, faults, rot>>

\* Nothing to truncate.
TruncateToSame ==
    /\ phase = "opened"
    /\ logicalLength = recorded
    /\ phase' = "reconciled"
    /\ UNCHANGED <<file, accept, undoVars, plogVars, stream, acked, recorded, faults, rot>>

\* RecoverHashes: a sector of the open block is believed when catalog records
\* cover all of it and each of them validates.  live is what the catalog covers.
Validates(i, live) ==
    LET first == i * SectorUnits
        end   == IF first + SectorUnits < logicalLength THEN first + SectorUnits ELSE logicalLength
        bytes == Bytes(file[CalcPhysical(i) + 1])
    IN  \A k \in first .. end - 1 : k \in live /\ k < Len(stream) /\ bytes[k - first + 1] = stream[k + 1]

RecoverHashes ==
    /\ phase = "reconciled"
    /\ phase' = "mounted"
    /\ IF loadedFromTrailer
       THEN UNCHANGED plogVars
       ELSE \E live \in SUBSET (0 .. recorded - 1) :
              LET whole   == (logicalLength \div SectorUnits) * SectorUnits
                  first   == BlockStart(whole) \div SectorUnits
                  ragged  == logicalLength % SectorUnits > 0
                  open    == first .. Holding(logicalLength) - 1
                  proven  == {i \in open : Validates(i, live)}
              IN  /\ hashes' = [k \in 1 .. whole \div SectorUnits - first |->
                                   IF first + k - 1 \in proven
                                   THEN Bytes(file[CalcPhysical(first + k - 1) + 1]) ELSE Poison]
                  /\ bufCorrupt' = (ragged /\ whole \div SectorUnits \notin proven)
                  /\ buf' = IF ragged /\ whole \div SectorUnits \in proven
                            THEN SubSeq(Bytes(file[CalcPhysical(whole \div SectorUnits) + 1]), 1, logicalLength % SectorUnits)
                            ELSE buf
                  /\ openUnverified' = (proven # open)
                  /\ UNCHANGED <<logicalLength, loadedFromTrailer>>
    /\ UNCHANGED <<file, accept, undoVars, stream, acked, recorded, faults, rot>>

-----------------------------------------------------------------------------
(* Appending: EnsureAppend and writeLocked.                                *)

\* The sectors a sealing write emits from physical sector first on, with the
\* hash sector of every block it completes.
SealedSectors(units, firstSector) ==
    LET n        == Len(units) \div SectorUnits
        last     == firstSector + n - 1
        contents == [i \in firstSector .. last |->
                       SubSeq(units, (i - firstSector) * SectorUnits + 1, (i - firstSector + 1) * SectorUnits)]
        hashOf(i) == IF i >= firstSector THEN contents[i] ELSE hashes[(i % HashesPerBlock) + 1]
        from     == CalcPhysical(firstSector)
        to       == CalcPhysical(last) + (IF (last + 1) % HashesPerBlock = 0 THEN 1 ELSE 0)
    IN  [k \in 1 .. to - from + 1 |->
           LET q     == from + k - 2             \* zero-based, past the superblock
               block == q \div (HashesPerBlock + 1)
               pos   == q % (HashesPerBlock + 1)
           IN  IF pos = HashesPerBlock
               THEN HashSector(block, [i \in 1 .. HashesPerBlock |-> hashOf(block * HashesPerBlock + i - 1)])
               ELSE DataSector(contents[block * HashesPerBlock + pos])]

\* Mutant: completing a block does not clear its hashes.
HashesKept(units, firstSector) ==
    hashes \o [k \in 1 .. Len(units) \div SectorUnits |->
                  SubSeq(units, (k - 1) * SectorUnits + 1, k * SectorUnits)]

\* The hashes left in memory: those of the block that is open afterwards.
HashesAfter(units, firstSector) ==
    LET n     == Len(units) \div SectorUnits
        open  == ((firstSector + n) \div HashesPerBlock) * HashesPerBlock
    IN  [k \in 1 .. firstSector + n - open |->
           IF open + k - 1 >= firstSector
           THEN SubSeq(units, (open + k - 1 - firstSector) * SectorUnits + 1, (open + k - firstSector) * SectorUnits)
           ELSE hashes[k]]

\* EnsureAppend(offset, data): the part already present must match, the rest
\* goes to writeLocked.
Remainder(offset, data) == SubSeq(data, logicalLength - offset + 1, Len(data))

Appendable(offset, data) ==
    /\ phase = "mounted"
    /\ offset <= logicalLength
    /\ offset + Len(data) > logicalLength
    /\ offset < logicalLength =>
         LET existing == ReadRange(offset, logicalLength)
         IN  existing # Bitrot /\ existing = SubSeq(data, 1, logicalLength - offset)
    /\ ~bufCorrupt /\ ~openUnverified
    /\ offset + Len(data) <= MaxUnits

\* The rest fits in the open sector: nothing reaches the file.
AppendBuffered(offset, data) ==
    /\ Appendable(offset, data)
    /\ Len(buf) + Len(Remainder(offset, data)) < SectorUnits
    /\ buf' = buf \o Remainder(offset, data)
    /\ logicalLength' = logicalLength + Len(Remainder(offset, data))
    /\ stream' = SubSeq(stream, 1, offset) \o data
    /\ UNCHANGED <<file, accept, phase, undoVars, hashes, bufCorrupt, openUnverified,
                   loadedFromTrailer, acked, recorded, faults, rot>>

AppendSealing(offset, data) ==
    /\ Appendable(offset, data)
    /\ Len(buf) + Len(Remainder(offset, data)) >= SectorUnits
    /\ Protect(BlockPhysical(logicalLength))
    /\ LET units == buf \o Remainder(offset, data)
           first == sealed \div SectorUnits
           out   == SealedSectors(units, first)
           n     == Len(units) \div SectorUnits
       IN  \/ /\ file' = WriteAt(file, CalcPhysical(first), out)
              /\ hashes' = HashesAfter(units, first)
              /\ buf' = SubSeq(units, n * SectorUnits + 1, Len(units))
              /\ logicalLength' = logicalLength + Len(Remainder(offset, data))
              /\ stream' = SubSeq(stream, 1, offset) \o data
              /\ UNCHANGED faults
           \* The write fails part way: the cursor is rolled back, the file is not.
           \/ /\ Fault
              /\ \E m \in 0 .. Len(out) : file' = WriteAt(file, CalcPhysical(first), SubSeq(out, 1, m))
              /\ UNCHANGED <<hashes, buf, logicalLength, stream>>
    /\ UNCHANGED <<accept, phase, bufCorrupt, openUnverified, loadedFromTrailer, acked, recorded, rot>>

-----------------------------------------------------------------------------
(* Commit.                                                                 *)

wroteTrailer == Len(hashes) > 0 \/ Len(buf) > 0

\* Mutant: the file is not cut after the trailer.
CommitWritesUncut ==
    LET first  == CalcPhysical(sealed \div SectorUnits)
        ragged == IF Len(buf) > 0 THEN WriteAt(file, first, <<DataSector(buf)>>) ELSE file
        ended  == IF wroteTrailer
                  THEN WriteAt(ragged, first + 1, <<Trailer(sealed \div BlockUnits, hashes, buf)>>)
                  ELSE ragged
    IN  <<ragged, ended, ended>>

\* The ragged edge, the trailer, and the truncation to the exact end.
CommitWrites ==
    LET first  == CalcPhysical(sealed \div SectorUnits)
        ragged == IF Len(buf) > 0 THEN WriteAt(file, first, <<DataSector(buf)>>) ELSE file
        ended  == IF wroteTrailer
                  THEN WriteAt(ragged, first + 1, <<Trailer(sealed \div BlockUnits, hashes, buf)>>)
                  ELSE ragged
    IN  <<ragged, ended, TruncateFile(ended, IF wroteTrailer THEN first + 2 ELSE CalcPhysical(logicalLength \div SectorUnits))>>

CommitPrepare ==
    /\ phase = "mounted"
    /\ ~bufCorrupt /\ ~openUnverified
    /\ IF wroteTrailer THEN Protect(BlockPhysical(sealed)) ELSE UNCHANGED undoVars
    /\ \/ file' = CommitWrites[3] /\ phase' = "committing" /\ UNCHANGED faults
       \/ Fault /\ (\E k \in 1 .. 2 : file' = CommitWrites[k]) /\ UNCHANGED phase
    /\ UNCHANGED <<accept, plogVars, stream, acked, recorded, rot>>

\* commitUndo's fsync.
CommitPersist ==
    /\ phase = "committing"
    /\ phase' = "persisted"
    /\ accept' = accept \cup {[image |-> file, stream |-> stream]}
    /\ UNCHANGED <<file, undoVars, plogVars, stream, acked, recorded, faults, rot>>

\* Mutant: Commit succeeds without its fsync.
CommitAcknowledgeEarly ==
    /\ phase \in {"committing", "persisted"}
    /\ phase' = "mounted"
    /\ accept' = {[image |-> file, stream |-> stream]}
    /\ undoActive' = FALSE
    /\ loadedFromTrailer' = (wroteTrailer \/ loadedFromTrailer)
    /\ acked' = logicalLength
    /\ UNCHANGED <<file, undoStart, logicalLength, buf, hashes, bufCorrupt, openUnverified,
                   stream, recorded, faults, rot>>

CommitAcknowledge ==
    /\ phase = "persisted"
    /\ phase' = "mounted"
    /\ accept' = {[image |-> file, stream |-> stream]}
    /\ undoActive' = FALSE
    /\ loadedFromTrailer' = (wroteTrailer \/ loadedFromTrailer)
    /\ acked' = logicalLength
    /\ UNCHANGED <<file, undoStart, logicalLength, buf, hashes, bufCorrupt, openUnverified,
                   stream, recorded, faults, rot>>

CommitFails ==
    /\ phase \in {"committing", "persisted"}
    /\ Fault
    /\ phase' = "mounted"
    /\ undoActive' = FALSE
    /\ UNCHANGED <<file, accept, undoStart, plogVars, stream, acked, recorded, rot>>

\* Mutant: the catalog records the cursor, committed or not.
RecordCursor ==
    /\ phase = "mounted"
    /\ recorded < logicalLength
    /\ recorded' = logicalLength
    /\ UNCHANGED <<file, accept, phase, undoVars, plogVars, stream, acked, faults, rot>>

\* The caller records the acknowledged prefix in the catalog (SetVlogLength).
Record ==
    /\ phase = "mounted"
    /\ recorded < acked
    /\ recorded' = acked
    /\ UNCHANGED <<file, accept, phase, undoVars, plogVars, stream, acked, faults, rot>>

-----------------------------------------------------------------------------
\* Power loss, or the server closing the plog.
Crash ==
    /\ phase # "closed"
    /\ Fault
    /\ phase' = "closed"
    /\ UNCHANGED <<file, accept, undoVars, plogVars, stream, acked, recorded, rot>>

\* A sector decays on the medium.  A trailer can also lose only its MAC.
Decay(sector) == {Rotten} \cup (IF sector.kind = "trailer" THEN {[sector EXCEPT !.mac = <<>>]} ELSE {})

Rot ==
    /\ rot < MaxRot
    /\ phase = "closed"
    /\ \E a \in accept : \E i \in 2 .. Len(a.image) : \E r \in Decay(a.image[i]) :
         accept' = {[image |-> [a.image EXCEPT ![i] = r], stream |-> a.stream]}
    /\ rot' = rot + 1
    /\ UNCHANGED <<file, phase, undoVars, plogVars, stream, acked, recorded, faults>>

Init ==
    /\ file = <<Super>>
    /\ accept = {[image |-> <<Super>>, stream |-> <<>>]}
    /\ phase = "closed"
    /\ undoActive = FALSE /\ undoStart = 0
    /\ logicalLength = 0 /\ buf = <<>> /\ hashes = <<>>
    /\ bufCorrupt = FALSE /\ openUnverified = FALSE /\ loadedFromTrailer = FALSE
    /\ stream = <<>>
    /\ acked = 0 /\ recorded = 0
    /\ faults = 0 /\ rot = 0

Appends ==
    \E n \in 1 .. MaxAppend : \E data \in [1 .. n -> Values] : \E back \in 0 .. n - 1 :
       /\ back <= logicalLength
       /\ AppendBuffered(logicalLength - back, data) \/ AppendSealing(logicalLength - back, data)

Next ==
    \/ Open \/ TruncateTo \/ TruncateToSame \/ RecoverHashes
    \/ Appends
    \/ CommitPrepare \/ CommitPersist \/ CommitAcknowledge \/ CommitFails \/ Record
    \/ Crash \/ Rot

Spec == Init /\ [][Next]_vars

-----------------------------------------------------------------------------
(* Properties.                                                             *)

\* Types of the plog's cursor, evidence flags and phases (storage/plog.go).
TypeOK ==
    /\ Len(file) >= 1
    /\ logicalLength \in 0 .. MaxUnits + BlockUnits
    /\ Len(buf) < SectorUnits
    /\ Len(hashes) < HashesPerBlock
    /\ {bufCorrupt, openUnverified, loadedFromTrailer, undoActive} \subseteq BOOLEAN
    /\ undoStart \in Nat
    /\ phase \in {"closed", "opened", "reconciled", "mounted", "committing", "persisted"}
    /\ stream \in Seq(Values)
    /\ {acked, recorded, faults, rot} \subseteq Nat

\* The units of the appended stream that sector i holds.
Truth(i) ==
    SubSeq(stream, i * SectorUnits + 1,
           IF (i + 1) * SectorUnits < Len(stream) THEN (i + 1) * SectorUnits ELSE Len(stream))

\* Whatever decayed, and whatever geometry the reload fell back to, a read
\* either fails or returns the units that were appended (readLocked,
\* recoverFromTrailer, rebuildOpenBlock, TruncateTo, RecoverHashes, and the
\* refusal of Write and Commit to bless an unproven open block).
NeverWrongBytes ==
    phase # "closed" =>
        \A i \in 0 .. Holding(logicalLength) - 1 : ReadSector(i) \in {Bitrot, Truth(i)}

\* With no decay every appended unit is readable and the length is exact, after
\* any failed append, failed Commit, crash and mount: neither a failed append's
\* suffix nor a stale trailer is ever taken for data.
IntactPlogReadable ==
    rot = 0 /\ phase # "closed" =>
        /\ logicalLength = Len(stream)
        /\ ReadRange(0, logicalLength) = stream

\* The prefix whose length the catalog records is never lost and never changes
\* (Commit before SetVlogLength, TruncateTo only down to the recorded length).
RecordedPrefixStable ==
    [][ /\ Len(stream') >= recorded
        /\ SubSeq(stream', 1, recorded) = SubSeq(stream, 1, recorded)]_vars

Sector(f, i) == IF i <= Len(f) THEN f[i] ELSE Hidden

\* No append, truncation or commit changes a sector outside the range that the
\* rollback journal covers: the assumption UndoJournal makes of its caller.
WritesStayProtected ==
    [][phase # "closed" =>
         \A i \in 1 .. (IF Len(file) > Len(file') THEN Len(file) ELSE Len(file')) :
            Sector(file', i) # Sector(file, i) => undoActive' /\ i - 1 >= undoStart']_vars

Sectors(units, macs) ==
    {Super}
      \cup [kind : {"data"}, units : [1 .. SectorUnits -> units]]
      \cup [kind : {"hash"}, block : Nat, hashes : Seq(Seq(Units))]
      \cup [kind : {"trailer"}, block : Nat, hashes : Seq(Seq(Units)), raggedLen : Nat, mac : macs]

Macs         == Nat \X Seq(Seq(Units)) \X Seq(Units)
SectorValues == Sectors(Units, Macs)

Contract == INSTANCE CommitContract
              WITH Images <- Seq(SectorValues),
                   open   <- phase # "closed",
                   view   <- IF phase # "closed" THEN file ELSE Hidden,
                   accept <- {a.image : a \in accept}

\* Until a sector decays, the plog changes its file only as the contract allows, so
\* what UndoJournal guarantees is what the plog relies on when it opens.
UsesContract ==
    /\ Contract!ContractInit
    /\ [][rot' = 0 => [Contract!ContractNext]_(Contract!contractVars)]_vars

-----------------------------------------------------------------------------
(* The inductive invariant behind the properties above.                    *)

\* Stored, decayed or not.
Stored == Sectors(Delivered, Macs \cup {<<>>}) \cup {Rotten}

\* The whole sectors of n units, and what the sectors, the complete blocks, the
\* open block and the ragged edge of a stream hold.
Whole(n)          == n \div SectorUnits
SectorOf(s, i)    == [j \in 1 .. SectorUnits |-> s[i * SectorUnits + j]]
BlockHashes(s, b) == [k \in 1 .. HashesPerBlock |-> SectorOf(s, b * HashesPerBlock + k - 1)]
OpenHashes(s)     == [k \in 1 .. Whole(Len(s)) % HashesPerBlock |->
                         SectorOf(s, (Len(s) \div BlockUnits) * HashesPerBlock + k - 1)]
Edge(s)           == [j \in 1 .. Len(s) % SectorUnits |-> s[Whole(Len(s)) * SectorUnits + j]]

\* Whatever decayed, a complete block's hash sector is lost or tells the truth.
Honest(f, s, n) ==
    \A b \in 0 .. (n \div BlockUnits) - 1 :
        \/ hashSectorPhys(b) >= Len(f)
        \/ f[hashSectorPhys(b) + 1] = Rotten
        \/ (b + 1) * BlockUnits <= Len(s) /\ f[hashSectorPhys(b) + 1] = HashSector(b, BlockHashes(s, b))

\* Without decay the whole sectors and the hash sectors are there.
Faithful(f, s) ==
    /\ f \in Seq(SectorValues)
    /\ \A i \in 0 .. Whole(Len(s)) - 1 : f[CalcPhysical(i) + 1] = DataSector(SectorOf(s, i))
    /\ \A b \in 0 .. (Len(s) \div BlockUnits) - 1 : f[hashSectorPhys(b) + 1] = HashSector(b, BlockHashes(s, b))

TrailerOf(s) == Trailer(Len(s) \div BlockUnits, OpenHashes(s), Edge(s))

\* A committed file of which r sectors decayed: exactly as long as its stream
\* needs, and ending in the trailer unless the last block is complete.
ImageInv(f, s, r) ==
    /\ f \in Seq(Stored) /\ f[1] = Super
    /\ s \in Seq(Values) /\ Len(s) <= MaxUnits
    /\ Len(f) = CalcPhysical(Whole(Len(s))) + (IF Len(s) % BlockUnits = 0 THEN 0 ELSE 2)
    /\ Honest(f, s, Len(s))
    /\ Len(s) % BlockUnits # 0 => LastOf(f) \in {Rotten, TrailerOf(s), [TrailerOf(s) EXCEPT !.mac = <<>>]}
    /\ r = 0 => /\ Faithful(f, s)
                /\ Len(s) % BlockUnits # 0 => LastOf(f) = TrailerOf(s)
                /\ Len(s) % SectorUnits # 0 => f[CalcPhysical(Whole(Len(s))) + 1] = DataSector(Edge(s))

\* What an open may show: committed files that agree on the acknowledged prefix.
AcceptInv ==
    /\ recorded <= acked /\ acked <= Len(stream)
    /\ \A a \in accept : /\ ImageInv(a.image, a.stream, rot)
                          /\ acked <= Len(a.stream)
                          /\ \A k \in 1 .. acked : a.stream[k] = stream[k]

\* The cursor: exact, except that a reload which has lost its trailer counts whole
\* sectors until TruncateTo.  The file reaches as far as the cursor.
CursorInv ==
    /\ \/ logicalLength = Len(stream)
       \/ phase = "opened" /\ rot > 0 /\ logicalLength > Len(stream) /\ logicalLength % SectorUnits = 0
    /\ Len(stream) <= MaxUnits
    /\ Len(file) >= CalcPhysical(Whole(Len(stream)))
    /\ phase = "reconciled" /\ logicalLength % SectorUnits # 0 => Len(file) > CalcPhysical(Whole(logicalLength))

\* The evidence in memory: hashes match nothing or are true, and all of it is true
\* unless a flag says otherwise.
EvidenceInv ==
    /\ buf \in Seq(Delivered) /\ Len(buf) = logicalLength % SectorUnits
    /\ hashes \in Seq(Seq(Units) \cup {Poison}) /\ Len(hashes) = Whole(logicalLength) % HashesPerBlock
    /\ \A k \in 1 .. Len(hashes) :
          LET i == (logicalLength \div BlockUnits) * HashesPerBlock + k - 1
          IN  hashes[k] = Poison \/ ((i + 1) * SectorUnits <= Len(stream) /\ hashes[k] = SectorOf(stream, i))
    /\ ~bufCorrupt => \A j \in 1 .. Len(buf) : buf[j] = stream[Whole(logicalLength) * SectorUnits + j]
    /\ ~bufCorrupt /\ ~openUnverified => \A k \in 1 .. Len(hashes) : hashes[k] # Poison

\* The file: true hash sectors; true everything without decay; a committed image
\* before TruncateTo and while a commit is under way.
FileInv ==
    /\ file \in Seq(Stored) /\ file[1] = Super
    /\ Honest(file, stream, logicalLength)
    /\ phase \in {"opened", "committing", "persisted"} => ImageInv(file, stream, rot)
    /\ phase = "persisted" => [image |-> file, stream |-> stream] \in accept
    /\ rot = 0 => /\ Faithful(file, stream) /\ ~bufCorrupt /\ ~openUnverified
                  /\ phase \in {"opened", "reconciled"} /\ ~loadedFromTrailer => logicalLength % BlockUnits = 0

\* The journal covers everything from the cursor on, or nothing needs covering.
UndoInv ==
    /\ undoActive => undoStart <= CalcPhysical(Whole(logicalLength))
    /\ ~undoActive /\ logicalLength % BlockUnits = 0 => Len(file) <= CalcPhysical(Whole(logicalLength))

PlogInv ==
    /\ TypeOK
    /\ rot <= MaxRot
    /\ AcceptInv
    /\ phase # "closed" => CursorInv /\ EvidenceInv /\ FileInv /\ UndoInv
    /\ phase \in {"opened", "reconciled"} => acked = recorded
=============================================================================
