------------------------------ MODULE WriteCache ------------------------------
(***************************************************************************)
(* One write handle's cache (server/writecache.go) and its driver in       *)
(* server/api.go: writes at any offset coalesce into spans of pending      *)
(* bytes over a version of chunks, a long dirty prefix is spilled to       *)
(* durable chunks, truncation clips both, and Flush and Close splice the   *)
(* pieces into the chunk list of the next version.                         *)
(*                                                                         *)
(* Handlers of one handle hold its stateMu and the operation's lock, so    *)
(* they do not interleave; the loops of spillCache and finalizeCache are   *)
(* steps of their own.  A list of chunks is the bytes it holds and the     *)
(* offsets where its chunks end: storeChunks and readChunksAt are external *)
(* and keep content, and the places where FastCDC cuts are any at all.  A  *)
(* byte is <<call, i>>, the i-th byte of the write that sent it, so no two *)
(* bytes a client sends are alike.                                         *)
(*                                                                         *)
(* The variable content is what a plain file would hold after the same     *)
(* calls and saved what it held at the last publication.                   *)
(***************************************************************************)
EXTENDS Integers, Sequences, FiniteSets, FiniteSetsExt, Functions

CONSTANTS SpillThreshold,  \* spillThreshold, in bytes
          SpillCarry,      \* spillCarry, in bytes
          MaxBase,         \* bound: length of the version first opened
          MaxWrite,        \* bound: length of one write
          MaxLength,       \* bound: logical length of the file
          MaxCalls,        \* bound: writes, truncations and publications
          MaxFaults        \* bound: failing reads and stores

ASSUME CarryAssumption  == /\ SpillThreshold \in Nat \ {0}
                           /\ SpillCarry \in 1..SpillThreshold
ASSUME BoundsAssumption == /\ {MaxBase, MaxWrite, MaxLength, MaxCalls, MaxFaults} \subseteq Nat
                           /\ MaxBase <= MaxLength

VARIABLES file,                      \* chunks of the version the path names
          open, writing,             \* the handle and its operation (writeOpID # 0)
          phase, result,             \* the call under way and finalizeCache's result
          base, baseLen, settled, settledLen, length, spans,   \* writeCache
          content, saved, tainted,   \* history
          calls, faults

handleVars  == <<open, writing, phase, result>>
cacheVars   == <<base, baseLen, settled, settledLen, length, spans>>
historyVars == <<content, saved, tainted>>
vars        == <<file, handleVars, cacheVars, historyVars, calls, faults>>

Zero        == <<>>
Byte        == {Zero} \cup (Nat \X Nat)
Data(k, n)  == [i \in 1..n |-> <<k, i>>]
Lower(a, b)  == IF a <= b THEN a ELSE b
Higher(a, b) == IF a >= b THEN a ELSE b

Span(start, data) == [start |-> start, data |-> data]
End(sp)           == sp.start + Len(sp.data)

\* Lists of chunks: what they hold and where each chunk ends.
Chunks(bytes, ends) == [bytes |-> bytes, ends |-> ends]
NoChunks            == Chunks(<<>>, {})
Size(list)          == Len(list.bytes)
Joined(a, b)        == Chunks(a.bytes \o b.bytes, a.ends \cup {Size(a) + e : e \in b.ends})
IsChunk(list, s, e) == /\ s \in {0} \cup list.ends /\ e \in list.ends /\ s < e
                       /\ \A x \in list.ends : x <= s \/ x >= e

\* storeChunks: FastCDC tiles the window exactly, wherever it cuts.
Tilings(data) == {Chunks(data, cuts \cup ({Len(data)} \ {0})) : cuts \in SUBSET (1..Len(data) - 1)}

\* The spans over one offset; the copies go in order, so a later span wins.
Covers(sp, off)    == sp.start <= off /\ off < End(sp)
Covering(off)      == {i \in DOMAIN spans : Covers(spans[i], off)}
ByteOf(sp, off)    == sp.data[off - sp.start + 1]

\* readLocked: pending bytes over the settled prefix over the base, and zeros.
ReadByte(off) ==
    IF Covering(off) # {} THEN ByteOf(spans[Max(Covering(off))], off)
    ELSE IF off < settledLen THEN settled.bytes[off + 1]
    ELSE IF off < baseLen THEN base.bytes[off + 1]
    ELSE Zero
ReadAt(from, to) == [i \in 1..(to - from) |-> ReadByte(from + i - 1)]
View == ReadAt(0, length)

-----------------------------------------------------------------------------
(* writeLocked *)

\* The plain file: data over whatever is there, and zeros in between.
Overlaid(bytes, off, data) ==
    IF data = <<>> THEN bytes
    ELSE [i \in 1..Higher(off + Len(data), Len(bytes)) |->
             IF i > off /\ i <= off + Len(data) THEN data[i - off]
             ELSE IF i <= Len(bytes) THEN bytes[i]
             ELSE Zero]

\* The span that a write starting at off lands in or extends, if the loop of the
\* fast path stops at one.
Reached(off)       == {i \in DOMAIN spans : End(spans[i]) >= off}
InPlace(off, data) == /\ Reached(off) # {}
                      /\ LET i == Min(Reached(off))
                         IN  /\ spans[i].start <= off
                             /\ i < Len(spans) => spans[i + 1].start > off + Len(data)

Extended(off, data) ==
    LET i == Min(Reached(off))
    IN  [spans EXCEPT ![i].data = Overlaid(@, off - spans[i].start, data)]

\* The slow path: the touched spans and the data become one span, the data on top.
Touched(off, data)   == {i \in DOMAIN spans : End(spans[i]) >= off /\ spans[i].start <= off + Len(data)}
MergeFrom(off, data) == Min({off} \cup {spans[i].start : i \in Touched(off, data)})
MergeTo(off, data)   == Max({off + Len(data)} \cup {End(spans[i]) : i \in Touched(off, data)})

MergedByte(off, data, x) ==
    LET under == Touched(off, data) \cap Covering(x)
    IN  IF off <= x /\ x < off + Len(data) THEN data[x - off + 1]
        ELSE IF under # {} THEN ByteOf(spans[Max(under)], x)
        ELSE Zero

Merged(off, data) ==
    Span(MergeFrom(off, data),
         [k \in 1..(MergeTo(off, data) - MergeFrom(off, data)) |->
             MergedByte(off, data, MergeFrom(off, data) + k - 1)])

\* Mutant: the spans that were merged are kept below the merged one.
CoalescedKept(off, data) == {Append(spans, Merged(off, data))}

\* The spans apart and the merged one (index 0) in the order of their starts;
\* sort.Slice leaves equal starts in any order.
Pieces(off, data)   == {0} \cup (DOMAIN spans \ Touched(off, data))
Piece(i, off, data) == IF i = 0 THEN Merged(off, data) ELSE spans[i]
Coalesced(off, data) ==
    LET count == Cardinality(Pieces(off, data))
    IN  {[k \in 1..count |-> Piece(m[k], off, data)] :
            m \in {m \in Bijection(1..count, Pieces(off, data)) :
                     \A a, b \in 1..count : a < b => Piece(m[a], off, data).start <= Piece(m[b], off, data).start}}

WriteSpans(off, data) ==
    IF data = <<>> THEN {spans}
    ELSE IF InPlace(off, data) THEN {Extended(off, data)}
    ELSE Coalesced(off, data)

\* writeHandle: the cache takes the bytes, then spillCache runs.
Write(off, n) ==
    /\ open /\ phase = "idle" /\ calls < MaxCalls
    /\ off + n <= MaxLength
    /\ LET data == Data(calls + 1, n)
       IN  /\ spans'   \in WriteSpans(off, data)
           /\ length'  = IF n > 0 THEN Higher(length, off + n) ELSE length
           /\ content' = Overlaid(content, off, data)
    /\ phase'   = "spilling"
    /\ writing' = TRUE
    /\ calls'   = calls + 1
    /\ UNCHANGED <<file, open, result, base, baseLen, settled, settledLen, saved, tainted, faults>>

-----------------------------------------------------------------------------
(* spillCache *)

\* spillPrefix: how much of the dirty prefix goes, 0 for none.
SpillLength ==
    IF spans # <<>> /\ spans[1].start = settledLen /\ Len(spans[1].data) > SpillThreshold
    THEN Len(spans[1].data) - SpillCarry
    ELSE 0

\* storeChunks and commitSpill.
Spill ==
    /\ phase = "spilling" /\ SpillLength > 0
    /\ \E stored \in Tilings(SubSeq(spans[1].data, 1, SpillLength)) : settled' = Joined(settled, stored)
    /\ settledLen' = settledLen + SpillLength
    /\ spans' = [spans EXCEPT ![1] = Span(@.start + SpillLength, SubSeq(@.data, SpillLength + 1, Len(@.data)))]
    /\ UNCHANGED <<file, handleVars, base, baseLen, length, historyVars, calls, faults>>

\* storeChunks fails and the write is refused; its bytes stay in the cache.
SpillFails ==
    /\ phase = "spilling" /\ SpillLength > 0
    /\ faults < MaxFaults
    /\ phase'  = "idle"
    /\ faults' = faults + 1
    /\ UNCHANGED <<file, open, writing, result, cacheVars, historyVars, calls>>

WriteReturns ==
    /\ phase = "spilling" /\ SpillLength = 0
    /\ phase' = "idle"
    /\ UNCHANGED <<file, open, writing, result, cacheVars, historyVars, calls, faults>>

-----------------------------------------------------------------------------
(* Truncate *)

\* The clipped spans of a set of indices, in order.
Clip(sp, n) == Span(sp.start, SubSeq(sp.data, 1, Lower(Len(sp.data), n - sp.start)))
ClippedTo(kept, n) ==
    {[k \in 1..Cardinality(kept) |-> Clip(spans[m[k]], n)] :
        m \in {m \in Bijection(1..Cardinality(kept), kept) :
                 \A a, b \in 1..Cardinality(kept) : a < b => m[a] < m[b]}}

\* Mutant: a span that begins at the new end stays, without bytes.
ClippedAtEnd(n) == ClippedTo({i \in DOMAIN spans : spans[i].start <= n}, n)

Clipped(n) == ClippedTo({i \in DOMAIN spans : spans[i].start < n}, n)

\* The whole settled chunks within n bytes, and the head of the one that n cuts.
Kept(n)        == Max({0} \cup {e \in settled.ends : e <= n})
WholeChunks(n) == Chunks(SubSeq(settled.bytes, 1, Kept(n)), {e \in settled.ends : e <= n})

\* Mutant: the head of the cut chunk is dropped with it.
CutHeadDropped(n) == <<>>

CutHead(n) == IF Kept(n) < n THEN <<Span(Kept(n), SubSeq(settled.bytes, Kept(n) + 1, n))>> ELSE <<>>

\* A pending write overlaps the head that CutHead brings back below it.
CutsUnderWrites(n) == settledLen > n /\ \E off \in Kept(n)..(n - 1) : Covering(off) # {}

Truncate(n) ==
    /\ open /\ phase = "idle" /\ calls < MaxCalls
    /\ length'  = n
    /\ baseLen' = Lower(baseLen, n)
    /\ \E below \in Clipped(n) :
           IF settledLen > n
           THEN /\ spans'      = CutHead(n) \o below
                /\ settled'    = WholeChunks(n)
                /\ settledLen' = Kept(n)
           ELSE /\ spans' = below
                /\ UNCHANGED <<settled, settledLen>>
    /\ content' = [i \in 1..n |-> IF i <= Len(content) THEN content[i] ELSE Zero]
    /\ tainted' = (tainted \/ CutsUnderWrites(n))
    /\ writing' = TRUE
    /\ calls'   = calls + 1
    /\ UNCHANGED <<file, open, phase, result, base, saved, faults>>

\* The settled head cannot be read: length, baseLen and the spans are clipped
\* already, the settled prefix is not.
TruncateFails(n) ==
    /\ open /\ phase = "idle" /\ calls < MaxCalls /\ faults < MaxFaults
    /\ settledLen > n /\ CutHead(n) # <<>>
    /\ length'  = n
    /\ baseLen' = Lower(baseLen, n)
    /\ spans'   \in Clipped(n)
    /\ tainted' = TRUE
    /\ writing' = TRUE
    /\ calls'   = calls + 1
    /\ faults'  = faults + 1
    /\ UNCHANGED <<file, open, phase, result, base, settled, settledLen, content, saved>>

-----------------------------------------------------------------------------
(* finalizeCache and finishHandle *)

Position == Size(result)

\* The base chunks that no pending byte, spill or truncation touches.
Clean(s, e) == /\ IsChunk(base, s, e)
               /\ s >= settledLen /\ e <= baseLen
               /\ \A i \in DOMAIN spans : spans[i].start >= e \/ End(spans[i]) <= s

CleanStarts == {s \in {0} \cup base.ends : \E e \in base.ends : Clean(s, e)}

\* Mutant: the window runs to the end of the file.
WindowToEnd == length

\* The end of the dirty window at the position: the next clean chunk, or the end.
WindowEnd == LET next == {s \in CleanStarts : s > Position}
             IN  IF next = {} THEN length ELSE Min(next)

\* finishHandle of a handle with an operation.
Finish ==
    /\ open /\ writing /\ phase = "idle" /\ calls < MaxCalls
    /\ phase'   = "finalizing"
    /\ result'  = settled
    /\ tainted' = (tainted \/ \E i \in DOMAIN spans : spans[i].start < settledLen)
    /\ calls'   = calls + 1
    /\ UNCHANGED <<file, open, writing, cacheVars, content, saved, faults>>

BaseChunk(s, e) == Chunks(SubSeq(base.bytes, s + 1, e), {e - s})

\* Mutant: any base chunk at the position is reused, written over or cut or not.
ReuseDirty(e) ==
    /\ phase = "finalizing" /\ Position < length
    /\ IsChunk(base, Position, e)
    /\ result' = Joined(result, BaseChunk(Position, e))
    /\ UNCHANGED <<file, open, writing, phase, cacheVars, historyVars, calls, faults>>

Reuse(e) ==
    /\ phase = "finalizing" /\ Position < length
    /\ Clean(Position, e)
    /\ result' = Joined(result, BaseChunk(Position, e))
    /\ UNCHANGED <<file, open, writing, phase, cacheVars, historyVars, calls, faults>>

Rechunk ==
    /\ phase = "finalizing" /\ Position < length
    /\ Position \notin CleanStarts
    /\ LET to == Lower(WindowEnd, Position + SpillThreshold)
       IN  \E stored \in Tilings(ReadAt(Position, to)) : result' = Joined(result, stored)
    /\ UNCHANGED <<file, open, writing, phase, cacheVars, historyVars, calls, faults>>

\* finalizeCache or the publication fails: the call is refused, the cache as it was.
FinishFails ==
    /\ phase = "finalizing" /\ faults < MaxFaults
    /\ phase'  = "idle"
    /\ result' = NoChunks
    /\ faults' = faults + 1
    /\ UNCHANGED <<file, open, writing, cacheVars, historyVars, calls>>

\* newWriteCache over the chunks of a version.
FreshCache(chunks) ==
    /\ base' = chunks /\ baseLen' = Size(chunks) /\ length' = Size(chunks)
    /\ settled' = NoChunks /\ settledLen' = 0 /\ spans' = <<>>

\* publishPreparedVersion, then FlushHandle keeps the handle on the new version and
\* Close removes it.
Publish(remove) ==
    /\ phase = "finalizing" /\ Position >= length
    /\ file'    = result
    /\ saved'   = content
    /\ result'  = NoChunks
    /\ phase'   = "idle"
    /\ open'    = ~remove
    /\ writing' = FALSE
    /\ FreshCache(result)
    /\ UNCHANGED <<content, tainted, calls, faults>>

\* Open loads the committed version; with an operation key it begins an operation.
Open(keyed) ==
    /\ ~open
    /\ open'    = TRUE
    /\ writing' = keyed
    /\ FreshCache(file)
    /\ UNCHANGED <<file, phase, result, historyVars, calls, faults>>

\* AbortHandle, a crash, and Close of a handle without an operation.
DropHandle ==
    /\ open /\ phase = "idle"
    /\ open'    = FALSE
    /\ writing' = FALSE
    /\ content' = saved
    /\ FreshCache(file)
    /\ UNCHANGED <<file, phase, result, saved, tainted, calls, faults>>

-----------------------------------------------------------------------------
Init ==
    /\ \E n \in 0..MaxBase :
           /\ file \in Tilings(Data(0, n))
           /\ baseLen = n /\ length = n /\ content = Data(0, n)
    /\ saved = content /\ base = file
    /\ settled = NoChunks /\ settledLen = 0 /\ spans = <<>>
    /\ open = FALSE /\ writing = FALSE /\ phase = "idle" /\ result = NoChunks
    /\ tainted = FALSE /\ calls = 0 /\ faults = 0

Next ==
    \/ \E off \in 0..MaxLength, n \in 0..MaxWrite : Write(off, n)
    \/ Spill \/ SpillFails \/ WriteReturns
    \/ \E n \in 0..MaxLength : Truncate(n)
    \/ \E n \in 0..MaxLength : TruncateFails(n)
    \/ Finish \/ \E e \in base.ends : Reuse(e)
    \/ Rechunk \/ FinishFails
    \/ \E remove \in BOOLEAN : Publish(remove)
    \/ \E keyed \in BOOLEAN : Open(keyed)
    \/ DropHandle

Spec == Init /\ [][Next]_vars

-----------------------------------------------------------------------------
\* Lengths are those of the lists they describe, and what is spilled reaches no
\* further than the pending prefix ever did.
ChunkLists ==
    {list \in [bytes : Seq(Byte), ends : SUBSET (1..MaxLength)] :
        /\ Size(list) <= MaxLength
        /\ \A e \in list.ends : e <= Size(list)
        /\ Size(list) \in {0} \cup list.ends}

TypeOK ==
    /\ {file, base, settled, result} \subseteq ChunkLists
    /\ spans \in Seq([start : Nat, data : Seq(Byte) \ {<<>>}])
    /\ \A i \in DOMAIN spans : End(spans[i]) <= length
    /\ length \in 0..MaxLength
    /\ settledLen = Size(settled)
    /\ baseLen \in 0..Lower(length, Size(base))
    /\ open \in BOOLEAN /\ writing \in BOOLEAN /\ phase \in {"idle", "spilling", "finalizing"}
    /\ phase # "idle" => open
    /\ content \in Seq(Byte) /\ saved \in Seq(Byte)
    /\ tainted \in BOOLEAN
    /\ calls \in 0..MaxCalls /\ faults \in 0..MaxFaults

(***************************************************************************)
(* Three ways of losing bytes are in the code; tainted excuses what follows *)
(* one: finalizeCache takes the settled prefix as it is when a pending      *)
(* write lies over it; Truncate puts the head of a settled chunk below such *)
(* a write, where a later sort may bring it on top; and a Truncate that     *)
(* cannot read that head has set the length and kept the prefix.            *)
(***************************************************************************)

\* readLocked over the spans, the settled chunks and the base shows exactly the
\* bytes of the calls so far, before and after each spill, truncation and flush.
ReadYourWrites == tainted \/ (open => View = content)

\* finalizeCache's splice of settled, reused and re-chunked pieces is, byte for
\* byte, what the client had written when it was published.
SpliceExact == tainted \/ file.bytes = saved

\* writeLocked, commitSpill and Truncate keep pending spans disjoint, so no two of
\* them hold different bytes for one offset.
SpansDisjoint ==
    tainted \/ \A i, j \in DOMAIN spans : i # j => End(spans[i]) <= spans[j].start \/ End(spans[j]) <= spans[i].start

\* A base chunk that no call touched is in the new version as it was and where it
\* was: boundary shifts stay inside the dirty windows of finalizeCache.
UntouchedReused ==
    phase = "finalizing" /\ Position >= length =>
        \A s \in {0} \cup base.ends, e \in base.ends : Clean(s, e) =>
            IsChunk(result, s, e) /\ SubSeq(result.bytes, s + 1, e) = SubSeq(base.bytes, s + 1, e)

\* The pending spans are in the order of their starts, but for a head that Truncate
\* put first: it lies above the settled prefix.
SpansOrdered ==
    \A i, j \in DOMAIN spans : i < j =>
        spans[i].start < spans[j].start \/ (i = 1 /\ spans[1].start >= settledLen)

\* What is pending, settled and spliced so far agrees with the plain file.
ShowsContent ==
    /\ SpliceExact /\ SpansDisjoint /\ SpansOrdered
    /\ ~open => content = saved
    /\ length = Len(content) /\ settledLen <= length
    /\ \A off \in 0..(length - 1) : ReadByte(off) = content[off + 1]
    /\ phase = "finalizing" =>
           /\ Position <= length
           /\ \A off \in 0..(Position - 1) : result.bytes[off + 1] = content[off + 1]

\* While finalizeCache runs, a clean chunk is in the result or ahead of the position.
CleanSpliced ==
    phase = "finalizing" =>
        \A s \in {0} \cup base.ends, e \in base.ends : Clean(s, e) =>
            \/ s >= Position
            \/ /\ e <= Position /\ IsChunk(result, s, e)
               /\ SubSeq(result.bytes, s + 1, e) = SubSeq(base.bytes, s + 1, e)

\* The inductive invariant of one handle's cache: its lists and lengths agree, what
\* it shows and splices is the plain file unless bytes were lost before, and no
\* clean chunk is passed over.
CacheInv == TypeOK /\ (tainted \/ ShowsContent) /\ CleanSpliced

\* "Content priority for any logical offset, highest first: a covering span, then
\* the settled prefix": what Close and Flush publish has the same bytes.
PublishedIsWritten == file.bytes = saved
=============================================================================
