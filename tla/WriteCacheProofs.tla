--------------------------- MODULE WriteCacheProofs ---------------------------
(***************************************************************************)
(* Proofs about WriteCache: until one of the three ways of losing bytes is *)
(* taken, a handle shows and publishes exactly the bytes its client wrote, *)
(* and chunks that no call touched are spliced into the version unchanged. *)
(***************************************************************************)
EXTENDS WriteCache, SequenceTheorems, FiniteSetTheorems, WellFoundedInduction, TLAPS

-----------------------------------------------------------------------------
(* Least and greatest numbers.                                             *)

\* A set of numbers has a least one.
LEMMA LeastExists ==
    ASSUME NEW S \in SUBSET Nat, S # {}
    PROVE  \E x \in S : \A y \in S : x <= y
<1> DEFINE R == OpToRel(<, Nat)
<1>1. IsWellFoundedOn(R, Nat)
  BY NatLessThanWellFounded, Zenon
<1>2. \A x, y \in Nat : y < x => <<y, x>> \in R
  BY DEF OpToRel
<1> HIDE DEF R
<1>3. PICK x \in S : \A y \in S : ~(<<y, x>> \in R)
  BY <1>1, WFMin
<1>4. ASSUME NEW y \in S PROVE x <= y
  <2>1. x \in Nat /\ y \in Nat
    OBVIOUS
  <2>2. ~(y < x)
    BY <1>2, <1>3, <2>1
  <2> QED BY <2>1, <2>2
<1> QED BY <1>4

\* Min is the least number of a set.
LEMMA MinFacts ==
    ASSUME NEW S \in SUBSET Nat, S # {}
    PROVE  Min(S) \in S /\ Min(S) \in Nat /\ \A y \in S : Min(S) <= y
BY LeastExists DEF Min

\* Max is the greatest number of a bounded set.
LEMMA MaxFacts ==
    ASSUME NEW n \in Nat, NEW S \in SUBSET (0 .. n), S # {}
    PROVE  Max(S) \in S /\ Max(S) \in Nat /\ Max(S) <= n /\ \A y \in S : Max(S) >= y
<1> DEFINE D == {n - x : x \in S}
<1>1. D \subseteq Nat
  <2> SUFFICES ASSUME NEW d \in D PROVE d \in Nat
    OBVIOUS
  <2>1. PICK x \in S : d = n - x
    OBVIOUS
  <2>2. x \in 0 .. n
    OBVIOUS
  <2> QED BY <2>1, <2>2
<1>2. D # {}
  OBVIOUS
<1>3. PICK d \in D : \A y \in D : d <= y
  BY <1>1, <1>2, LeastExists
<1>4. PICK x \in S : d = n - x
  BY <1>3
<1>5. ASSUME NEW y \in S PROVE x >= y
  <2>1. n - y \in D
    OBVIOUS
  <2>2. d <= n - y
    BY <1>3, <2>1
  <2>3. x \in 0 .. n /\ y \in 0 .. n
    OBVIOUS
  <2> QED BY <1>4, <2>2, <2>3
<1>6. Max(S) \in S /\ \A y \in S : Max(S) >= y
  BY <1>5 DEF Max
<1>7. Max(S) \in 0 .. n
  BY <1>6
<1> QED BY <1>6, <1>7

-----------------------------------------------------------------------------
(* Sequences.                                                              *)

\* A function on 1 .. n is a sequence of length n.
LEMMA FunctionIsSequence ==
    ASSUME NEW T, NEW n \in Nat, NEW f \in [1 .. n -> T]
    PROVE  f \in Seq(T) /\ Len(f) = n
<1>1. f \in Seq(T)
  BY SeqDef
<1>2. Len(f) \in Nat /\ DOMAIN f = 1 .. Len(f)
  BY <1>1, LenProperties
<1>3. 1 .. n = 1 .. Len(f)
  BY <1>2
<1> QED
  BY <1>1, <1>2, <1>3

\* A sequence is a function, with its elements in their set.
LEMMA SequenceFacts ==
    ASSUME NEW T, NEW s \in Seq(T)
    PROVE  /\ Len(s) \in Nat /\ DOMAIN s = 1 .. Len(s) /\ s \in [1 .. Len(s) -> T]
           /\ \A i \in 1 .. Len(s) : s[i] \in T
  BY LenProperties, ElementOfSeq

\* A slice of a sequence.
LEMMA SliceFacts ==
    ASSUME NEW T, NEW s \in Seq(T), NEW m \in Nat, NEW n \in Nat, m <= n, n <= Len(s)
    PROVE  /\ SubSeq(s, m + 1, n) \in Seq(T) /\ Len(SubSeq(s, m + 1, n)) = n - m
           /\ \A i \in 1 .. n - m : SubSeq(s, m + 1, n)[i] = s[m + i]
<1> DEFINE a == m + 1
<1>1. a \in Int /\ n \in Int /\ Len(s) \in Nat /\ a <= n + 1
  BY SequenceFacts
<1>2. \A i \in a .. n : s[i] \in T
  BY SequenceFacts
<1>3. n - a + 1 = n - m /\ (a <= n \/ n - m = 0)
  OBVIOUS
<1> HIDE DEF a
<1>4. /\ SubSeq(s, a, n) \in Seq(T)
      /\ Len(SubSeq(s, a, n)) = IF a <= n THEN n - a + 1 ELSE 0
      /\ \A i \in 1 .. n - a + 1 : SubSeq(s, a, n)[i] = s[a + i - 1]
  BY <1>1, <1>2, SubSeqProperties
<1>5. Len(SubSeq(s, a, n)) = n - m
  BY <1>3, <1>4
<1>6. \A i \in 1 .. n - m : SubSeq(s, a, n)[i] = s[m + i]
  <2> TAKE i \in 1 .. n - m
  <2>1. SubSeq(s, a, n)[i] = s[a + i - 1]
    BY <1>3, <1>4
  <2>2. a + i - 1 = m + i
    BY DEF a
  <2> QED BY <2>1, <2>2
<1> QED BY <1>4, <1>5, <1>6 DEF a

\* The first n elements.
LEMMA PrefixFacts ==
    ASSUME NEW T, NEW s \in Seq(T), NEW n \in Nat, n <= Len(s)
    PROVE  /\ SubSeq(s, 1, n) \in Seq(T) /\ Len(SubSeq(s, 1, n)) = n
           /\ \A i \in 1 .. n : SubSeq(s, 1, n)[i] = s[i]
<1>1. 0 \in Nat /\ 0 <= n /\ 0 + 1 = 1 /\ n - 0 = n
  OBVIOUS
<1>2. /\ SubSeq(s, 0 + 1, n) \in Seq(T) /\ Len(SubSeq(s, 0 + 1, n)) = n - 0
      /\ \A i \in 1 .. n - 0 : SubSeq(s, 0 + 1, n)[i] = s[0 + i]
  BY <1>1, SliceFacts, Zenon
<1>3. \A i \in 1 .. n : 0 + i = i
  OBVIOUS
<1> QED BY <1>1, <1>2, <1>3

\* Two sequences, one after the other.
LEMMA ConcatFacts ==
    ASSUME NEW s \in Seq(Byte), NEW t \in Seq(Byte)
    PROVE  /\ s \o t \in Seq(Byte) /\ Len(s \o t) = Len(s) + Len(t)
           /\ \A i \in 1 .. Len(s) : (s \o t)[i] = s[i]
           /\ \A i \in 1 .. Len(t) : (s \o t)[Len(s) + i] = t[i]
<1>1. Len(s) \in Nat /\ Len(t) \in Nat
  BY SequenceFacts
<1>2. /\ s \o t \in Seq(Byte) /\ Len(s \o t) = Len(s) + Len(t)
      /\ \A i \in 1 .. Len(s) + Len(t) : (s \o t)[i] = IF i <= Len(s) THEN s[i] ELSE t[i - Len(s)]
  BY <1>1, ConcatProperties
<1>3. \A i \in 1 .. Len(s) : (s \o t)[i] = s[i]
  BY <1>1, <1>2
<1>4. \A i \in 1 .. Len(t) : (s \o t)[Len(s) + i] = t[i]
  <2> TAKE i \in 1 .. Len(t)
  <2>1. Len(s) + i \in 1 .. Len(s) + Len(t) /\ ~(Len(s) + i <= Len(s)) /\ (Len(s) + i) - Len(s) = i
    BY <1>1
  <2> QED BY <1>2, <2>1
<1> QED BY <1>2, <1>3, <1>4

-----------------------------------------------------------------------------
(* Spans and what is read through them.                                    *)

SpanRec     == [start : Nat, data : Seq(Byte) \ {<<>>}]
Apart(sps)  == \A i, j \in DOMAIN sps : i # j => End(sps[i]) <= sps[j].start \/ End(sps[j]) <= sps[i].start
InOrder(sps, len) == \A i, j \in DOMAIN sps : i < j => sps[i].start < sps[j].start \/ (i = 1 /\ sps[1].start >= len)
Over(sps, off) == {i \in DOMAIN sps : Covers(sps[i], off)}
Shown(sps, st, stLen, bs, bsLen, off) ==
    IF Over(sps, off) # {} THEN ByteOf(sps[Max(Over(sps, off))], off)
    ELSE IF off < stLen THEN st.bytes[off + 1]
    ELSE IF off < bsLen THEN bs.bytes[off + 1]
    ELSE Zero

\* A zero is a byte.
LEMMA ZeroByte == Zero \in Byte
BY DEF Byte

\* A span has a start, bytes and an end.
LEMMA SpanFacts ==
    ASSUME NEW sp \in SpanRec
    PROVE  /\ sp.start \in Nat /\ sp.data \in Seq(Byte) /\ Len(sp.data) \in Nat /\ Len(sp.data) > 0
           /\ End(sp) \in Nat /\ End(sp) = sp.start + Len(sp.data) /\ sp.start < End(sp)
<1>1. sp.start \in Nat /\ sp.data \in Seq(Byte) /\ sp.data # <<>>
  BY DEF SpanRec
<1>2. Len(sp.data) \in Nat /\ Len(sp.data) # 0
  BY <1>1, SequenceFacts, EmptySeq
<1> QED BY <1>1, <1>2 DEF End

\* A start and bytes make a span.
LEMMA SpanMade ==
    ASSUME NEW s \in Nat, NEW d \in Seq(Byte), Len(d) > 0
    PROVE  /\ Span(s, d) \in SpanRec /\ Span(s, d).start = s /\ Span(s, d).data = d
           /\ End(Span(s, d)) = s + Len(d)
<1>1. d # <<>>
  BY EmptySeq
<1> QED BY <1>1 DEF Span, SpanRec, End

\* A span has a byte for each offset it covers.
LEMMA ByteOfFacts ==
    ASSUME NEW sp \in SpanRec, NEW off \in Nat, Covers(sp, off)
    PROVE  off - sp.start + 1 \in 1 .. Len(sp.data) /\ ByteOf(sp, off) \in Byte
<1>1. /\ sp.start \in Nat /\ sp.data \in Seq(Byte) /\ Len(sp.data) \in Nat
      /\ End(sp) = sp.start + Len(sp.data)
  BY SpanFacts
<1>2. off - sp.start + 1 \in 1 .. Len(sp.data)
  BY <1>1 DEF Covers
<1>3. \A i \in 1 .. Len(sp.data) : sp.data[i] \in Byte
  BY <1>1, SequenceFacts
<1> QED BY <1>2, <1>3 DEF ByteOf

\* The elements of a list of spans.
LEMMA SpansFacts ==
    ASSUME NEW sps \in Seq(SpanRec)
    PROVE  /\ Len(sps) \in Nat /\ DOMAIN sps = 1 .. Len(sps)
           /\ \A i \in DOMAIN sps : sps[i] \in SpanRec /\ i \in Nat
BY SequenceFacts

\* Where some span covers an offset, the topmost of them does.
LEMMA TopmostCovers ==
    ASSUME NEW sps \in Seq(SpanRec), NEW off \in Nat, Over(sps, off) # {}
    PROVE  Max(Over(sps, off)) \in DOMAIN sps /\ Covers(sps[Max(Over(sps, off))], off)
<1>1. Len(sps) \in Nat /\ DOMAIN sps = 1 .. Len(sps)
  BY SpansFacts
<1>2. Over(sps, off) \in SUBSET (0 .. Len(sps))
  BY <1>1 DEF Over
<1>3. Max(Over(sps, off)) \in Over(sps, off)
  BY <1>1, <1>2, MaxFacts
<1> QED BY <1>3 DEF Over

\* Disjoint spans do not both cover an offset.
LEMMA CoverUnique ==
    ASSUME NEW sps \in Seq(SpanRec), Apart(sps), NEW off \in Nat,
           NEW i \in DOMAIN sps, Covers(sps[i], off), NEW t \in DOMAIN sps, Covers(sps[t], off)
    PROVE  t = i
<1> SUFFICES ASSUME t # i PROVE FALSE
  OBVIOUS
<1>1. End(sps[i]) <= sps[t].start \/ End(sps[t]) <= sps[i].start
  BY DEF Apart
<1>2. /\ sps[i] \in SpanRec /\ sps[t] \in SpanRec
  BY SpansFacts
<1>3. /\ sps[i].start \in Nat /\ End(sps[i]) \in Nat /\ sps[t].start \in Nat /\ End(sps[t]) \in Nat
  BY <1>2, SpanFacts
<1> QED BY <1>1, <1>3 DEF Covers

\* What is read at an offset that one of several disjoint spans covers.
LEMMA ShownCovered ==
    ASSUME NEW sps \in Seq(SpanRec), Apart(sps), NEW off \in Nat, NEW i \in DOMAIN sps, Covers(sps[i], off),
           NEW st, NEW sl, NEW bs, NEW bl
    PROVE  Shown(sps, st, sl, bs, bl, off) = ByteOf(sps[i], off)
<1> DEFINE t == Max(Over(sps, off))
<1>1. Over(sps, off) # {}
  BY DEF Over
<1>2. t \in DOMAIN sps /\ Covers(sps[t], off)
  BY <1>1, TopmostCovers
<1>3. Shown(sps, st, sl, bs, bl, off) = ByteOf(sps[t], off)
  BY <1>1 DEF Shown
<1> HIDE DEF t
<1>4. t = i
  BY <1>2, CoverUnique
<1> QED BY <1>3, <1>4

\* What is read where no span is.
LEMMA ShownUncovered ==
    ASSUME NEW sps, NEW off, \A i \in DOMAIN sps : ~Covers(sps[i], off),
           NEW st, NEW sl, NEW bs, NEW bl
    PROVE  Shown(sps, st, sl, bs, bl, off) =
               IF off < sl THEN st.bytes[off + 1] ELSE IF off < bl THEN bs.bytes[off + 1] ELSE Zero
BY DEF Shown, Over

\* What is read is a byte.
LEMMA ShownByte ==
    ASSUME NEW sps \in Seq(SpanRec), NEW off \in Nat,
           NEW st, NEW sl \in Nat, NEW bs, NEW bl \in Nat,
           st.bytes \in Seq(Byte), bs.bytes \in Seq(Byte), sl <= Len(st.bytes), bl <= Len(bs.bytes)
    PROVE  Shown(sps, st, sl, bs, bl, off) \in Byte
<1>1. CASE Over(sps, off) # {}
  <2> DEFINE t == Max(Over(sps, off))
  <2>1. t \in DOMAIN sps /\ Covers(sps[t], off)
    BY <1>1, TopmostCovers
  <2>2. sps[t] \in SpanRec
    BY <2>1, SpansFacts
  <2>3. ByteOf(sps[t], off) \in Byte
    BY <2>1, <2>2, ByteOfFacts
  <2> QED BY <1>1, <2>3 DEF Shown
<1>2. off < sl => st.bytes[off + 1] \in Byte
  <2> SUFFICES ASSUME off < sl PROVE st.bytes[off + 1] \in Byte
    OBVIOUS
  <2>1. Len(st.bytes) \in Nat /\ \A i \in 1 .. Len(st.bytes) : st.bytes[i] \in Byte
    BY SequenceFacts
  <2>2. off + 1 \in 1 .. Len(st.bytes)
    BY <2>1
  <2> QED BY <2>1, <2>2
<1>3. off < bl => bs.bytes[off + 1] \in Byte
  <2> SUFFICES ASSUME off < bl PROVE bs.bytes[off + 1] \in Byte
    OBVIOUS
  <2>1. Len(bs.bytes) \in Nat /\ \A i \in 1 .. Len(bs.bytes) : bs.bytes[i] \in Byte
    BY SequenceFacts
  <2>2. off + 1 \in 1 .. Len(bs.bytes)
    BY <2>1
  <2> QED BY <2>1, <2>2
<1>4. CASE ~(Over(sps, off) # {})
  BY <1>2, <1>3, <1>4, ZeroByte DEF Shown
<1> QED BY <1>1, <1>4

\* ReadByte is what is shown through the handle's spans.
LEMMA ReadByteShown ==
    ASSUME NEW off
    PROVE  ReadByte(off) = Shown(spans, settled, settledLen, base, baseLen, off)
BY DEF ReadByte, Shown, Covering, Over

-----------------------------------------------------------------------------
(* What a write makes of the spans.                                        *)

\* The greater and the lesser of two numbers.
LEMMA HigherLower ==
    ASSUME NEW a \in Nat, NEW b \in Nat
    PROVE  /\ Higher(a, b) \in Nat /\ Higher(a, b) >= a /\ Higher(a, b) >= b /\ Higher(a, b) \in {a, b}
           /\ Lower(a, b) \in Nat /\ Lower(a, b) <= a /\ Lower(a, b) <= b /\ Lower(a, b) \in {a, b}
BY DEF Higher, Lower

\* A write over a plain file.
LEMMA OverlaidFacts ==
    ASSUME NEW bytes \in Seq(Byte), NEW o \in Nat, NEW data \in Seq(Byte), Len(data) > 0
    PROVE  /\ Overlaid(bytes, o, data) \in Seq(Byte)
           /\ Len(Overlaid(bytes, o, data)) = Higher(o + Len(data), Len(bytes))
           /\ \A i \in 1 .. Higher(o + Len(data), Len(bytes)) :
                  Overlaid(bytes, o, data)[i] =
                      IF i > o /\ i <= o + Len(data) THEN data[i - o]
                      ELSE IF i <= Len(bytes) THEN bytes[i] ELSE Zero
<1> DEFINE n == Higher(o + Len(data), Len(bytes))
           val(i) == IF i > o /\ i <= o + Len(data) THEN data[i - o]
                     ELSE IF i <= Len(bytes) THEN bytes[i] ELSE Zero
           f == [i \in 1 .. n |-> val(i)]
<1>1. Len(data) \in Nat /\ Len(bytes) \in Nat /\ data # <<>>
  BY SequenceFacts, EmptySeq
<1>2. Overlaid(bytes, o, data) = f
  BY <1>1 DEF Overlaid
<1>3. n \in Nat
  BY <1>1 DEF Higher
<1>4. ASSUME NEW i \in 1 .. n PROVE val(i) \in Byte
  <2>1. i \in Nat /\ i >= 1
    BY <1>3
  <2>2. CASE i > o /\ i <= o + Len(data)
    <3>1. i - o \in 1 .. Len(data)
      BY <1>1, <2>1, <2>2
    <3>2. data[i - o] \in Byte
      BY <3>1, SequenceFacts
    <3> QED BY <2>2, <3>2
  <2>3. CASE ~(i > o /\ i <= o + Len(data)) /\ i <= Len(bytes)
    <3>1. i \in 1 .. Len(bytes)
      BY <1>1, <2>1, <2>3
    <3>2. bytes[i] \in Byte
      BY <3>1, SequenceFacts
    <3> QED BY <2>3, <3>2
  <2>4. CASE ~(i > o /\ i <= o + Len(data)) /\ ~(i <= Len(bytes))
    BY <2>4, ZeroByte
  <2> QED BY <2>2, <2>3, <2>4
<1> HIDE DEF n, val
<1>5. f \in [1 .. n -> Byte]
  BY <1>4
<1>6. f \in Seq(Byte) /\ Len(f) = n
  BY ONLY <1>3, <1>5, FunctionIsSequence
<1>7. \A i \in 1 .. n : f[i] = val(i)
  OBVIOUS
<1> QED BY <1>2, <1>6, <1>7 DEF n, val

\* New spans hold a write's bytes at its offsets and the old spans' bytes elsewhere.
Overlays(sps, old, off, data) ==
    \A x \in Nat :
        /\ off <= x /\ x < off + Len(data) =>
               \E j \in DOMAIN sps : Covers(sps[j], x) /\ ByteOf(sps[j], x) = data[x - off + 1]
        /\ ~(off <= x /\ x < off + Len(data)) =>
               /\ \A i \in DOMAIN old : Covers(old[i], x) =>
                      \E j \in DOMAIN sps : Covers(sps[j], x) /\ ByteOf(sps[j], x) = ByteOf(old[i], x)
               /\ (\A i \in DOMAIN old : ~Covers(old[i], x)) => \A j \in DOMAIN sps : ~Covers(sps[j], x)

\* The span that the fast path stops at.
LEMMA InPlaceFacts ==
    ASSUME spans \in Seq(SpanRec), NEW off \in Nat, NEW data \in Seq(Byte), InPlace(off, data)
    PROVE  \E i \in DOMAIN spans :
               /\ i = Min(Reached(off)) /\ End(spans[i]) >= off /\ spans[i].start <= off
               /\ \A j \in DOMAIN spans : j < i => End(spans[j]) < off
               /\ i + 1 \in DOMAIN spans => spans[i + 1].start > off + Len(data)
<1> DEFINE i == Min(Reached(off))
<1>1. Len(spans) \in Nat /\ DOMAIN spans = 1 .. Len(spans)
  BY SpansFacts
<1>2. Reached(off) \in SUBSET Nat
  BY <1>1 DEF Reached
<1>3. Reached(off) # {} /\ spans[i].start <= off /\ (i < Len(spans) => spans[i + 1].start > off + Len(data))
  BY DEF InPlace
<1>4. i \in Reached(off) /\ i \in Nat /\ \A j \in Reached(off) : i <= j
  BY <1>2, <1>3, MinFacts
<1> HIDE DEF i
<1>5. i \in DOMAIN spans /\ End(spans[i]) >= off
  BY <1>4 DEF Reached
<1>6. ASSUME NEW j \in DOMAIN spans, j < i PROVE End(spans[j]) < off
  <2>1. spans[j] \in SpanRec /\ j \in Nat
    BY SpansFacts
  <2>2. End(spans[j]) \in Nat
    BY <2>1, SpanFacts
  <2>3. ~(j \in Reached(off))
    BY <1>4, <1>6, <2>1
  <2>4. ~(End(spans[j]) >= off)
    BY <2>3 DEF Reached
  <2> QED BY <2>2, <2>4
<1>7. i + 1 \in DOMAIN spans => i < Len(spans)
  BY <1>1, <1>4
<1> QED BY <1>3, <1>5, <1>6, <1>7 DEF i

\* The span that a write within or after it makes.
LEMMA SpanExtended ==
    ASSUME NEW sp \in SpanRec, NEW off \in Nat, NEW data \in Seq(Byte), Len(data) > 0,
           End(sp) >= off, sp.start <= off,
           NEW d, d = Overlaid(sp.data, off - sp.start, data)
    PROVE  /\ Span(sp.start, d) \in SpanRec /\ End(Span(sp.start, d)) = Higher(off + Len(data), End(sp))
           /\ \A x \in Nat : Covers(Span(sp.start, d), x) =>
                  ByteOf(Span(sp.start, d), x) = IF off <= x /\ x < off + Len(data) THEN data[x - off + 1]
                                                 ELSE ByteOf(sp, x)
<1> DEFINE p == sp.start  L == Len(sp.data)  n == Len(data)  o == off - p  new == Span(p, d)
<1>1. /\ p \in Nat /\ sp.data \in Seq(Byte) /\ L \in Nat /\ L > 0 /\ End(sp) = p + L
  BY SpanFacts
<1>2. n \in Nat /\ n > 0
  BY SequenceFacts
<1>3. o = off - p /\ p + L >= off /\ p <= off
  BY <1>1
<1>4. d = Overlaid(sp.data, o, data)
  OBVIOUS
<1> HIDE DEF p, L, n, o
<1>5. o \in Nat /\ o <= L /\ off = p + o
  BY <1>1, <1>3
<1>6. /\ d \in Seq(Byte) /\ Len(d) = Higher(o + n, L)
      /\ \A k \in 1 .. Higher(o + n, L) :
             d[k] = IF k > o /\ k <= o + n THEN data[k - o]
                    ELSE IF k <= L THEN sp.data[k] ELSE Zero
  <2>1. Len(data) > 0 /\ data \in Seq(Byte) /\ sp.data \in Seq(Byte) /\ o \in Nat
    BY <1>1, <1>5
  <2>2. /\ Overlaid(sp.data, o, data) \in Seq(Byte)
        /\ Len(Overlaid(sp.data, o, data)) = Higher(o + Len(data), Len(sp.data))
        /\ \A k \in 1 .. Higher(o + Len(data), Len(sp.data)) :
               Overlaid(sp.data, o, data)[k] =
                   IF k > o /\ k <= o + Len(data) THEN data[k - o]
                   ELSE IF k <= Len(sp.data) THEN sp.data[k] ELSE Zero
    BY ONLY <2>1, OverlaidFacts
  <2> QED BY ONLY <1>4, <2>2 DEF L, n
<1>7. Len(d) \in Nat /\ Len(d) >= L /\ Len(d) > 0 /\ (Len(d) = o + n \/ Len(d) = L) /\ Len(d) >= o + n
  <2> DEFINE ld == Len(d)
  <2>1. ld = Higher(o + n, L)
    BY <1>6
  <2> HIDE DEF ld
  <2>2. ld \in Nat /\ ld >= L /\ ld > 0 /\ (ld = o + n \/ ld = L) /\ ld >= o + n
    BY ONLY <1>1, <1>2, <1>5, <2>1 DEF Higher
  <2> QED BY <2>2 DEF ld
<1>8. new \in SpanRec /\ new.start = p /\ new.data = d /\ End(new) = p + Len(d)
  <2>1. Len(d) > 0
    BY <1>7
  <2> QED BY <1>1, <1>6, <2>1, SpanMade
<1> HIDE DEF new
<1>9. End(new) = Higher(off + n, End(sp))
  BY <1>1, <1>2, <1>5, <1>6, <1>8 DEF Higher
<1>10. ASSUME NEW x \in Nat, Covers(new, x)
       PROVE  ByteOf(new, x) = IF off <= x /\ x < off + n THEN data[x - off + 1] ELSE ByteOf(sp, x)
  <2> DEFINE k == x - p + 1
  <2>1. k \in 1 .. Len(d)
    BY <1>1, <1>7, <1>8, <1>10 DEF Covers
  <2>2. ByteOf(new, x) = d[k] /\ ByteOf(sp, x) = sp.data[k]
    BY <1>8 DEF ByteOf, p
  <2>3. k \in Nat /\ x = k + p - 1 /\ k >= 1 /\ k <= Len(d)
    BY <1>1, <1>7, <2>1
  <2>4. d[k] = IF k > o /\ k <= o + n THEN data[k - o]
               ELSE IF k <= L THEN sp.data[k] ELSE Zero
    BY <1>6, <2>1
  <2> HIDE DEF k
  <2>5. CASE off <= x /\ x < off + n
    <3>1. k > o /\ k <= o + n /\ k - o = x - off + 1
      BY <1>1, <1>2, <1>5, <2>3, <2>5
    <3> QED BY <2>2, <2>4, <2>5, <3>1
  <2>6. CASE ~(off <= x /\ x < off + n)
    <3>1. ~(k > o /\ k <= o + n)
      BY <1>1, <1>2, <1>5, <2>3, <2>6
    <3>2. k <= L
      BY <1>1, <1>2, <1>5, <1>7, <2>3, <3>1
    <3> QED BY <2>2, <2>4, <2>6, <3>1, <3>2
  <2> QED BY <2>5, <2>6
<1> QED BY <1>8, <1>9, <1>10 DEF new, p, n

\* The span that a write extends, and the others as they were.
LEMMA ExtendedFacts ==
    ASSUME spans \in Seq(SpanRec), NEW off \in Nat, NEW data \in Seq(Byte), Len(data) > 0,
           NEW i \in DOMAIN spans, i = Min(Reached(off)), End(spans[i]) >= off, spans[i].start <= off,
           NEW sps, sps = Extended(off, data)
    PROVE  /\ sps \in Seq(SpanRec) /\ DOMAIN sps = DOMAIN spans
           /\ \A j \in DOMAIN spans : j # i => sps[j] = spans[j]
           /\ sps[i].start = spans[i].start /\ End(sps[i]) = Higher(off + Len(data), End(spans[i]))
           /\ \A x \in Nat : Covers(sps[i], x) =>
                  ByteOf(sps[i], x) = IF off <= x /\ x < off + Len(data) THEN data[x - off + 1]
                                      ELSE ByteOf(spans[i], x)
<1> DEFINE sp == spans[i]
           d  == Overlaid(sp.data, off - sp.start, data)
<1>1. Len(spans) \in Nat /\ DOMAIN spans = 1 .. Len(spans) /\ sp \in SpanRec /\ \A j \in DOMAIN spans : spans[j] \in SpanRec
  BY SpansFacts
<1>2. sps = [spans EXCEPT ![i].data = d]
  BY DEF Extended
<1>3. End(sp) >= off /\ sp.start <= off
  OBVIOUS
<1> HIDE DEF d
<1>4. sps[i] = [sp EXCEPT !.data = d] /\ DOMAIN sps = DOMAIN spans /\ \A j \in DOMAIN spans : j # i => sps[j] = spans[j]
  BY <1>2
<1> HIDE DEF sp
<1>5. sps[i] = Span(sp.start, d)
  <2>2. sp = [start |-> sp.start, data |-> sp.data]
    BY <1>1 DEF SpanRec
  <2> QED BY <1>4, <2>2 DEF Span
<1>6. /\ Span(sp.start, d) \in SpanRec /\ End(Span(sp.start, d)) = Higher(off + Len(data), End(sp))
      /\ \A x \in Nat : Covers(Span(sp.start, d), x) =>
             ByteOf(Span(sp.start, d), x) = IF off <= x /\ x < off + Len(data) THEN data[x - off + 1]
                                            ELSE ByteOf(sp, x)
  BY <1>1, <1>3, SpanExtended DEF d
<1>7. sps[i].start = sp.start
  BY <1>5 DEF Span
<1>8. sps \in Seq(SpanRec)
  <2>1. \A j \in 1 .. Len(spans) : sps[j] \in SpanRec
    BY <1>1, <1>4, <1>5, <1>6
  <2>2. sps \in [1 .. Len(spans) -> SpanRec]
    BY <1>1, <1>2, <1>4, <2>1
  <2> QED BY ONLY <1>1, <2>2, FunctionIsSequence
<1> QED BY <1>4, <1>5, <1>6, <1>7, <1>8 DEF sp

\* The fast path keeps the spans disjoint and in order and overlays the write.
LEMMA ExtendedOverlays ==
    ASSUME spans \in Seq(SpanRec), NEW off \in Nat, NEW data \in Seq(Byte), Len(data) > 0, InPlace(off, data),
           Apart(spans), NEW len \in Nat, InOrder(spans, len),
           NEW sps, sps = Extended(off, data)
    PROVE  Apart(sps) /\ InOrder(sps, len) /\ Overlays(sps, spans, off, data)
<1>1. PICK i \in DOMAIN spans :
          /\ i = Min(Reached(off)) /\ End(spans[i]) >= off /\ spans[i].start <= off
          /\ \A j \in DOMAIN spans : j < i => End(spans[j]) < off
          /\ i + 1 \in DOMAIN spans => spans[i + 1].start > off + Len(data)
  BY InPlaceFacts
<1>2. /\ sps \in Seq(SpanRec) /\ DOMAIN sps = DOMAIN spans
      /\ \A j \in DOMAIN spans : j # i => sps[j] = spans[j]
      /\ sps[i].start = spans[i].start /\ End(sps[i]) = Higher(off + Len(data), End(spans[i]))
      /\ \A x \in Nat : Covers(sps[i], x) =>
             ByteOf(sps[i], x) = IF off <= x /\ x < off + Len(data) THEN data[x - off + 1]
                                 ELSE ByteOf(spans[i], x)
  <2>1. /\ spans \in Seq(SpanRec) /\ off \in Nat /\ data \in Seq(Byte) /\ Len(data) > 0 /\ i \in DOMAIN spans
        /\ i = Min(Reached(off)) /\ End(spans[i]) >= off /\ spans[i].start <= off /\ sps = Extended(off, data)
    BY <1>1
  <2> QED BY ONLY <2>1, ExtendedFacts
<1> DEFINE p == spans[i].start  e == End(spans[i])  e2 == End(sps[i])  n == Len(data)
<1>3. Len(spans) \in Nat /\ DOMAIN spans = 1 .. Len(spans) /\ Len(data) \in Nat /\ i \in Nat
  BY SpansFacts, SequenceFacts
<1>4. \A j \in DOMAIN spans : /\ j \in Nat /\ spans[j].start \in Nat /\ End(spans[j]) \in Nat /\ spans[j].start < End(spans[j])
                              /\ sps[j].start = spans[j].start
  BY <1>2, SpansFacts, SpanFacts
<1>5. e2 \in Nat /\ e2 >= e /\ e2 >= off + n /\ (e2 = off + n \/ e2 = e) /\ n \in Nat /\ n > 0 /\ e \in Nat /\ p \in Nat /\ p < e /\ p <= off /\ off <= e
  <2>1. e2 = Higher(off + n, e) /\ n \in Nat /\ e \in Nat /\ p \in Nat /\ p < e /\ n > 0 /\ p <= off /\ off <= e
    BY <1>1, <1>2, <1>3, <1>4
  <2> HIDE DEF e, e2, n, p
  <2> QED BY <2>1 DEF Higher
<1>6. ASSUME NEW j \in DOMAIN spans, j # i PROVE End(spans[j]) <= p \/ e2 <= spans[j].start
  <2> DEFINE q == spans[j].start  f == End(spans[j])
  <2>1. (f <= p \/ e <= q) /\ q \in Nat /\ f \in Nat /\ q < f
    BY <1>4, <1>6 DEF Apart
  <2>2. CASE j < i
    <3>1. f < off
      BY <1>1, <2>2
    <3> HIDE DEF q, f, e, p, e2
    <3>2. f <= p \/ e2 <= q
      BY <1>5, <2>1, <3>1
    <3> QED BY <3>2 DEF f, q
  <2>3. CASE j > i
    <3>1. i + 1 \in DOMAIN spans /\ i + 1 <= j
      BY <1>3, <1>4, <2>3
    <3> DEFINE r == spans[i + 1].start
    <3>2. r \in Nat /\ r > off + n
      BY <1>1, <1>4, <3>1
    <3>3. q >= r
      <4>1. CASE j = i + 1
        BY <1>4, <4>1
      <4>2. CASE i + 1 < j
        <5>1. i + 1 # 1
          BY <1>3
        <5>2. r < q
          BY <3>1, <4>2, <5>1 DEF InOrder
        <5> HIDE DEF q, r
        <5> QED BY <2>1, <3>2, <5>2
      <4> QED BY <1>3, <1>4, <3>1, <4>1, <4>2
    <3> HIDE DEF q, f, e, p, e2, n, r
    <3>4. f <= p \/ e2 <= q
      BY ONLY <1>5, <2>1, <3>2, <3>3, off \in Nat
    <3> QED BY <3>4 DEF f, q
  <2> QED BY <1>3, <1>4, <1>6, <2>2, <2>3
<1>7. Apart(sps)
  <2> SUFFICES ASSUME NEW a \in DOMAIN spans, NEW b \in DOMAIN spans, a # b
               PROVE  End(sps[a]) <= sps[b].start \/ End(sps[b]) <= sps[a].start
    BY <1>2 DEF Apart
  <2>1. CASE a # i /\ b # i
    BY <1>2, <2>1 DEF Apart
  <2>2. CASE a = i
    BY <1>2, <1>4, <1>6, <2>2
  <2>3. CASE b = i
    BY <1>2, <1>4, <1>6, <2>3
  <2> QED BY <2>1, <2>2, <2>3
<1>8. InOrder(sps, len)
  <2> SUFFICES ASSUME NEW a \in DOMAIN spans, NEW b \in DOMAIN spans, a < b
               PROVE  sps[a].start < sps[b].start \/ (a = 1 /\ sps[1].start >= len)
    BY <1>2 DEF InOrder
  <2>1. spans[a].start < spans[b].start \/ (a = 1 /\ spans[1].start >= len)
    BY DEF InOrder
  <2> QED BY <1>4, <2>1
<1>9. ASSUME NEW x \in Nat
      PROVE  /\ off <= x /\ x < off + Len(data) =>
                   \E j \in DOMAIN sps : Covers(sps[j], x) /\ ByteOf(sps[j], x) = data[x - off + 1]
             /\ ~(off <= x /\ x < off + Len(data)) =>
                   /\ \A k \in DOMAIN spans : Covers(spans[k], x) =>
                          \E j \in DOMAIN sps : Covers(sps[j], x) /\ ByteOf(sps[j], x) = ByteOf(spans[k], x)
                   /\ (\A k \in DOMAIN spans : ~Covers(spans[k], x)) => \A j \in DOMAIN sps : ~Covers(sps[j], x)
  <2>1. CASE off <= x /\ x < off + Len(data)
    <3>1. Covers(sps[i], x)
      <4>1. p <= x /\ x < e2
        <5> HIDE DEF p, e, e2, n
        <5>1. off <= x /\ x < off + n
          BY <2>1 DEF n
        <5> QED BY <1>5, <5>1
      <4> QED BY <1>2, <4>1 DEF Covers
    <3> QED BY <1>2, <2>1, <3>1
  <2>2. CASE ~(off <= x /\ x < off + Len(data))
    <3>1. Covers(sps[i], x) <=> Covers(spans[i], x)
      <4>1. (p <= x /\ x < e2) <=> (p <= x /\ x < e)
        <5>1. ~(off <= x /\ x < off + n)
          BY <2>2
        <5> HIDE DEF p, e, e2, n
        <5> QED BY <1>5, <5>1
      <4> QED BY <1>2, <4>1 DEF Covers
    <3>2. ASSUME NEW k \in DOMAIN spans, Covers(spans[k], x)
          PROVE  \E j \in DOMAIN sps : Covers(sps[j], x) /\ ByteOf(sps[j], x) = ByteOf(spans[k], x)
      <4>1. Covers(sps[k], x) /\ ByteOf(sps[k], x) = ByteOf(spans[k], x)
        BY <1>2, <2>2, <3>1, <3>2
      <4> QED BY <1>2, <4>1
    <3>3. ASSUME \A k \in DOMAIN spans : ~Covers(spans[k], x) PROVE \A j \in DOMAIN sps : ~Covers(sps[j], x)
      BY <1>2, <3>1, <3>3
    <3> QED BY <2>2, <3>2, <3>3
  <2> QED BY <2>1, <2>2
<1> QED BY <1>7, <1>8, <1>9 DEF Overlays

-----------------------------------------------------------------------------
(* The slow path of a write.                                               *)

\* Where the merged span begins and ends: at the write's ends or at a touched span's.
LEMMA MergeBounds ==
    ASSUME spans \in Seq(SpanRec), length \in Nat, \A i \in DOMAIN spans : End(spans[i]) <= length,
           NEW off \in Nat, NEW data \in Seq(Byte), Len(data) > 0
    PROVE  /\ MergeFrom(off, data) \in Nat /\ MergeFrom(off, data) <= off
           /\ \A i \in Touched(off, data) : MergeFrom(off, data) <= spans[i].start
           /\ MergeFrom(off, data) = off \/ \E i \in Touched(off, data) : MergeFrom(off, data) = spans[i].start
           /\ MergeTo(off, data) \in Nat /\ off + Len(data) <= MergeTo(off, data)
           /\ MergeTo(off, data) <= Higher(length, off + Len(data))
           /\ \A i \in Touched(off, data) : End(spans[i]) <= MergeTo(off, data)
           /\ MergeTo(off, data) = off + Len(data) \/ \E i \in Touched(off, data) : MergeTo(off, data) = End(spans[i])
           /\ MergeFrom(off, data) < MergeTo(off, data)
<1> DEFINE n == Len(data)  N == Higher(length, off + n)
           T == Touched(off, data)  from == MergeFrom(off, data)  to == MergeTo(off, data)
           S == {off} \cup {spans[i].start : i \in T}
           E == {off + n} \cup {End(spans[i]) : i \in T}
<1>1. T \subseteq DOMAIN spans
  BY DEF Touched
<1>2. \A i \in T : spans[i].start \in Nat /\ End(spans[i]) \in Nat /\ End(spans[i]) <= length
  BY <1>1, SpansFacts, SpanFacts
<1>3. n \in Nat /\ n > 0
  BY SequenceFacts
<1>4. N \in Nat /\ length <= N /\ off + n <= N
  <2> HIDE DEF n
  <2> QED BY <1>3 DEF Higher
<1>5. S \subseteq Nat /\ S # {}
  BY <1>2
<1>6. from = Min(S) /\ to = Max(E)
  BY DEF MergeFrom, MergeTo
<1> HIDE DEF from, to, T
<1>7. from \in S /\ from \in Nat /\ \A y \in S : from <= y
  BY <1>5, <1>6, MinFacts
<1>8. E \subseteq 0 .. N
  <2> SUFFICES ASSUME NEW y \in E PROVE y \in 0 .. N
    OBVIOUS
  <2>1. CASE y = off + n
    <3> HIDE DEF n, N
    <3> QED BY <1>3, <1>4, <2>1
  <2>2. ASSUME NEW i \in T, y = End(spans[i]) PROVE y \in 0 .. N
    <3>1. y \in Nat /\ y <= length
      BY <1>2, <2>2
    <3> HIDE DEF n, N
    <3> QED BY <1>4, <3>1
  <2> QED BY <2>1, <2>2
<1>9. to \in E /\ to \in Nat /\ to <= N /\ \A y \in E : to >= y
  <2>1. E # {}
    OBVIOUS
  <2> HIDE DEF E, N
  <2> QED BY <1>4, <1>6, <1>8, <2>1, MaxFacts
<1>10. from <= off /\ \A i \in T : from <= spans[i].start
  BY <1>7
<1>11. from = off \/ \E i \in T : from = spans[i].start
  BY <1>7
<1>12. off + n <= to /\ \A i \in T : End(spans[i]) <= to
  <2>1. to >= off + n /\ \A i \in T : to >= End(spans[i])
    BY <1>9
  <2> QED BY <1>2, <1>3, <1>9, <2>1
<1>13. to = off + n \/ \E i \in T : to = End(spans[i])
  BY <1>9
<1>14. from < to
  <2> HIDE DEF n
  <2> QED BY <1>3, <1>7, <1>9, <1>10, <1>12
<1> QED BY ONLY <1>7, <1>9, <1>10, <1>11, <1>12, <1>13, <1>14 DEF from, to, T, N, n

\* The bytes of the merged span.
LEMMA MergedByteFacts ==
    ASSUME spans \in Seq(SpanRec), NEW off \in Nat, NEW data \in Seq(Byte), NEW x \in Nat
    PROVE  /\ MergedByte(off, data, x) \in Byte
           /\ off <= x /\ x < off + Len(data) => MergedByte(off, data, x) = data[x - off + 1]
           /\ ~(off <= x /\ x < off + Len(data)) /\ Apart(spans) =>
                  \A i \in Touched(off, data) : Covers(spans[i], x) => MergedByte(off, data, x) = ByteOf(spans[i], x)
<1> DEFINE under == Touched(off, data) \cap Covering(x)
<1>1. Len(spans) \in Nat /\ DOMAIN spans = 1 .. Len(spans) /\ Len(data) \in Nat
  BY SpansFacts, SequenceFacts
<1>2. under \subseteq 0 .. Len(spans)
  BY <1>1 DEF Touched
<1>3. under # {} => Max(under) \in DOMAIN spans /\ Covers(spans[Max(under)], x)
  <2> SUFFICES ASSUME under # {} PROVE Max(under) \in under
    BY DEF Covering
  <2> HIDE DEF under
  <2> QED BY <1>1, <1>2, MaxFacts
<1>4. MergedByte(off, data, x) = IF off <= x /\ x < off + Len(data) THEN data[x - off + 1]
                                 ELSE IF under # {} THEN ByteOf(spans[Max(under)], x) ELSE Zero
  BY DEF MergedByte
<1>5. CASE off <= x /\ x < off + Len(data)
  <2>1. x - off + 1 \in 1 .. Len(data)
    BY <1>1, <1>5
  <2>2. data[x - off + 1] \in Byte
    BY <2>1, SequenceFacts
  <2> QED BY <1>4, <1>5, <2>2
<1>6. CASE ~(off <= x /\ x < off + Len(data))
  <2>1. under # {} => ByteOf(spans[Max(under)], x) \in Byte
    BY <1>3, SpansFacts, ByteOfFacts
  <2>2. MergedByte(off, data, x) \in Byte
    BY <1>4, <1>6, <2>1, ZeroByte
  <2>3. ASSUME Apart(spans), NEW i \in Touched(off, data), Covers(spans[i], x)
        PROVE  MergedByte(off, data, x) = ByteOf(spans[i], x)
    <3>1. i \in DOMAIN spans /\ under # {}
      BY <2>3 DEF Touched, Covering
    <3>2. Max(under) \in DOMAIN spans /\ Covers(spans[Max(under)], x)
      BY <1>3, <3>1
    <3> HIDE DEF under
    <3>3. Max(under) = i
      BY <2>3, <3>1, <3>2, CoverUnique
    <3> QED BY <1>4, <1>6, <3>1, <3>3
  <2> QED BY <1>6, <2>2, <2>3
<1> QED BY <1>5, <1>6

\* The merged span.
LEMMA MergedFacts ==
    ASSUME spans \in Seq(SpanRec), length \in Nat, \A i \in DOMAIN spans : End(spans[i]) <= length,
           NEW off \in Nat, NEW data \in Seq(Byte), Len(data) > 0
    PROVE  /\ Merged(off, data) \in SpanRec
           /\ Merged(off, data).start = MergeFrom(off, data) /\ End(Merged(off, data)) = MergeTo(off, data)
           /\ \A x \in Nat : MergeFrom(off, data) <= x /\ x < MergeTo(off, data) =>
                  ByteOf(Merged(off, data), x) = MergedByte(off, data, x)
<1> DEFINE from == MergeFrom(off, data)  to == MergeTo(off, data)
           f == [k \in 1 .. (to - from) |-> MergedByte(off, data, from + k - 1)]
<1>1. from \in Nat /\ to \in Nat /\ from < to
  BY MergeBounds
<1>5. Merged(off, data) = Span(from, f)
  BY DEF Merged
<1> HIDE DEF from, to
<1>2. to - from \in Nat /\ to - from > 0 /\ from + (to - from) = to
  BY <1>1
<1>3. ASSUME NEW k \in 1 .. (to - from) PROVE MergedByte(off, data, from + k - 1) \in Byte
  <2>1. from + k - 1 \in Nat
    BY ONLY <1>1, k \in 1 .. (to - from)
  <2> QED BY <2>1, MergedByteFacts
<1>4. f \in [1 .. (to - from) -> Byte]
  BY <1>3
<1>8. ASSUME NEW x \in Nat, from <= x, x < to PROVE f[x - from + 1] = MergedByte(off, data, x)
  <2>1. x - from + 1 \in 1 .. (to - from) /\ from + (x - from + 1) - 1 = x
    BY <1>1, <1>8
  <2> QED BY <2>1
<1> HIDE DEF f
<1>6. f \in Seq(Byte) /\ Len(f) = to - from
  BY ONLY <1>2, <1>4, FunctionIsSequence
<1>7. /\ Merged(off, data) \in SpanRec /\ Merged(off, data).start = from /\ Merged(off, data).data = f
      /\ End(Merged(off, data)) = to
  <2>1. Len(f) > 0 /\ from + Len(f) = to
    BY <1>2, <1>6
  <2>2. /\ Span(from, f) \in SpanRec /\ Span(from, f).start = from /\ Span(from, f).data = f
        /\ End(Span(from, f)) = from + Len(f)
    BY ONLY <1>1, <1>6, <2>1, SpanMade
  <2> QED BY ONLY <1>5, <2>1, <2>2
<1>9. ASSUME NEW x \in Nat, from <= x, x < to PROVE ByteOf(Merged(off, data), x) = MergedByte(off, data, x)
  BY <1>7, <1>8, <1>9 DEF ByteOf
<1> QED BY ONLY <1>7, <1>9 DEF from, to

\* Bounded sets of indices are finite.
LEMMA BoundedFinite ==
    ASSUME NEW b \in Nat, NEW I, I \subseteq 0 .. b
    PROVE  IsFiniteSet(I)
<1>1. IsFiniteSet(0 .. b)
  BY FS_Interval
<1> QED BY <1>1, FS_Subset

\* A listing of a finite set names each of its elements once.
LEMMA ListingFacts ==
    ASSUME NEW I, IsFiniteSet(I), NEW m \in Bijection(1 .. Cardinality(I), I)
    PROVE  /\ Cardinality(I) \in Nat /\ m \in [1 .. Cardinality(I) -> I]
           /\ \A i, j \in 1 .. Cardinality(I) : m[i] = m[j] => i = j
           /\ \A p \in I : \E k \in 1 .. Cardinality(I) : m[k] = p
<1>1. Cardinality(I) \in Nat
  BY FS_CardinalityType
<1>2. /\ m \in [1 .. Cardinality(I) -> I] /\ IsInjective(m)
      /\ \A p \in I : \E k \in 1 .. Cardinality(I) : m[k] = p
  BY DEF Bijection, Injection, Surjection
<1> QED BY <1>1, <1>2 DEF IsInjective

\* The pieces of the slow path: the merged span and the spans apart from it.
LEMMA PieceFacts ==
    ASSUME spans \in Seq(SpanRec), length \in Nat, \A i \in DOMAIN spans : End(spans[i]) <= length,
           NEW off \in Nat, NEW data \in Seq(Byte), Len(data) > 0,
           NEW p \in Pieces(off, data)
    PROVE  /\ Piece(p, off, data) \in SpanRec
           /\ End(Piece(p, off, data)) <= Higher(length, off + Len(data))
<1>1. CASE p = 0
  <2>1. Piece(p, off, data) = Merged(off, data)
    BY <1>1 DEF Piece
  <2>2. Merged(off, data) \in SpanRec /\ End(Merged(off, data)) = MergeTo(off, data)
    BY MergedFacts
  <2>3. MergeTo(off, data) <= Higher(length, off + Len(data))
    BY MergeBounds
  <2> QED BY ONLY <2>1, <2>2, <2>3
<1>2. CASE p # 0
  <2> DEFINE e == End(spans[p])  n == Len(data)
  <2>1. Piece(p, off, data) = spans[p] /\ p \in DOMAIN spans
    BY <1>2 DEF Piece, Pieces
  <2>2. spans[p] \in SpanRec /\ n \in Nat
    BY <2>1, SpansFacts, SequenceFacts
  <2>3. e \in Nat /\ e <= length
    BY <2>1, <2>2, SpanFacts
  <2> HIDE DEF e, n
  <2>4. e <= Higher(length, off + n)
    BY <2>2, <2>3 DEF Higher
  <2> QED BY <2>1, <2>2, <2>4 DEF e, n
<1> QED BY <1>1, <1>2

\* No span apart from the write meets the merged one.
LEMMA MergedApart ==
    ASSUME spans \in Seq(SpanRec), length \in Nat, \A i \in DOMAIN spans : End(spans[i]) <= length, Apart(spans),
           NEW off \in Nat, NEW data \in Seq(Byte), Len(data) > 0,
           NEW q \in DOMAIN spans, q \notin Touched(off, data)
    PROVE  End(spans[q]) <= MergeFrom(off, data) \/ MergeTo(off, data) <= spans[q].start
<1> DEFINE from == MergeFrom(off, data)  to == MergeTo(off, data)  n == Len(data)  T == Touched(off, data)
           s == spans[q].start  e == End(spans[q])
<1>1. /\ from \in Nat /\ from <= off
      /\ from = off \/ \E i \in T : from = spans[i].start
      /\ to \in Nat /\ off + n <= to
      /\ to = off + n \/ \E i \in T : to = End(spans[i])
  BY MergeBounds
<1>2. s \in Nat /\ e \in Nat /\ s < e /\ n \in Nat /\ n > 0
  BY SpansFacts, SpanFacts, SequenceFacts
<1>3. ~(e >= off /\ s <= off + n)
  BY DEF Touched
<1>4. ASSUME NEW i \in T
      PROVE  /\ spans[i].start \in Nat /\ End(spans[i]) \in Nat /\ spans[i].start < End(spans[i])
             /\ End(spans[i]) >= off /\ spans[i].start <= off + n
             /\ End(spans[i]) <= s \/ e <= spans[i].start
  <2>1. i \in DOMAIN spans /\ i # q /\ End(spans[i]) >= off /\ spans[i].start <= off + n
    BY DEF Touched
  <2>2. End(spans[i]) <= s \/ e <= spans[i].start
    BY <2>1 DEF Apart
  <2> QED BY <2>1, <2>2, SpansFacts, SpanFacts
<1>5. CASE e < off
  <2>1. CASE from = off
    BY <1>2, <1>5, <2>1
  <2>2. ASSUME NEW i \in T, from = spans[i].start PROVE e <= from
    <3> DEFINE u == spans[i].start  v == End(spans[i])
    <3>1. u \in Nat /\ v \in Nat /\ u < v /\ v >= off /\ (v <= s \/ e <= u) /\ from = u
      BY <1>4, <2>2
    <3> HIDE DEF u, v, s, e, n, from
    <3> QED BY <1>2, <1>5, <3>1
  <2> QED BY <1>1, <2>1, <2>2
<1>6. CASE s > off + n
  <2>1. CASE to = off + n
    BY <1>2, <1>6, <2>1
  <2>2. ASSUME NEW i \in T, to = End(spans[i]) PROVE to <= s
    <3> DEFINE u == spans[i].start  v == End(spans[i])
    <3>1. u \in Nat /\ v \in Nat /\ u < v /\ u <= off + n /\ (v <= s \/ e <= u) /\ to = v
      BY <1>4, <2>2
    <3> HIDE DEF u, v, s, e, n, to
    <3> QED BY <1>2, <1>6, <3>1
  <2> QED BY <1>1, <2>1, <2>2
<1>7. e < off \/ s > off + n
  <2> HIDE DEF s, e, n
  <2> QED BY <1>2, <1>3
<1> QED BY <1>5, <1>6, <1>7

\* A list that holds each piece once, in the order of the starts.
Lists(sps, c, m, off, data) ==
    /\ sps \in Seq(SpanRec) /\ DOMAIN sps = 1 .. c /\ m \in [1 .. c -> Pieces(off, data)]
    /\ \A k \in 1 .. c : sps[k] = Piece(m[k], off, data)
    /\ \A i, j \in 1 .. c : m[i] = m[j] => i = j
    /\ \A p \in Pieces(off, data) : \E k \in 1 .. c : m[k] = p
    /\ \A i, j \in 1 .. c : i < j => sps[i].start <= sps[j].start

\* The slow path makes such a list, and no span in it ends after the new end.
LEMMA CoalescedList ==
    ASSUME spans \in Seq(SpanRec), length \in Nat, \A i \in DOMAIN spans : End(spans[i]) <= length,
           NEW off \in Nat, NEW data \in Seq(Byte), Len(data) > 0, NEW sps \in Coalesced(off, data)
    PROVE  /\ sps \in Seq(SpanRec) /\ \A k \in DOMAIN sps : End(sps[k]) <= Higher(length, off + Len(data))
           /\ \E c, m : c \in Nat /\ Lists(sps, c, m, off, data)
<1> DEFINE P == Pieces(off, data)  c == Cardinality(P)
<1>1. PICK m \in Bijection(1 .. c, P) :
          /\ \A i, j \in 1 .. c : i < j => Piece(m[i], off, data).start <= Piece(m[j], off, data).start
          /\ sps = [k \in 1 .. c |-> Piece(m[k], off, data)]
  BY DEF Coalesced
<1>2. Len(spans) \in Nat /\ DOMAIN spans = 1 .. Len(spans)
  BY SpansFacts
<1>3. P \subseteq 0 .. Len(spans)
  BY <1>2 DEF Pieces
<1> HIDE DEF P
<1>4. IsFiniteSet(P)
  BY ONLY <1>2, <1>3, BoundedFinite
<1>5. /\ c \in Nat /\ m \in [1 .. c -> P]
      /\ \A i, j \in 1 .. c : m[i] = m[j] => i = j
      /\ \A p \in P : \E k \in 1 .. c : m[k] = p
  <2>1. m \in Bijection(1 .. Cardinality(P), P)
    BY <1>1
  <2> QED BY ONLY <1>4, <2>1, ListingFacts
<1> HIDE DEF c
<1>6. ASSUME NEW k \in 1 .. c
      PROVE  /\ sps[k] = Piece(m[k], off, data) /\ sps[k] \in SpanRec
             /\ End(sps[k]) <= Higher(length, off + Len(data))
  <2>1. m[k] \in P /\ sps[k] = Piece(m[k], off, data)
    BY <1>1, <1>5
  <2>2. Piece(m[k], off, data) \in SpanRec /\ End(Piece(m[k], off, data)) <= Higher(length, off + Len(data))
    BY <2>1, PieceFacts DEF P
  <2> QED BY <2>1, <2>2
<1>7. sps \in [1 .. c -> SpanRec]
  BY <1>1, <1>6
<1>8. sps \in Seq(SpanRec) /\ DOMAIN sps = 1 .. c
  BY ONLY <1>5, <1>7, FunctionIsSequence
<1>9. \A i, j \in 1 .. c : i < j => sps[i].start <= sps[j].start
  BY <1>1, <1>6
<1>10. Lists(sps, c, m, off, data)
  BY <1>5, <1>6, <1>8, <1>9 DEF Lists, P
<1> QED BY <1>5, <1>6, <1>8, <1>10

\* The slow path keeps the spans disjoint and in order and overlays the write.
LEMMA CoalescedOverlays ==
    ASSUME spans \in Seq(SpanRec), length \in Nat, \A i \in DOMAIN spans : End(spans[i]) <= length, Apart(spans),
           NEW off \in Nat, NEW data \in Seq(Byte), Len(data) > 0, NEW sps \in Coalesced(off, data), NEW len
    PROVE  Apart(sps) /\ InOrder(sps, len) /\ Overlays(sps, spans, off, data)
<1> DEFINE from == MergeFrom(off, data)  to == MergeTo(off, data)  n == Len(data)  T == Touched(off, data)
           P == Pieces(off, data)  mg == Merged(off, data)
<1>1. PICK c, m : c \in Nat /\ Lists(sps, c, m, off, data)
  BY CoalescedList
<1>2. /\ sps \in Seq(SpanRec) /\ DOMAIN sps = 1 .. c /\ m \in [1 .. c -> P] /\ c \in Nat
      /\ \A k \in 1 .. c : sps[k] = Piece(m[k], off, data)
      /\ \A i, j \in 1 .. c : m[i] = m[j] => i = j
      /\ \A p \in P : \E k \in 1 .. c : m[k] = p
      /\ \A i, j \in 1 .. c : i < j => sps[i].start <= sps[j].start
  BY <1>1 DEF Lists
<1>3. /\ from \in Nat /\ from <= off /\ \A i \in T : from <= spans[i].start
      /\ from = off \/ \E i \in T : from = spans[i].start
      /\ to \in Nat /\ off + n <= to
      /\ \A i \in T : End(spans[i]) <= to
      /\ to = off + n \/ \E i \in T : to = End(spans[i])
      /\ from < to
  BY MergeBounds
<1>4. /\ mg \in SpanRec /\ mg.start = from /\ End(mg) = to
      /\ \A x \in Nat : from <= x /\ x < to => ByteOf(mg, x) = MergedByte(off, data, x)
  BY MergedFacts
<1>5. /\ T \subseteq DOMAIN spans /\ 0 \notin DOMAIN spans /\ n \in Nat /\ n > 0
      /\ \A i \in DOMAIN spans : /\ spans[i].start \in Nat /\ End(spans[i]) \in Nat /\ spans[i].start < End(spans[i])
  <2>1. DOMAIN spans = 1 .. Len(spans) /\ Len(spans) \in Nat
    BY SpansFacts
  <2> QED BY <2>1, SpansFacts, SpanFacts, SequenceFacts DEF Touched
<1>6. \A i \in T : End(spans[i]) >= off /\ spans[i].start <= off + n
  BY DEF Touched
<1>7. Piece(0, off, data) = mg /\ \A p \in P : p # 0 => p \in DOMAIN spans /\ p \notin T /\ Piece(p, off, data) = spans[p]
  BY DEF Piece, Pieces
<1>8. \A q \in DOMAIN spans : q \notin T => End(spans[q]) <= from \/ to <= spans[q].start
  BY MergedApart
<1>9. ASSUME NEW p \in P, NEW q \in P, p # q
      PROVE  \/ End(Piece(p, off, data)) <= Piece(q, off, data).start
             \/ End(Piece(q, off, data)) <= Piece(p, off, data).start
  <2>1. CASE p = 0
    BY <1>4, <1>7, <1>8, <1>9, <2>1
  <2>2. CASE q = 0
    BY <1>4, <1>7, <1>8, <1>9, <2>2
  <2>3. CASE p # 0 /\ q # 0
    BY <1>7, <1>9, <2>3 DEF Apart
  <2> QED BY <2>1, <2>2, <2>3
<1> HIDE DEF P
<1>10. Apart(sps)
  <2> SUFFICES ASSUME NEW a \in 1 .. c, NEW b \in 1 .. c, a # b
               PROVE  End(sps[a]) <= sps[b].start \/ End(sps[b]) <= sps[a].start
    BY <1>2 DEF Apart
  <2>1. m[a] \in P /\ m[b] \in P /\ m[a] # m[b]
    BY <1>2
  <2> QED BY <1>2, <1>9, <2>1
<1>11. InOrder(sps, len)
  <2> SUFFICES ASSUME NEW a \in 1 .. c, NEW b \in 1 .. c, a < b
               PROVE  sps[a].start < sps[b].start
    BY <1>2 DEF InOrder
  <2> DEFINE s == sps[a].start  e == End(sps[a])  u == sps[b].start  v == End(sps[b])
  <2>1. s <= u /\ (e <= u \/ v <= s)
    <3>1. a # b
      OBVIOUS
    <3> QED BY <1>2, <1>10, <3>1 DEF Apart
  <2>2. s \in Nat /\ e \in Nat /\ u \in Nat /\ v \in Nat /\ s < e /\ u < v
    BY <1>2, SpansFacts, SpanFacts
  <2> HIDE DEF s, e, u, v
  <2>3. s < u
    BY <2>1, <2>2
  <2> QED BY <2>3 DEF s, u
<1>12. PICK z \in 1 .. c : m[z] = 0
  <2>1. 0 \in P
    BY DEF P, Pieces
  <2> QED BY <1>2, <2>1
<1>13. sps[z] = mg
  BY <1>2, <1>7, <1>12
<1>14. ASSUME NEW x \in Nat, off <= x, x < off + n
       PROVE  \E j \in DOMAIN sps : Covers(sps[j], x) /\ ByteOf(sps[j], x) = data[x - off + 1]
  <2>1. from <= x /\ x < to
    <3> HIDE DEF from, to, n
    <3> QED BY <1>3, <1>5, <1>14
  <2>2. Covers(mg, x) /\ ByteOf(mg, x) = MergedByte(off, data, x)
    BY <1>4, <2>1 DEF Covers
  <2>3. MergedByte(off, data, x) = data[x - off + 1]
    BY <1>14, MergedByteFacts
  <2>4. z \in DOMAIN sps
    BY <1>2
  <2> QED BY ONLY <1>13, <2>2, <2>3, <2>4, Zenon
<1>15. ASSUME NEW x \in Nat, ~(off <= x /\ x < off + n), NEW k \in DOMAIN spans, Covers(spans[k], x)
       PROVE  \E j \in DOMAIN sps : Covers(sps[j], x) /\ ByteOf(sps[j], x) = ByteOf(spans[k], x)
  <2>1. CASE k \in T
    <3> DEFINE s == spans[k].start  e == End(spans[k])
    <3>1. s \in Nat /\ e \in Nat /\ from <= s /\ e <= to /\ s <= x /\ x < e
      BY <1>3, <1>5, <1>15, <2>1 DEF Covers
    <3>5. from \in Nat /\ to \in Nat /\ x \in Nat
      BY <1>3
    <3>2. from <= x /\ x < to
      <4> HIDE DEF from, to, s, e
      <4> QED BY ONLY <3>1, <3>5
    <3>3. Covers(mg, x) /\ ByteOf(mg, x) = MergedByte(off, data, x)
      BY <1>4, <3>2 DEF Covers
    <3>4. MergedByte(off, data, x) = ByteOf(spans[k], x)
      <4>1. \A i \in T : Covers(spans[i], x) => MergedByte(off, data, x) = ByteOf(spans[i], x)
        BY <1>15, MergedByteFacts
      <4> QED BY ONLY <1>15, <2>1, <4>1
    <3>6. z \in DOMAIN sps
      BY <1>2
    <3> QED BY ONLY <1>13, <3>3, <3>4, <3>6, Zenon
  <2>2. CASE k \notin T
    <3>1. k \in P /\ k # 0
      BY <1>5, <2>2 DEF P, Pieces
    <3>2. PICK j \in 1 .. c : m[j] = k
      BY <1>2, <3>1
    <3>3. sps[j] = spans[k]
      BY <1>2, <1>7, <3>1, <3>2
    <3> QED BY <1>2, <1>15, <3>3
  <2> QED BY <2>1, <2>2
<1>16. ASSUME NEW x \in Nat, ~(off <= x /\ x < off + n), \A k \in DOMAIN spans : ~Covers(spans[k], x),
              NEW j \in DOMAIN sps, Covers(sps[j], x)
       PROVE  FALSE
  <2>1. m[j] \in P /\ sps[j] = Piece(m[j], off, data)
    BY <1>2
  <2>2. m[j] = 0
    BY <1>7, <1>16, <2>1
  <2>3. from <= x /\ x < to
    BY <1>4, <1>7, <1>16, <2>1, <2>2 DEF Covers
  <2>4. CASE x < off
    <3>1. from # off
      BY <1>3, <2>3, <2>4
    <3>2. PICK i \in T : from = spans[i].start
      BY <1>3, <3>1
    <3> DEFINE e == End(spans[i])
    <3>3. e \in Nat /\ e >= off /\ i \in DOMAIN spans
      BY <1>5, <1>6
    <3>4. x < e
      <4> HIDE DEF e
      <4> QED BY <2>4, <3>3
    <3>5. Covers(spans[i], x)
      BY <2>3, <3>2, <3>4 DEF Covers
    <3> QED BY <1>16, <3>3, <3>5
  <2>5. CASE x >= off + n
    <3>1. to # off + n
      <4> HIDE DEF to, n
      <4> QED BY <1>3, <1>5, <2>3, <2>5
    <3>2. PICK i \in T : to = End(spans[i])
      BY <1>3, <3>1
    <3> DEFINE s == spans[i].start
    <3>3. s \in Nat /\ s <= off + n /\ i \in DOMAIN spans
      BY <1>5, <1>6
    <3>4. s <= x
      <4> HIDE DEF s, n
      <4> QED BY <1>5, <2>5, <3>3
    <3>5. Covers(spans[i], x)
      BY <2>3, <3>2, <3>4 DEF Covers
    <3> QED BY <1>16, <3>3, <3>5
  <2>6. x < off \/ x >= off + n
    <3> HIDE DEF n
    <3> QED BY <1>5, <1>16
  <2> QED BY <2>4, <2>5, <2>6
<1>17. Overlays(sps, spans, off, data)
  BY <1>14, <1>15, <1>16 DEF Overlays
<1> QED BY <1>10, <1>11, <1>17

-----------------------------------------------------------------------------
(* Lists of chunks.                                                        *)

\* The parts of a list of chunks.
LEMMA ListFacts ==
    ASSUME NEW list \in ChunkLists
    PROVE  /\ list.bytes \in Seq(Byte) /\ Size(list) \in Nat /\ Size(list) = Len(list.bytes) /\ Size(list) <= MaxLength
           /\ \A e \in list.ends : e \in Nat /\ e >= 1 /\ e <= Size(list)
           /\ Size(list) = 0 \/ Size(list) \in list.ends
<1>1. /\ list.bytes \in Seq(Byte) /\ list.ends \subseteq 1 .. MaxLength /\ Size(list) <= MaxLength
      /\ \A e \in list.ends : e <= Size(list)
      /\ Size(list) \in {0} \cup list.ends
  BY DEF ChunkLists
<1>2. Size(list) \in Nat /\ Size(list) = Len(list.bytes)
  BY <1>1, SequenceFacts DEF Size
<1>3. \A e \in list.ends : e \in Nat /\ e >= 1
  BY <1>1, BoundsAssumption
<1> QED BY <1>1, <1>2, <1>3

\* Bytes and ends that make a list of chunks.
LEMMA ListMade ==
    ASSUME NEW bytes \in Seq(Byte), Len(bytes) <= MaxLength,
           NEW ends, \A e \in ends : e \in 1 .. Len(bytes), Len(bytes) = 0 \/ Len(bytes) \in ends
    PROVE  /\ Chunks(bytes, ends) \in ChunkLists /\ Size(Chunks(bytes, ends)) = Len(bytes)
           /\ Chunks(bytes, ends).bytes = bytes /\ Chunks(bytes, ends).ends = ends
<1> DEFINE list == Chunks(bytes, ends)
<1>1. list = [bytes |-> bytes, ends |-> ends]
  BY DEF Chunks
<1>2. list.bytes = bytes /\ list.ends = ends /\ Size(list) = Len(bytes)
  BY <1>1 DEF Size
<1>3. Len(bytes) \in Nat
  BY SequenceFacts
<1>4. ends \subseteq 1 .. MaxLength
  BY <1>3, BoundsAssumption
<1>5. list \in [bytes : Seq(Byte), ends : SUBSET (1 .. MaxLength)]
  BY <1>1, <1>4
<1>6. \A e \in ends : e <= Len(bytes)
  BY <1>3
<1> HIDE DEF list
<1>7. list \in ChunkLists
  BY <1>2, <1>5, <1>6 DEF ChunkLists
<1> QED BY <1>2, <1>7 DEF list

\* The list without chunks.
LEMMA NoChunksFacts == NoChunks \in ChunkLists /\ Size(NoChunks) = 0 /\ NoChunks.bytes = <<>>
<1>1. <<>> \in Seq(Byte) /\ Len(<<>>) = 0
  BY EmptySeq
<1>2. Len(<<>>) <= MaxLength
  BY <1>1, BoundsAssumption
<1> QED BY <1>1, <1>2, ListMade DEF NoChunks

\* What storeChunks makes of a window holds the window.
LEMMA TilingFacts ==
    ASSUME NEW data \in Seq(Byte), Len(data) <= MaxLength, NEW t \in Tilings(data)
    PROVE  t \in ChunkLists /\ t.bytes = data /\ Size(t) = Len(data)
<1>1. PICK cuts \in SUBSET (1 .. Len(data) - 1) : t = Chunks(data, cuts \cup ({Len(data)} \ {0}))
  BY DEF Tilings
<1> DEFINE ends == cuts \cup ({Len(data)} \ {0})
<1>2. Len(data) \in Nat
  BY SequenceFacts
<1>3. \A e \in ends : e \in 1 .. Len(data)
  BY <1>2
<1>4. Len(data) = 0 \/ Len(data) \in ends
  OBVIOUS
<1> HIDE DEF ends
<1> QED BY <1>1, <1>3, <1>4, ListMade DEF ends

\* Two lists, one after the other.
LEMMA JoinedFacts ==
    ASSUME NEW a \in ChunkLists, NEW b \in ChunkLists, Size(a) + Size(b) <= MaxLength
    PROVE  /\ Joined(a, b) \in ChunkLists /\ Size(Joined(a, b)) = Size(a) + Size(b)
           /\ Joined(a, b).bytes = a.bytes \o b.bytes
           /\ Joined(a, b).ends = a.ends \cup {Size(a) + e : e \in b.ends}
           /\ \A i \in 1 .. Size(a) : Joined(a, b).bytes[i] = a.bytes[i]
           /\ \A i \in 1 .. Size(b) : Joined(a, b).bytes[Size(a) + i] = b.bytes[i]
<1> DEFINE bytes == a.bytes \o b.bytes  ends == a.ends \cup {Size(a) + e : e \in b.ends}
           la == Size(a)  lb == Size(b)
<1>1. /\ a.bytes \in Seq(Byte) /\ la \in Nat /\ la = Len(a.bytes) /\ \A e \in a.ends : e \in Nat /\ e >= 1 /\ e <= la
      /\ la = 0 \/ la \in a.ends
  BY ListFacts
<1>2. /\ b.bytes \in Seq(Byte) /\ lb \in Nat /\ lb = Len(b.bytes) /\ \A e \in b.ends : e \in Nat /\ e >= 1 /\ e <= lb
      /\ lb = 0 \/ lb \in b.ends
  BY ListFacts
<1>3. /\ bytes \in Seq(Byte) /\ Len(bytes) = la + lb
      /\ \A i \in 1 .. la : bytes[i] = a.bytes[i]
      /\ \A i \in 1 .. lb : bytes[la + i] = b.bytes[i]
  <2>1. /\ bytes \in Seq(Byte) /\ Len(bytes) = Len(a.bytes) + Len(b.bytes)
        /\ \A i \in 1 .. Len(a.bytes) : bytes[i] = a.bytes[i]
        /\ \A i \in 1 .. Len(b.bytes) : bytes[Len(a.bytes) + i] = b.bytes[i]
    <3> DEFINE p == a.bytes  q == b.bytes
    <3>1. p \in Seq(Byte) /\ q \in Seq(Byte)
      BY <1>1, <1>2
    <3> HIDE DEF p, q
    <3>2. /\ p \o q \in Seq(Byte) /\ Len(p \o q) = Len(p) + Len(q)
          /\ \A i \in 1 .. Len(p) : (p \o q)[i] = p[i]
          /\ \A i \in 1 .. Len(q) : (p \o q)[Len(p) + i] = q[i]
      BY ONLY <3>1, ConcatFacts
    <3> QED BY ONLY <3>2, Zenon DEF p, q
  <2> HIDE DEF bytes, la, lb
  <2> QED BY ONLY <1>1, <1>2, <2>1
<1>4. Joined(a, b) = Chunks(bytes, ends)
  BY DEF Joined
<1>9. la + lb <= MaxLength
  OBVIOUS
<1> HIDE DEF bytes, la, lb
<1>5. ASSUME NEW e \in ends PROVE e \in 1 .. la + lb
  <2>1. CASE e \in a.ends
    <3>1. e \in Nat /\ e >= 1 /\ e <= la /\ la \in Nat /\ lb \in Nat
      BY <1>1, <1>2, <2>1
    <3> QED BY ONLY <3>1
  <2>2. ASSUME NEW y \in b.ends, e = la + y PROVE e \in 1 .. la + lb
    <3>1. y \in Nat /\ y >= 1 /\ y <= lb /\ la \in Nat /\ lb \in Nat
      BY <1>1, <1>2
    <3> QED BY ONLY <2>2, <3>1
  <2> QED BY <2>1, <2>2 DEF la
<1>6. la + lb = 0 \/ la + lb \in ends
  <2>1. CASE lb = 0
    BY <1>1, <2>1
  <2>2. CASE lb # 0
    <3>1. lb \in b.ends
      BY <1>2, <2>2
    <3> QED BY <3>1 DEF la
  <2> QED BY <2>1, <2>2
<1> HIDE DEF ends
<1>7. /\ Chunks(bytes, ends) \in ChunkLists /\ Size(Chunks(bytes, ends)) = Len(bytes)
      /\ Chunks(bytes, ends).bytes = bytes /\ Chunks(bytes, ends).ends = ends
  <2>1. Len(bytes) <= MaxLength /\ (\A e \in ends : e \in 1 .. Len(bytes)) /\ (Len(bytes) = 0 \/ Len(bytes) \in ends)
    BY ONLY <1>3, <1>5, <1>6, <1>9
  <2> QED BY ONLY <1>3, <2>1, ListMade
<1> QED BY ONLY <1>3, <1>4, <1>7 DEF bytes, ends, la, lb

\* The chunks of a list stay chunks when more is joined to it.
LEMMA JoinedKeeps ==
    ASSUME NEW a \in ChunkLists, NEW b \in ChunkLists, Size(a) + Size(b) <= MaxLength
    PROVE  \A s, e : IsChunk(a, s, e) =>
               IsChunk(Joined(a, b), s, e) /\ SubSeq(Joined(a, b).bytes, s + 1, e) = SubSeq(a.bytes, s + 1, e)
<1> SUFFICES ASSUME NEW s, NEW e, IsChunk(a, s, e)
             PROVE  IsChunk(Joined(a, b), s, e) /\ SubSeq(Joined(a, b).bytes, s + 1, e) = SubSeq(a.bytes, s + 1, e)
  BY Zenon
<1> DEFINE j == Joined(a, b)  la == Size(a)  lb == Size(b)
<1>1. /\ s = 0 \/ s \in a.ends
      /\ e \in a.ends /\ s < e /\ \A x \in a.ends : x <= s \/ x >= e
  BY DEF IsChunk
<1>2. /\ la \in Nat /\ la = Len(a.bytes) /\ \A x \in a.ends : x \in Nat /\ x >= 1 /\ x <= la
      /\ a.bytes \in Seq(Byte)
  BY ListFacts
<1>3. lb \in Nat /\ \A x \in b.ends : x \in Nat /\ x >= 1 /\ x <= lb
  BY ListFacts
<1>4. /\ j \in ChunkLists /\ Size(j) = la + lb /\ j.ends = a.ends \cup {la + x : x \in b.ends}
      /\ \A i \in 1 .. la : j.bytes[i] = a.bytes[i]
  BY JoinedFacts
<1>5. j.bytes \in Seq(Byte) /\ Len(j.bytes) = la + lb
  BY <1>4, ListFacts
<1> HIDE DEF j, la, lb
<1>6. s \in Nat /\ e \in Nat /\ e <= la /\ s <= e
  BY <1>1, <1>2
<1>7. ASSUME NEW x \in j.ends PROVE x <= s \/ x >= e
  <2>1. CASE x \in a.ends
    BY <1>1, <2>1
  <2>2. ASSUME NEW y \in b.ends, x = la + y PROVE x >= e
    <3>1. y \in Nat
      BY <1>3
    <3> QED BY ONLY <1>2, <1>6, <2>2, <3>1
  <2> QED BY <1>4, <2>1, <2>2
<1>8. IsChunk(j, s, e)
  BY <1>1, <1>4, <1>7 DEF IsChunk
<1>9. SubSeq(j.bytes, s + 1, e) = SubSeq(a.bytes, s + 1, e)
  <2> DEFINE p == SubSeq(j.bytes, s + 1, e)  q == SubSeq(a.bytes, s + 1, e)
  <2>1. p \in Seq(Byte) /\ Len(p) = e - s /\ \A i \in 1 .. e - s : p[i] = j.bytes[s + i]
    <3>1. s \in Nat /\ e \in Nat /\ s <= e /\ e <= Len(j.bytes) /\ j.bytes \in Seq(Byte)
      BY ONLY <1>2, <1>3, <1>5, <1>6
    <3> QED BY ONLY <3>1, SliceFacts
  <2>2. q \in Seq(Byte) /\ Len(q) = e - s /\ \A i \in 1 .. e - s : q[i] = a.bytes[s + i]
    <3>1. s \in Nat /\ e \in Nat /\ s <= e /\ e <= Len(a.bytes) /\ a.bytes \in Seq(Byte)
      BY ONLY <1>2, <1>6
    <3> QED BY ONLY <3>1, SliceFacts
  <2> HIDE DEF p, q
  <2>3. ASSUME NEW i \in 1 .. e - s PROVE p[i] = q[i]
    <3>1. s + i \in 1 .. la
      BY ONLY <1>2, <1>6, i \in 1 .. e - s
    <3> QED BY <1>4, <2>1, <2>2, <3>1
  <2>4. p = q
    BY ONLY <2>1, <2>2, <2>3, SeqEqual
  <2> QED BY <2>4 DEF p, q
<1> QED BY <1>8, <1>9 DEF j

\* One chunk of the base as a list.
LEMMA BaseChunkFacts ==
    ASSUME base \in ChunkLists, NEW s, NEW e, IsChunk(base, s, e)
    PROVE  /\ s \in Nat /\ e \in Nat /\ s < e /\ e <= Size(base)
           /\ BaseChunk(s, e) \in ChunkLists /\ Size(BaseChunk(s, e)) = e - s /\ BaseChunk(s, e).ends = {e - s}
           /\ \A i \in 1 .. e - s : BaseChunk(s, e).bytes[i] = base.bytes[s + i]
<1> DEFINE d == SubSeq(base.bytes, s + 1, e)
<1>1. /\ s = 0 \/ s \in base.ends
      /\ e \in base.ends /\ s < e
  BY DEF IsChunk
<1>2. /\ Size(base) \in Nat /\ Size(base) = Len(base.bytes) /\ \A x \in base.ends : x \in Nat /\ x >= 1 /\ x <= Size(base)
      /\ base.bytes \in Seq(Byte) /\ Size(base) <= MaxLength
  BY ListFacts
<1>3. s \in Nat /\ e \in Nat /\ s <= e /\ s < e /\ e <= Len(base.bytes)
  BY <1>1, <1>2
<1>4. d \in Seq(Byte) /\ Len(d) = e - s /\ \A i \in 1 .. e - s : d[i] = base.bytes[s + i]
  BY ONLY <1>2, <1>3, SliceFacts
<1>5. BaseChunk(s, e) = Chunks(d, {e - s})
  BY DEF BaseChunk
<1> HIDE DEF d
<1>6. Len(d) <= MaxLength /\ (\A x \in {e - s} : x \in 1 .. Len(d)) /\ Len(d) \in {e - s}
  <2> DEFINE ld == Len(d)  lb == Size(base)
  <2>1. ld = e - s /\ lb \in Nat /\ e <= lb /\ lb <= MaxLength /\ MaxLength \in Nat /\ s \in Nat /\ e \in Nat /\ s < e
    BY <1>2, <1>3, <1>4, BoundsAssumption
  <2> HIDE DEF ld, lb
  <2>2. ld <= MaxLength /\ ld \in 1 .. ld
    BY ONLY <2>1
  <2> QED BY <2>1, <2>2 DEF ld
<1>7. /\ Chunks(d, {e - s}) \in ChunkLists /\ Size(Chunks(d, {e - s})) = Len(d)
      /\ Chunks(d, {e - s}).bytes = d /\ Chunks(d, {e - s}).ends = {e - s}
  BY <1>4, <1>6, ListMade
<1> QED BY <1>2, <1>3, <1>4, <1>5, <1>7

\* A chunk of the base joined at its own place is a chunk of the list.
LEMMA JoinedLast ==
    ASSUME base \in ChunkLists, NEW a \in ChunkLists, NEW e, IsChunk(base, Size(a), e)
    PROVE  LET j == Joined(a, BaseChunk(Size(a), e))
           IN  /\ j \in ChunkLists /\ Size(j) = e /\ IsChunk(j, Size(a), e)
               /\ SubSeq(j.bytes, Size(a) + 1, e) = SubSeq(base.bytes, Size(a) + 1, e)
               /\ \A i \in 1 .. Size(a) : j.bytes[i] = a.bytes[i]
               /\ \A i \in 1 .. e - Size(a) : j.bytes[Size(a) + i] = base.bytes[Size(a) + i]
<1> DEFINE s == Size(a)  b == BaseChunk(s, e)  j == Joined(a, b)
<1>1. /\ s \in Nat /\ e \in Nat /\ s < e /\ e <= Size(base)
      /\ b \in ChunkLists /\ Size(b) = e - s /\ b.ends = {e - s}
      /\ \A i \in 1 .. e - s : b.bytes[i] = base.bytes[s + i]
  BY BaseChunkFacts
<1>2. /\ Size(base) \in Nat /\ Size(base) = Len(base.bytes) /\ base.bytes \in Seq(Byte) /\ Size(base) <= MaxLength
  BY ListFacts
<1>3. (\A x \in a.ends : x \in Nat /\ x >= 1 /\ x <= s) /\ (s = 0 \/ s \in a.ends)
  BY ListFacts
<1>4. Size(a) + Size(b) <= MaxLength /\ s + Size(b) = e
  <2>1. Size(a) = s
    OBVIOUS
  <2> HIDE DEF s, b
  <2> QED BY ONLY <1>1, <1>2, <2>1, BoundsAssumption
<1>5. /\ j \in ChunkLists /\ Size(j) = s + Size(b)
      /\ j.ends = a.ends \cup {s + x : x \in b.ends}
      /\ \A i \in 1 .. s : j.bytes[i] = a.bytes[i]
      /\ \A i \in 1 .. Size(b) : j.bytes[s + i] = b.bytes[i]
  <2>1. a \in ChunkLists /\ b \in ChunkLists
    BY <1>1
  <2> HIDE DEF b
  <2> QED BY ONLY <2>1, <1>4, JoinedFacts
<1> HIDE DEF s, b, j
<1>6. j.ends = a.ends \cup {e}
  <2>1. s + (e - s) = e
    BY <1>1
  <2> QED BY <1>1, <1>5, <2>1
<1>7. IsChunk(j, s, e)
  <2>1. \A x \in j.ends : x <= s \/ x >= e
    BY <1>1, <1>3, <1>6
  <2> QED BY <1>1, <1>3, <1>6, <2>1 DEF IsChunk
<1>8. \A i \in 1 .. e - s : j.bytes[s + i] = base.bytes[s + i]
  BY <1>1, <1>5
<1>9. SubSeq(j.bytes, s + 1, e) = SubSeq(base.bytes, s + 1, e)
  <2> DEFINE p == SubSeq(j.bytes, s + 1, e)  q == SubSeq(base.bytes, s + 1, e)
  <2>1. p \in Seq(Byte) /\ Len(p) = e - s /\ \A i \in 1 .. e - s : p[i] = j.bytes[s + i]
    <3>1. j.bytes \in Seq(Byte) /\ Len(j.bytes) = e
      BY <1>4, <1>5, ListFacts
    <3>2. s \in Nat /\ e \in Nat /\ s <= e /\ e <= Len(j.bytes)
      BY ONLY <1>1, <3>1
    <3> QED BY ONLY <3>1, <3>2, SliceFacts
  <2>2. q \in Seq(Byte) /\ Len(q) = e - s /\ \A i \in 1 .. e - s : q[i] = base.bytes[s + i]
    <3>1. s \in Nat /\ e \in Nat /\ s <= e /\ e <= Len(base.bytes) /\ base.bytes \in Seq(Byte)
      BY ONLY <1>1, <1>2
    <3> QED BY ONLY <3>1, SliceFacts
  <2> HIDE DEF p, q
  <2>3. \A i \in 1 .. e - s : p[i] = q[i]
    BY <1>8, <2>1, <2>2
  <2>4. p = q
    BY ONLY <2>1, <2>2, <2>3, SeqEqual
  <2> QED BY <2>4 DEF p, q
<1> QED BY <1>4, <1>5, <1>7, <1>8, <1>9 DEF j, b, s

-----------------------------------------------------------------------------
(* What a truncation makes of the spans.                                   *)

\* A clipped span.
LEMMA ClipFacts ==
    ASSUME NEW sp \in SpanRec, NEW n \in Nat, sp.start < n
    PROVE  /\ Clip(sp, n) \in SpanRec /\ Clip(sp, n).start = sp.start /\ End(Clip(sp, n)) = Lower(End(sp), n)
           /\ \A x \in Nat : Covers(Clip(sp, n), x) => ByteOf(Clip(sp, n), x) = ByteOf(sp, x)
<1> DEFINE p == sp.start  L == Len(sp.data)  l == Lower(L, n - p)  d == SubSeq(sp.data, 1, l)  cl == Clip(sp, n)
<1>1. p \in Nat /\ sp.data \in Seq(Byte) /\ L \in Nat /\ L > 0 /\ End(sp) = p + L /\ p < n
  BY SpanFacts
<1>2. cl = Span(p, d)
  BY DEF Clip
<1>3. l = Lower(L, n - p)
  OBVIOUS
<1> HIDE DEF p, l, cl
<1>4. l \in Nat /\ l <= L /\ l > 0 /\ (l = L \/ l = n - p) /\ l <= n - p
  <2> HIDE DEF L
  <2> QED BY <1>1, <1>3 DEF Lower
<1>5. d \in Seq(Byte) /\ Len(d) = l /\ \A i \in 1 .. l : d[i] = sp.data[i]
  BY <1>1, <1>4, PrefixFacts
<1> HIDE DEF L, d
<1>6. cl \in SpanRec /\ cl.start = p /\ cl.data = d /\ End(cl) = p + l
  <2>1. Len(d) > 0
    BY <1>4, <1>5
  <2> QED BY <1>1, <1>2, <1>5, <2>1, SpanMade
<1>7. End(cl) = Lower(End(sp), n)
  BY <1>1, <1>4, <1>6 DEF Lower
<1>8. ASSUME NEW x \in Nat, Covers(cl, x) PROVE ByteOf(cl, x) = ByteOf(sp, x)
  <2>1. x - p + 1 \in 1 .. l
    BY <1>1, <1>4, <1>6, <1>8 DEF Covers
  <2> QED BY <1>5, <1>6, <2>1 DEF ByteOf, p
<1> QED BY <1>6, <1>7, <1>8 DEF cl, p

\* Clipped spans hold the old bytes below n, in the old order.
LEMMA ClippedFacts ==
    ASSUME spans \in Seq(SpanRec), NEW n \in Nat, NEW sps \in Clipped(n)
    PROVE  /\ sps \in Seq(SpanRec) /\ \A k \in DOMAIN sps : End(sps[k]) <= n /\ sps[k].start < n
           /\ Apart(spans) => Apart(sps)
           /\ \A len \in Nat : InOrder(spans, len) => InOrder(sps, len)
           /\ \A x \in Nat : x < n =>
                  /\ \A i \in DOMAIN spans : Covers(spans[i], x) =>
                         \E k \in DOMAIN sps : Covers(sps[k], x) /\ ByteOf(sps[k], x) = ByteOf(spans[i], x)
                  /\ (\A i \in DOMAIN spans : ~Covers(spans[i], x)) => \A k \in DOMAIN sps : ~Covers(sps[k], x)
<1> DEFINE I == {i \in DOMAIN spans : spans[i].start < n}  c == Cardinality(I)
<1>1. PICK m \in Bijection(1 .. c, I) :
          /\ \A a, b \in 1 .. c : a < b => m[a] < m[b]
          /\ sps = [k \in 1 .. c |-> Clip(spans[m[k]], n)]
  BY DEF Clipped, ClippedTo
<1>2. Len(spans) \in Nat /\ DOMAIN spans = 1 .. Len(spans)
  BY SpansFacts
<1>3. I \subseteq 0 .. Len(spans)
  BY <1>2
<1>4. \A i \in I : i \in DOMAIN spans /\ i \in Nat /\ i >= 1 /\ spans[i] \in SpanRec /\ spans[i].start < n
  BY <1>2, SpansFacts
<1>5. \A i \in DOMAIN spans : spans[i].start < n => i \in I
  OBVIOUS
<1> HIDE DEF I
<1>6. IsFiniteSet(I)
  BY ONLY <1>2, <1>3, BoundedFinite
<1>7. /\ c \in Nat /\ m \in [1 .. c -> I]
      /\ \A i, j \in 1 .. c : m[i] = m[j] => i = j
      /\ \A p \in I : \E k \in 1 .. c : m[k] = p
  <2>1. m \in Bijection(1 .. Cardinality(I), I)
    BY <1>1
  <2> QED BY ONLY <1>6, <2>1, ListingFacts
<1> HIDE DEF c
<1>8. ASSUME NEW k \in 1 .. c
      PROVE  /\ m[k] \in DOMAIN spans /\ m[k] \in Nat /\ m[k] >= 1 /\ spans[m[k]] \in SpanRec /\ sps[k] \in SpanRec
             /\ sps[k].start = spans[m[k]].start /\ sps[k].start < n
             /\ End(sps[k]) = Lower(End(spans[m[k]]), n)
             /\ \A x \in Nat : Covers(sps[k], x) => ByteOf(sps[k], x) = ByteOf(spans[m[k]], x)
  <2>1. m[k] \in I /\ sps[k] = Clip(spans[m[k]], n)
    BY <1>1, <1>7
  <2>2. m[k] \in DOMAIN spans /\ m[k] \in Nat /\ m[k] >= 1 /\ spans[m[k]] \in SpanRec /\ spans[m[k]].start < n
    BY <1>4, <2>1
  <2>3. /\ Clip(spans[m[k]], n) \in SpanRec /\ Clip(spans[m[k]], n).start = spans[m[k]].start
        /\ End(Clip(spans[m[k]], n)) = Lower(End(spans[m[k]]), n)
        /\ \A x \in Nat : Covers(Clip(spans[m[k]], n), x) => ByteOf(Clip(spans[m[k]], n), x) = ByteOf(spans[m[k]], x)
    <3> DEFINE sp == spans[m[k]]
    <3>1. sp \in SpanRec /\ sp.start < n /\ n \in Nat
      BY <2>2
    <3> HIDE DEF sp
    <3>2. /\ Clip(sp, n) \in SpanRec /\ Clip(sp, n).start = sp.start /\ End(Clip(sp, n)) = Lower(End(sp), n)
          /\ \A x \in Nat : Covers(Clip(sp, n), x) => ByteOf(Clip(sp, n), x) = ByteOf(sp, x)
      BY ONLY <3>1, ClipFacts
    <3> QED BY ONLY <3>2, Zenon DEF sp
  <2> QED BY ONLY <2>1, <2>2, <2>3, Zenon
<1>9. sps \in [1 .. c -> SpanRec]
  BY <1>1, <1>8
<1>10. sps \in Seq(SpanRec) /\ DOMAIN sps = 1 .. c
  BY ONLY <1>7, <1>9, FunctionIsSequence
<1>11. ASSUME NEW k \in 1 .. c
       PROVE  /\ End(spans[m[k]]) \in Nat /\ spans[m[k]].start \in Nat /\ End(sps[k]) \in Nat
              /\ End(sps[k]) <= n /\ End(sps[k]) <= End(spans[m[k]])
              /\ End(sps[k]) = End(spans[m[k]]) \/ End(sps[k]) = n
  <2> DEFINE e == End(spans[m[k]])  f == End(sps[k])
  <2>1. e \in Nat /\ spans[m[k]].start \in Nat /\ f = Lower(e, n)
    BY <1>8, SpanFacts
  <2> HIDE DEF e, f
  <2>2. f \in Nat /\ f <= n /\ f <= e /\ (f = e \/ f = n)
    BY <2>1 DEF Lower
  <2> QED BY <2>1, <2>2 DEF e, f
<1>12. ASSUME Apart(spans) PROVE Apart(sps)
  <2> SUFFICES ASSUME NEW a \in 1 .. c, NEW b \in 1 .. c, a # b
               PROVE  End(sps[a]) <= sps[b].start \/ End(sps[b]) <= sps[a].start
    BY <1>10 DEF Apart
  <2> DEFINE s == spans[m[a]].start  e == End(spans[m[a]])  u == spans[m[b]].start  v == End(spans[m[b]])
             e2 == End(sps[a])  v2 == End(sps[b])
  <2>1. m[a] # m[b] /\ m[a] \in DOMAIN spans /\ m[b] \in DOMAIN spans
    BY <1>7, <1>8
  <2>2. e <= u \/ v <= s
    BY <1>12, <2>1 DEF Apart
  <2>3. /\ s \in Nat /\ e \in Nat /\ u \in Nat /\ v \in Nat /\ e2 \in Nat /\ v2 \in Nat
        /\ e2 <= e /\ v2 <= v /\ sps[a].start = s /\ sps[b].start = u
    BY <1>8, <1>11
  <2> HIDE DEF s, e, u, v, e2, v2
  <2>4. e2 <= u \/ v2 <= s
    BY ONLY <2>2, <2>3
  <2> QED BY <2>3, <2>4 DEF e2, v2
<1>13. ASSUME NEW len \in Nat, InOrder(spans, len) PROVE InOrder(sps, len)
  <2> SUFFICES ASSUME NEW a \in 1 .. c, NEW b \in 1 .. c, a < b
               PROVE  sps[a].start < sps[b].start \/ (a = 1 /\ sps[1].start >= len)
    BY <1>10 DEF InOrder
  <2>1. m[a] < m[b] /\ m[a] \in DOMAIN spans /\ m[b] \in DOMAIN spans
    BY <1>1, <1>8
  <2>2. spans[m[a]].start < spans[m[b]].start \/ (m[a] = 1 /\ spans[1].start >= len)
    BY <1>13, <2>1 DEF InOrder
  <2>3. CASE spans[m[a]].start < spans[m[b]].start
    BY <1>8, <2>3
  <2>4. CASE m[a] = 1 /\ spans[1].start >= len
    <3>1. a = 1
      <4> SUFFICES ASSUME a # 1 PROVE FALSE
        OBVIOUS
      <4>1. 1 \in 1 .. c /\ 1 < a
        BY <1>7
      <4>2. m[1] < m[a]
        BY <1>1, <4>1
      <4>3. m[1] \in Nat /\ m[1] >= 1
        BY <1>8, <4>1
      <4> QED BY <2>4, <4>2, <4>3
    <3>2. sps[a].start = spans[m[a]].start
      BY <1>8
    <3> QED BY <2>4, <3>1, <3>2
  <2> QED BY <2>2, <2>3, <2>4
<1>14. ASSUME NEW x \in Nat, x < n, NEW i \in DOMAIN spans, Covers(spans[i], x)
       PROVE  \E k \in DOMAIN sps : Covers(sps[k], x) /\ ByteOf(sps[k], x) = ByteOf(spans[i], x)
  <2>1. spans[i].start < n
    <3> DEFINE s == spans[i].start
    <3>1. s \in Nat /\ s <= x
      BY <1>14, SpansFacts, SpanFacts DEF Covers
    <3> HIDE DEF s
    <3>2. s < n
      BY ONLY <1>14, <3>1, n \in Nat, x \in Nat
    <3> QED BY <3>2 DEF s
  <2>2. PICK k \in 1 .. c : m[k] = i
    BY <1>5, <1>7, <2>1
  <2>3. Covers(sps[k], x)
    <3>1. sps[k].start = spans[i].start /\ (End(sps[k]) = End(spans[i]) \/ End(sps[k]) = n)
      BY <1>8, <1>11, <2>2
    <3> QED BY <1>14, <3>1 DEF Covers
  <2>4. ByteOf(sps[k], x) = ByteOf(spans[i], x)
    BY <1>8, <2>2, <2>3
  <2> QED BY <1>10, <2>3, <2>4
<1>15. ASSUME NEW x \in Nat, x < n, \A i \in DOMAIN spans : ~Covers(spans[i], x), NEW k \in 1 .. c, Covers(sps[k], x)
       PROVE  FALSE
  <2> DEFINE e == End(spans[m[k]])  f == End(sps[k])
  <2>1. e \in Nat /\ f \in Nat /\ f <= e /\ sps[k].start = spans[m[k]].start /\ m[k] \in DOMAIN spans /\ x < f
    BY <1>8, <1>11, <1>15 DEF Covers
  <2>2. x < e
    <3> HIDE DEF e, f
    <3> QED BY ONLY <2>1, x \in Nat
  <2>3. Covers(spans[m[k]], x)
    BY <1>15, <2>1, <2>2 DEF Covers
  <2> QED BY <1>15, <2>1, <2>3
<1> QED BY <1>8, <1>10, <1>11, <1>12, <1>13, <1>14, <1>15

\* A span put before a list of spans.
LEMMA HeadFacts ==
    ASSUME NEW h \in SpanRec, NEW sps \in Seq(SpanRec)
    PROVE  /\ <<h>> \o sps \in Seq(SpanRec) /\ DOMAIN (<<h>> \o sps) = 1 .. (1 + Len(sps)) /\ (<<h>> \o sps)[1] = h
           /\ \A k \in DOMAIN sps : k + 1 \in DOMAIN (<<h>> \o sps) /\ (<<h>> \o sps)[k + 1] = sps[k]
           /\ \A k \in DOMAIN (<<h>> \o sps) : k = 1 \/ (k - 1 \in DOMAIN sps /\ (<<h>> \o sps)[k] = sps[k - 1])
<1> DEFINE l == Len(sps)  new == <<h>> \o sps
<1>1. l \in Nat /\ DOMAIN sps = 1 .. l /\ <<h>> \in Seq(SpanRec) /\ Len(<<h>>) = 1 /\ <<h>>[1] = h
  BY SequenceFacts
<1>2. /\ new \in Seq(SpanRec) /\ Len(new) = Len(<<h>>) + l
      /\ \A i \in 1 .. Len(<<h>>) + l : new[i] = IF i <= Len(<<h>>) THEN <<h>>[i] ELSE sps[i - Len(<<h>>)]
  BY <1>1, ConcatProperties
<1>3. /\ Len(new) = 1 + l /\ \A i \in 1 .. 1 + l : new[i] = IF i <= 1 THEN <<h>>[i] ELSE sps[i - 1]
  BY ONLY <1>1, <1>2
<1>4. DOMAIN new = 1 .. (1 + l)
  BY <1>2, <1>3, SequenceFacts
<1> HIDE DEF new, l
<1>5. new[1] = h
  <2>1. 1 \in 1 .. 1 + l /\ 1 <= 1
    BY <1>1
  <2> QED BY ONLY <1>1, <1>3, <2>1
<1>6. ASSUME NEW k \in DOMAIN sps PROVE k + 1 \in DOMAIN new /\ new[k + 1] = sps[k]
  <2>1. k + 1 \in 1 .. 1 + l /\ ~(k + 1 <= 1) /\ (k + 1) - 1 = k
    BY <1>1
  <2> QED BY ONLY <1>3, <1>4, <2>1
<1>7. ASSUME NEW k \in DOMAIN new PROVE k = 1 \/ (k - 1 \in DOMAIN sps /\ new[k] = sps[k - 1])
  <2> SUFFICES ASSUME k # 1 PROVE k - 1 \in DOMAIN sps /\ new[k] = sps[k - 1]
    OBVIOUS
  <2>1. k \in 1 .. 1 + l /\ ~(k <= 1) /\ k - 1 \in DOMAIN sps
    BY <1>1, <1>4
  <2> QED BY ONLY <1>3, <2>1
<1> QED BY <1>2, <1>4, <1>5, <1>6, <1>7 DEF new, l

\* A head after all other spans keeps them disjoint and ordered above its start.
LEMMA HeadOrder ==
    ASSUME NEW h \in SpanRec, NEW sps \in Seq(SpanRec), NEW len \in Nat, h.start >= len,
           Apart(sps), \A k \in DOMAIN sps : End(sps[k]) <= h.start,
           \A i, j \in DOMAIN sps : i < j => sps[i].start < sps[j].start
    PROVE  Apart(<<h>> \o sps) /\ InOrder(<<h>> \o sps, len)
<1> DEFINE new == <<h>> \o sps
<1>1. /\ DOMAIN new = 1 .. (1 + Len(sps)) /\ new[1] = h
      /\ \A k \in DOMAIN new : k = 1 \/ (k - 1 \in DOMAIN sps /\ new[k] = sps[k - 1])
  BY HeadFacts
<1>2. Len(sps) \in Nat /\ DOMAIN sps = 1 .. Len(sps)
  BY SequenceFacts
<1> HIDE DEF new
<1>3. Apart(new)
  <2> SUFFICES ASSUME NEW a \in DOMAIN new, NEW b \in DOMAIN new, a # b
               PROVE  End(new[a]) <= new[b].start \/ End(new[b]) <= new[a].start
    BY DEF Apart
  <2>1. CASE a = 1
    BY <1>1, <2>1
  <2>2. CASE b = 1
    BY <1>1, <2>2
  <2>3. CASE a # 1 /\ b # 1
    <3>1. a - 1 \in DOMAIN sps /\ b - 1 \in DOMAIN sps /\ new[a] = sps[a - 1] /\ new[b] = sps[b - 1]
      BY <1>1, <2>3
    <3>2. a - 1 # b - 1
      BY <1>1, <1>2
    <3> QED BY <3>1, <3>2 DEF Apart
  <2> QED BY <2>1, <2>2, <2>3
<1>4. InOrder(new, len)
  <2> SUFFICES ASSUME NEW a \in DOMAIN new, NEW b \in DOMAIN new, a < b
               PROVE  new[a].start < new[b].start \/ (a = 1 /\ new[1].start >= len)
    BY DEF InOrder
  <2>1. CASE a = 1
    BY <1>1, <2>1
  <2>2. CASE a # 1
    <3>1. b # 1 /\ a - 1 < b - 1
      BY <1>1, <1>2
    <3>2. a - 1 \in DOMAIN sps /\ b - 1 \in DOMAIN sps /\ new[a] = sps[a - 1] /\ new[b] = sps[b - 1]
      BY <1>1, <2>2, <3>1
    <3> QED BY <3>1, <3>2
  <2> QED BY <2>1, <2>2
<1> QED BY <1>3, <1>4 DEF new

\* What Truncate keeps of the settled prefix.
LEMMA KeptFacts ==
    ASSUME settled \in ChunkLists, NEW n \in Nat, Size(settled) > n
    PROVE  /\ Kept(n) \in Nat /\ Kept(n) <= n /\ Kept(n) <= Size(settled)
           /\ WholeChunks(n) \in ChunkLists /\ Size(WholeChunks(n)) = Kept(n)
           /\ \A i \in 1 .. Kept(n) : WholeChunks(n).bytes[i] = settled.bytes[i]
<1> DEFINE E == {e \in settled.ends : e <= n}  K == Kept(n)  d == SubSeq(settled.bytes, 1, K)  z == Size(settled)
<1>1. /\ z \in Nat /\ z = Len(settled.bytes) /\ settled.bytes \in Seq(Byte) /\ z <= MaxLength
      /\ \A e \in settled.ends : e \in Nat /\ e >= 1 /\ e <= z
  BY ListFacts
<1>2. {0} \cup E \subseteq 0 .. n /\ {0} \cup E # {}
  BY <1>1
<1>3. K = Max({0} \cup E)
  BY DEF Kept
<1>4. K \in {0} \cup E /\ K \in Nat /\ K <= n /\ \A y \in {0} \cup E : K >= y
  <2> HIDE DEF E, K
  <2> QED BY <1>2, <1>3, MaxFacts
<1>5. WholeChunks(n) = Chunks(d, E)
  BY DEF WholeChunks
<1>6. z > n
  OBVIOUS
<1> HIDE DEF K, z
<1>7. K <= z /\ K <= Len(settled.bytes) /\ K <= MaxLength
  BY ONLY <1>1, <1>4, <1>6, BoundsAssumption, n \in Nat
<1>8. d \in Seq(Byte) /\ Len(d) = K /\ \A i \in 1 .. K : d[i] = settled.bytes[i]
  BY <1>1, <1>4, <1>7, PrefixFacts
<1> HIDE DEF d
<1>9. \A e \in E : e \in 1 .. K
  BY <1>1, <1>4
<1>10. Len(d) <= MaxLength /\ (\A e \in E : e \in 1 .. Len(d)) /\ (Len(d) = 0 \/ Len(d) \in E)
  BY <1>4, <1>7, <1>8, <1>9
<1> HIDE DEF E
<1>11. /\ Chunks(d, E) \in ChunkLists /\ Size(Chunks(d, E)) = Len(d)
       /\ Chunks(d, E).bytes = d /\ Chunks(d, E).ends = E
  BY ONLY <1>8, <1>10, ListMade
<1> QED BY <1>4, <1>5, <1>7, <1>8, <1>11 DEF K, z

\* The head that Truncate brings back.
LEMMA CutHeadFacts ==
    ASSUME settled \in ChunkLists, NEW n \in Nat, Size(settled) > n, Kept(n) < n
    PROVE  LET h == Span(Kept(n), SubSeq(settled.bytes, Kept(n) + 1, n))
           IN  /\ CutHead(n) = <<h>> /\ h \in SpanRec /\ h.start = Kept(n) /\ End(h) = n
               /\ \A x \in Nat : Kept(n) <= x /\ x < n => ByteOf(h, x) = settled.bytes[x + 1]
<1> DEFINE K == Kept(n)  d == SubSeq(settled.bytes, K + 1, n)  h == Span(K, d)
<1>1. /\ Size(settled) \in Nat /\ Size(settled) = Len(settled.bytes) /\ settled.bytes \in Seq(Byte)
  BY ListFacts
<1>2. K \in Nat /\ K < n /\ n <= Len(settled.bytes) /\ K <= n
  BY <1>1, KeptFacts
<1>3. CutHead(n) = <<h>>
  BY DEF CutHead
<1> HIDE DEF K
<1>4. d \in Seq(Byte) /\ Len(d) = n - K /\ \A i \in 1 .. n - K : d[i] = settled.bytes[K + i]
  <2>1. K \in Nat /\ n \in Nat /\ K <= n /\ n <= Len(settled.bytes) /\ settled.bytes \in Seq(Byte)
    BY <1>1, <1>2
  <2> QED BY ONLY <2>1, SliceFacts
<1> HIDE DEF d
<1>5. h \in SpanRec /\ h.start = K /\ h.data = d /\ End(h) = n
  <2>1. Len(d) > 0 /\ K + Len(d) = n
    BY ONLY <1>2, <1>4, n \in Nat
  <2>2. h \in SpanRec /\ h.start = K /\ h.data = d /\ End(h) = K + Len(d)
    BY ONLY <1>2, <1>4, <2>1, SpanMade
  <2> QED BY ONLY <2>1, <2>2
<1>6. ASSUME NEW x \in Nat, K <= x, x < n PROVE ByteOf(h, x) = settled.bytes[x + 1]
  <2>1. x - K + 1 \in 1 .. n - K /\ K + (x - K + 1) = x + 1
    BY ONLY <1>2, <1>6, n \in Nat, x \in Nat
  <2>2. ByteOf(h, x) = d[x - K + 1]
    BY <1>5 DEF ByteOf
  <2>3. d[x - K + 1] = settled.bytes[K + (x - K + 1)]
    BY ONLY <1>4, <2>1
  <2> QED BY ONLY <2>1, <2>2, <2>3
<1> QED BY <1>3, <1>5, <1>6 DEF h, d, K

-----------------------------------------------------------------------------
(* The cache against the plain file.                                       *)

\* Disjoint ordered spans over a settled prefix and a base show a content.
Matches(sps, st, stLen, bs, bsLen, len, con) ==
    /\ Apart(sps) /\ InOrder(sps, stLen)
    /\ len = Len(con) /\ stLen <= len
    /\ \A off \in 0 .. (len - 1) : Shown(sps, st, stLen, bs, bsLen, off) = con[off + 1]

\* The parts of the type invariant.
LEMMA TypeFacts ==
    ASSUME TypeOK
    PROVE  /\ file \in ChunkLists /\ base \in ChunkLists /\ settled \in ChunkLists /\ result \in ChunkLists
           /\ spans \in Seq(SpanRec) /\ \A i \in DOMAIN spans : End(spans[i]) <= length
           /\ length \in Nat /\ length <= MaxLength /\ MaxLength \in Nat
           /\ settledLen = Size(settled) /\ settledLen \in Nat /\ settledLen = Len(settled.bytes)
           /\ baseLen \in Nat /\ baseLen <= length /\ baseLen <= Size(base) /\ Size(base) = Len(base.bytes)
           /\ settled.bytes \in Seq(Byte) /\ base.bytes \in Seq(Byte)
           /\ content \in Seq(Byte) /\ saved \in Seq(Byte)
<1>1. /\ file \in ChunkLists /\ base \in ChunkLists /\ settled \in ChunkLists /\ result \in ChunkLists
      /\ spans \in Seq(SpanRec) /\ \A i \in DOMAIN spans : End(spans[i]) <= length
      /\ settledLen = Size(settled) /\ content \in Seq(Byte) /\ saved \in Seq(Byte)
  BY DEF TypeOK, SpanRec
<1>2. length \in Nat /\ length <= MaxLength /\ MaxLength \in Nat
  BY BoundsAssumption DEF TypeOK
<1>3. /\ settledLen \in Nat /\ settledLen = Len(settled.bytes) /\ settled.bytes \in Seq(Byte)
      /\ Size(base) \in Nat /\ Size(base) = Len(base.bytes) /\ base.bytes \in Seq(Byte)
  BY <1>1, ListFacts
<1>4. baseLen \in Nat /\ baseLen <= length /\ baseLen <= Size(base)
  <2> DEFINE z == Size(base)
  <2>1. baseLen \in 0 .. Lower(length, z) /\ z \in Nat
    BY <1>3 DEF TypeOK
  <2> HIDE DEF z
  <2>2. baseLen \in Nat /\ baseLen <= length /\ baseLen <= z
    BY ONLY <1>2, <2>1 DEF Lower
  <2> QED BY <2>2 DEF z
<1> QED BY <1>1, <1>2, <1>3, <1>4

\* The parts of what the invariant says of an untainted state.
LEMMA ShowsFacts ==
    ASSUME ~tainted, ShowsContent
    PROVE  /\ file.bytes = saved /\ (~open => content = saved)
           /\ Matches(spans, settled, settledLen, base, baseLen, length, content)
           /\ phase = "finalizing" =>
                  Position <= length /\ \A off \in 0 .. (Position - 1) : result.bytes[off + 1] = content[off + 1]
<1>1. Apart(spans) /\ InOrder(spans, settledLen)
  BY DEF ShowsContent, SpansDisjoint, SpansOrdered, Apart, InOrder
<1>2. \A off \in 0 .. (length - 1) : Shown(spans, settled, settledLen, base, baseLen, off) = content[off + 1]
  BY ReadByteShown DEF ShowsContent
<1>3. length = Len(content) /\ settledLen <= length
  BY DEF ShowsContent
<1>4. Matches(spans, settled, settledLen, base, baseLen, length, content)
  BY <1>1, <1>2, <1>3 DEF Matches
<1> QED BY <1>4 DEF ShowsContent, SpliceExact

\* The same of the next state.
LEMMA ShowsNext ==
    ASSUME file'.bytes = saved', ~open' => content' = saved',
           Matches(spans', settled', settledLen', base', baseLen', length', content'),
           phase' = "finalizing" =>
               Position' <= length' /\ \A off \in 0 .. (Position' - 1) : result'.bytes[off + 1] = content'[off + 1]
    PROVE  ShowsContent'
<1>1. Apart(spans') /\ InOrder(spans', settledLen') /\ length' = Len(content') /\ settledLen' <= length'
  BY DEF Matches
<1>2. SpansDisjoint' /\ SpansOrdered'
  BY <1>1 DEF SpansDisjoint, SpansOrdered, Apart, InOrder
<1>3. ASSUME NEW off \in 0 .. (length' - 1) PROVE ReadByte(off)' = content'[off + 1]
  <2>1. ReadByte(off)' = Shown(spans', settled', settledLen', base', baseLen', off)
    BY DEF ReadByte, Shown, Covering, Over
  <2> QED BY <2>1 DEF Matches
<1> QED BY <1>1, <1>2, <1>3 DEF ShowsContent, SpliceExact

\* A fresh cache shows the version it is over.
LEMMA FreshMatches ==
    ASSUME NEW list \in ChunkLists
    PROVE  Matches(<<>>, NoChunks, 0, list, Size(list), Size(list), list.bytes)
<1>1. Size(list) \in Nat /\ Size(list) = Len(list.bytes)
  BY ListFacts
<1>2. DOMAIN <<>> = {}
  OBVIOUS
<1>3. Apart(<<>>) /\ InOrder(<<>>, 0)
  BY <1>2 DEF Apart, InOrder
<1>4. ASSUME NEW off \in 0 .. (Size(list) - 1)
      PROVE  Shown(<<>>, NoChunks, 0, list, Size(list), off) = list.bytes[off + 1]
  <2>1. ~(off < 0) /\ off < Size(list)
    BY <1>1
  <2>2. Shown(<<>>, NoChunks, 0, list, Size(list), off) =
            IF off < 0 THEN NoChunks.bytes[off + 1]
            ELSE IF off < Size(list) THEN list.bytes[off + 1] ELSE Zero
    BY <1>2, ShownUncovered
  <2> QED BY ONLY <2>1, <2>2
<1> QED BY <1>1, <1>3, <1>4 DEF Matches

\* The bytes of a call.
LEMMA DataFacts ==
    ASSUME NEW k \in Nat, NEW n \in Nat
    PROVE  Data(k, n) \in Seq(Byte) /\ Len(Data(k, n)) = n
<1>1. \A i \in 1 .. n : <<k, i>> \in Byte
  BY DEF Byte
<1>2. Data(k, n) \in [1 .. n -> Byte]
  BY <1>1 DEF Data
<1> QED BY <1>2, FunctionIsSequence

\* What a write makes of the spans is spans, and no longer than the file.
LEMMA WriteSpansType ==
    ASSUME TypeOK, NEW off \in Nat, NEW data \in Seq(Byte), Len(data) > 0, NEW sps \in WriteSpans(off, data)
    PROVE  sps \in Seq(SpanRec) /\ \A k \in DOMAIN sps : End(sps[k]) <= Higher(length, off + Len(data))
<1>1. /\ spans \in Seq(SpanRec) /\ (\A i \in DOMAIN spans : End(spans[i]) <= length) /\ length \in Nat
      /\ Len(data) \in Nat /\ data # <<>>
  BY TypeFacts, SequenceFacts, EmptySeq
<1>2. CASE InPlace(off, data)
  <2>1. sps = Extended(off, data)
    BY <1>1, <1>2 DEF WriteSpans
  <2>2. PICK i \in DOMAIN spans : i = Min(Reached(off)) /\ End(spans[i]) >= off /\ spans[i].start <= off
    BY <1>1, <1>2, InPlaceFacts
  <2>3. /\ sps \in Seq(SpanRec) /\ DOMAIN sps = DOMAIN spans
        /\ \A j \in DOMAIN spans : j # i => sps[j] = spans[j]
        /\ End(sps[i]) = Higher(off + Len(data), End(spans[i]))
    <3>1. /\ spans \in Seq(SpanRec) /\ off \in Nat /\ data \in Seq(Byte) /\ Len(data) > 0 /\ i \in DOMAIN spans
          /\ i = Min(Reached(off)) /\ End(spans[i]) >= off /\ spans[i].start <= off /\ sps = Extended(off, data)
      BY <1>1, <2>1, <2>2
    <3> QED BY ONLY <3>1, ExtendedFacts
  <2>4. ASSUME NEW k \in DOMAIN sps PROVE End(sps[k]) <= Higher(length, off + Len(data))
    <3> DEFINE e == End(spans[k])  n == Len(data)  e2 == End(sps[k])
    <3>1. e \in Nat /\ e <= length /\ n \in Nat /\ length \in Nat
      BY <1>1, <2>3, SpansFacts, SpanFacts
    <3>2. e2 = e \/ e2 = Higher(off + n, e)
      BY <2>3
    <3> HIDE DEF e, n, e2
    <3>3. e2 <= Higher(length, off + n)
      BY ONLY <3>1, <3>2, off \in Nat DEF Higher
    <3> QED BY <3>3 DEF e2, n
  <2> QED BY <2>3, <2>4
<1>3. CASE ~InPlace(off, data)
  <2>1. sps \in Coalesced(off, data)
    BY <1>1, <1>3 DEF WriteSpans
  <2> QED BY <1>1, <2>1, CoalescedList
<1> QED BY <1>2, <1>3

\* A write shows in the cache as it does in the plain file.
LEMMA WriteMatches ==
    ASSUME TypeOK, Matches(spans, settled, settledLen, base, baseLen, length, content),
           NEW off \in Nat, NEW data \in Seq(Byte), Len(data) > 0, NEW sps \in WriteSpans(off, data)
    PROVE  Matches(sps, settled, settledLen, base, baseLen, Higher(length, off + Len(data)), Overlaid(content, off, data))
<1> DEFINE n == Len(data)  len == Higher(length, off + n)  con == Overlaid(content, off, data)
           Old(x) == Shown(spans, settled, settledLen, base, baseLen, x)
           New(x) == Shown(sps, settled, settledLen, base, baseLen, x)
           Under(x) == IF x < settledLen THEN settled.bytes[x + 1] ELSE IF x < baseLen THEN base.bytes[x + 1] ELSE Zero
<1>1. /\ spans \in Seq(SpanRec) /\ (\A i \in DOMAIN spans : End(spans[i]) <= length) /\ length \in Nat
      /\ n \in Nat /\ n > 0 /\ data # <<>> /\ settledLen \in Nat /\ baseLen \in Nat /\ baseLen <= length
      /\ content \in Seq(Byte)
  BY TypeFacts, SequenceFacts, EmptySeq
<1>2. /\ Apart(spans) /\ InOrder(spans, settledLen) /\ length = Len(content) /\ settledLen <= length
      /\ \A x \in 0 .. (length - 1) : Old(x) = content[x + 1]
  BY DEF Matches
<1>3. sps \in Seq(SpanRec)
  BY WriteSpansType
<1>4. Apart(sps) /\ InOrder(sps, settledLen) /\ Overlays(sps, spans, off, data)
  <2>1. CASE InPlace(off, data)
    <3>1. sps = Extended(off, data)
      BY <1>1, <2>1 DEF WriteSpans
    <3> QED BY <1>1, <1>2, <2>1, <3>1, ExtendedOverlays
  <2>2. CASE ~InPlace(off, data)
    <3>1. sps \in Coalesced(off, data)
      BY <1>1, <2>2 DEF WriteSpans
    <3> QED BY <1>1, <1>2, <3>1, CoalescedOverlays
  <2> QED BY <2>1, <2>2
<1>5. /\ con \in Seq(Byte) /\ Len(con) = Higher(off + n, Len(content))
      /\ \A i \in 1 .. Higher(off + n, Len(content)) :
             con[i] = IF i > off /\ i <= off + n THEN data[i - off]
                      ELSE IF i <= Len(content) THEN content[i] ELSE Zero
  BY <1>1, OverlaidFacts
<1>20. len = Higher(length, off + n)
  OBVIOUS
<1> HIDE DEF n, con, len
<1>6. Len(con) = len /\ len \in Nat /\ length <= len /\ off + n <= len /\ (len = length \/ len = off + n)
  BY ONLY <1>1, <1>2, <1>5, <1>20, off \in Nat DEF Higher
<1>7. settledLen <= len
  BY <1>1, <1>2, <1>6
<1>8. ASSUME NEW x \in 0 .. (len - 1) PROVE New(x) = con[x + 1]
  <2>1. x \in Nat /\ x < len /\ x + 1 \in 1 .. Len(con)
    BY <1>6
  <2>2. con[x + 1] = IF x + 1 > off /\ x + 1 <= off + n THEN data[x + 1 - off]
                     ELSE IF x + 1 <= length THEN content[x + 1] ELSE Zero
    BY ONLY <1>2, <1>5, <2>1
  <2>3. CASE off <= x /\ x < off + n
    <3>1. x + 1 > off /\ x + 1 <= off + n /\ x + 1 - off = x - off + 1
      BY ONLY <1>1, <2>1, <2>3, off \in Nat
    <3>2. PICK j \in DOMAIN sps : Covers(sps[j], x) /\ ByteOf(sps[j], x) = data[x - off + 1]
      BY <1>4, <2>1, <2>3 DEF Overlays, n
    <3>3. New(x) = ByteOf(sps[j], x)
      BY <1>3, <1>4, <2>1, <3>2, ShownCovered
    <3> QED BY ONLY <2>2, <3>1, <3>2, <3>3
  <2>4. CASE ~(off <= x /\ x < off + n)
    <3>1. ~(x + 1 > off /\ x + 1 <= off + n)
      BY ONLY <1>1, <2>1, <2>4, off \in Nat
    <3>2. New(x) = Old(x)
      <4>1. CASE \E i \in DOMAIN spans : Covers(spans[i], x)
        <5>1. PICK i \in DOMAIN spans : Covers(spans[i], x)
          BY <4>1
        <5>2. PICK j \in DOMAIN sps : Covers(sps[j], x) /\ ByteOf(sps[j], x) = ByteOf(spans[i], x)
          BY <1>4, <2>1, <2>4, <5>1 DEF Overlays, n
        <5>3. New(x) = ByteOf(sps[j], x)
          BY <1>3, <1>4, <2>1, <5>2, ShownCovered
        <5>4. Old(x) = ByteOf(spans[i], x)
          BY <1>1, <1>2, <2>1, <5>1, ShownCovered
        <5> QED BY ONLY <5>2, <5>3, <5>4
      <4>2. CASE \A i \in DOMAIN spans : ~Covers(spans[i], x)
        <5>1. \A j \in DOMAIN sps : ~Covers(sps[j], x)
          BY <1>4, <2>1, <2>4, <4>2 DEF Overlays, n
        <5>2. New(x) = Under(x)
          BY <5>1, ShownUncovered
        <5>3. Old(x) = Under(x)
          BY <4>2, ShownUncovered
        <5> QED BY ONLY <5>2, <5>3
      <4> QED BY <4>1, <4>2
    <3>3. CASE x < length
      <4>1. x \in 0 .. (length - 1) /\ x + 1 <= length
        BY <1>1, <2>1, <3>3
      <4>2. Old(x) = content[x + 1]
        BY <1>2, <4>1
      <4> QED BY ONLY <2>2, <3>1, <3>2, <4>1, <4>2
    <3>4. CASE x >= length
      <4>1. ASSUME NEW i \in DOMAIN spans PROVE ~Covers(spans[i], x)
        <5> DEFINE e == End(spans[i])
        <5>1. e \in Nat /\ e <= length
          BY <1>1, SpansFacts, SpanFacts
        <5>2. ~(x < e)
          <6> HIDE DEF e
          <6> QED BY ONLY <1>1, <2>1, <3>4, <5>1
        <5> QED BY <5>2 DEF Covers
      <4>2. Old(x) = Under(x)
        BY <4>1, ShownUncovered
      <4>3. ~(x < settledLen) /\ ~(x < baseLen) /\ ~(x + 1 <= length)
        BY ONLY <1>1, <1>2, <2>1, <3>4
      <4> QED BY ONLY <2>2, <3>1, <3>2, <4>2, <4>3
    <3> QED BY <1>1, <2>1, <3>3, <3>4
  <2> QED BY <2>3, <2>4
<1> QED BY <1>4, <1>6, <1>7, <1>8 DEF Matches, len, con, n

\* How much is spilled, and from where.
LEMMA SpillLengthFacts ==
    ASSUME TypeOK, SpillLength > 0
    PROVE  /\ SpillLength \in Nat /\ 1 \in DOMAIN spans /\ spans[1] \in SpanRec /\ spans[1].start = settledLen
           /\ SpillLength < Len(spans[1].data) /\ settledLen + SpillLength <= length
           /\ settledLen + SpillLength < End(spans[1])
<1> DEFINE L == Len(spans[1].data)  E == End(spans[1])
<1>1. spans # <<>> /\ spans[1].start = settledLen /\ L > SpillThreshold /\ SpillLength = L - SpillCarry
  BY DEF SpillLength
<1>2. spans \in Seq(SpanRec) /\ (\A i \in DOMAIN spans : End(spans[i]) <= length) /\ length \in Nat /\ settledLen \in Nat
  BY TypeFacts
<1>3. 1 \in DOMAIN spans
  <2>1. Len(spans) \in Nat /\ DOMAIN spans = 1 .. Len(spans) /\ Len(spans) # 0
    BY <1>1, <1>2, SequenceFacts, EmptySeq
  <2> QED BY <2>1
<1>4. spans[1] \in SpanRec /\ E <= length
  BY <1>2, <1>3, SpansFacts
<1>5. L \in Nat /\ E = settledLen + L
  BY <1>1, <1>4, SpanFacts
<1> HIDE DEF L, E
<1>6. SpillLength \in Nat /\ SpillLength < L /\ settledLen + SpillLength <= length /\ settledLen + SpillLength < E
  BY ONLY <1>1, <1>2, <1>4, <1>5, CarryAssumption
<1> QED BY <1>1, <1>3, <1>4, <1>6 DEF L, E

\* The spans after a spill, and the list the settled prefix becomes.
LEMMA SpillFacts ==
    ASSUME TypeOK, SpillLength > 0, NEW sps,
           sps = [spans EXCEPT ![1] = Span(@.start + SpillLength, SubSeq(@.data, SpillLength + 1, Len(@.data)))],
           NEW stored \in Tilings(SubSeq(spans[1].data, 1, SpillLength))
    PROVE  /\ sps \in Seq(SpanRec) /\ DOMAIN sps = DOMAIN spans /\ \A j \in DOMAIN spans : j # 1 => sps[j] = spans[j]
           /\ sps[1].start = settledLen + SpillLength /\ End(sps[1]) = End(spans[1])
           /\ \A x \in Nat : Covers(sps[1], x) => ByteOf(sps[1], x) = ByteOf(spans[1], x)
           /\ Joined(settled, stored) \in ChunkLists /\ Size(Joined(settled, stored)) = settledLen + SpillLength
           /\ \A i \in 1 .. settledLen : Joined(settled, stored).bytes[i] = settled.bytes[i]
           /\ \A i \in 1 .. SpillLength : Joined(settled, stored).bytes[settledLen + i] = spans[1].data[i]
<1> DEFINE n == SpillLength  sp == spans[1]  L == Len(sp.data)  s == settledLen
           d == SubSeq(sp.data, n + 1, L)  h == SubSeq(sp.data, 1, n)  j == Joined(settled, stored)
<1>1. /\ n \in Nat /\ 1 \in DOMAIN spans /\ sp \in SpanRec /\ sp.start = s
      /\ n < L /\ s + n <= length /\ s + n < End(sp)
  BY SpillLengthFacts
<1>2. /\ sp.data \in Seq(Byte) /\ L \in Nat /\ End(sp) = s + L
  BY <1>1, SpanFacts
<1>3. /\ spans \in Seq(SpanRec) /\ settled \in ChunkLists /\ length \in Nat /\ s = Size(settled) /\ s \in Nat
      /\ length <= MaxLength /\ MaxLength \in Nat
  BY TypeFacts
<1>4. stored \in Tilings(h) /\ n > 0
  OBVIOUS
<1>5. sps = [spans EXCEPT ![1] = Span(sp.start + n, d)]
  OBVIOUS
<1> HIDE DEF n, sp, L, s, j
<1>6. d \in Seq(Byte) /\ Len(d) = L - n /\ \A i \in 1 .. L - n : d[i] = sp.data[n + i]
  <2>1. n \in Nat /\ L \in Nat /\ n <= L /\ L <= Len(sp.data) /\ sp.data \in Seq(Byte)
    BY <1>1, <1>2 DEF L
  <2> QED BY ONLY <2>1, SliceFacts
<1>7. h \in Seq(Byte) /\ Len(h) = n /\ \A i \in 1 .. n : h[i] = sp.data[i]
  <2>1. n \in Nat /\ n <= Len(sp.data) /\ sp.data \in Seq(Byte)
    BY <1>1, <1>2 DEF L
  <2> QED BY ONLY <2>1, PrefixFacts
<1> HIDE DEF d, h
<1>8. sps[1] = Span(s + n, d) /\ DOMAIN sps = DOMAIN spans /\ \A i \in DOMAIN spans : i # 1 => sps[i] = spans[i]
  BY <1>1, <1>5
<1>9. sps[1] \in SpanRec /\ sps[1].start = s + n /\ sps[1].data = d /\ End(sps[1]) = End(sp)
  <2>1. s + n \in Nat /\ Len(d) > 0 /\ (s + n) + Len(d) = s + L
    BY ONLY <1>1, <1>2, <1>3, <1>6
  <2> DEFINE f == s + n
  <2>2. f \in Nat /\ Len(d) > 0 /\ d \in Seq(Byte)
    BY <1>6, <2>1
  <2> HIDE DEF f
  <2>3. Span(f, d) \in SpanRec /\ Span(f, d).start = f /\ Span(f, d).data = d /\ End(Span(f, d)) = f + Len(d)
    BY ONLY <2>2, SpanMade
  <2> QED BY ONLY <1>2, <1>8, <2>1, <2>3 DEF f
<1>10. sps \in Seq(SpanRec)
  <2>1. Len(spans) \in Nat /\ DOMAIN spans = 1 .. Len(spans) /\ \A i \in DOMAIN spans : spans[i] \in SpanRec
    BY <1>3, SpansFacts
  <2>2. \A i \in 1 .. Len(spans) : sps[i] \in SpanRec
    BY <1>8, <1>9, <2>1
  <2>3. sps \in [1 .. Len(spans) -> SpanRec]
    BY <1>5, <1>8, <2>1, <2>2
  <2> QED BY ONLY <2>1, <2>3, FunctionIsSequence
<1>11. ASSUME NEW x \in Nat, Covers(sps[1], x) PROVE ByteOf(sps[1], x) = ByteOf(sp, x)
  <2>1. s + n <= x /\ x < s + L
    BY <1>2, <1>9, <1>11 DEF Covers
  <2> DEFINE k == x - (s + n) + 1
  <2>2. k \in 1 .. L - n /\ n + k = x - s + 1
    <3>1. n \in Nat /\ L \in Nat /\ s \in Nat /\ n < L /\ x \in Nat
      BY <1>1, <1>2, <1>3
    <3> QED BY ONLY <2>1, <3>1
  <2>3. ByteOf(sps[1], x) = d[k] /\ ByteOf(sp, x) = sp.data[x - s + 1]
    BY <1>1, <1>9 DEF ByteOf
  <2>4. d[k] = sp.data[n + k]
    BY ONLY <1>6, <2>2
  <2> QED BY ONLY <2>2, <2>3, <2>4
<1>12. stored \in ChunkLists /\ stored.bytes = h /\ Size(stored) = n
  <2>1. Len(h) <= MaxLength
    BY ONLY <1>1, <1>3, <1>7
  <2> QED BY <1>4, <1>7, <2>1, TilingFacts
<1>13. /\ j \in ChunkLists /\ Size(j) = s + n
       /\ \A i \in 1 .. s : j.bytes[i] = settled.bytes[i]
       /\ \A i \in 1 .. n : j.bytes[s + i] = sp.data[i]
  <2>1. Size(settled) + Size(stored) <= MaxLength
    BY ONLY <1>1, <1>3, <1>12
  <2>2. /\ j \in ChunkLists /\ Size(j) = Size(settled) + Size(stored)
        /\ \A i \in 1 .. Size(settled) : j.bytes[i] = settled.bytes[i]
        /\ \A i \in 1 .. Size(stored) : j.bytes[Size(settled) + i] = stored.bytes[i]
    BY ONLY <1>3, <1>12, <2>1, JoinedFacts DEF j
  <2> QED BY ONLY <1>3, <1>7, <1>12, <2>2
<1> QED BY <1>1, <1>8, <1>9, <1>10, <1>11, <1>13 DEF n, sp, s, j

\* A spill changes nothing that is shown.
LEMMA SpillMatches ==
    ASSUME TypeOK, Matches(spans, settled, settledLen, base, baseLen, length, content), SpillLength > 0, NEW sps,
           sps = [spans EXCEPT ![1] = Span(@.start + SpillLength, SubSeq(@.data, SpillLength + 1, Len(@.data)))],
           NEW stored \in Tilings(SubSeq(spans[1].data, 1, SpillLength))
    PROVE  Matches(sps, Joined(settled, stored), settledLen + SpillLength, base, baseLen, length, content)
<1> DEFINE n == SpillLength  sp == spans[1]  s == settledLen  st == Joined(settled, stored)
           Old(x) == Shown(spans, settled, s, base, baseLen, x)
           New(x) == Shown(sps, st, s + n, base, baseLen, x)
<1>1. /\ n \in Nat /\ 1 \in DOMAIN spans /\ sp \in SpanRec /\ sp.start = s
      /\ s + n <= length /\ s + n < End(sp) /\ n > 0
  BY SpillLengthFacts
<1>2. /\ sps \in Seq(SpanRec) /\ DOMAIN sps = DOMAIN spans /\ \A j \in DOMAIN spans : j # 1 => sps[j] = spans[j]
      /\ sps[1].start = s + n /\ End(sps[1]) = End(sp)
      /\ \A x \in Nat : Covers(sps[1], x) => ByteOf(sps[1], x) = ByteOf(sp, x)
      /\ \A i \in 1 .. s : st.bytes[i] = settled.bytes[i]
      /\ \A i \in 1 .. n : st.bytes[s + i] = sp.data[i]
  BY SpillFacts
<1>3. /\ spans \in Seq(SpanRec) /\ length \in Nat /\ s \in Nat /\ baseLen \in Nat
  BY TypeFacts
<1>4. /\ Apart(spans) /\ InOrder(spans, s) /\ length = Len(content) /\ s <= length
      /\ \A x \in 0 .. (length - 1) : Old(x) = content[x + 1]
  BY DEF Matches
<1>5. \A i \in DOMAIN spans : /\ spans[i].start \in Nat /\ End(spans[i]) \in Nat /\ spans[i].start < End(spans[i]) /\ i \in Nat /\ i >= 1
  <2>1. DOMAIN spans = 1 .. Len(spans) /\ Len(spans) \in Nat
    BY <1>3, SpansFacts
  <2> QED BY <1>3, <2>1, SpansFacts, SpanFacts
<1> HIDE DEF n, s, st
<1>6. ASSUME NEW j \in DOMAIN spans, j # 1
      PROVE  End(spans[j]) <= sps[1].start \/ End(sps[1]) <= spans[j].start
  <2> DEFINE u == spans[j].start  v == End(spans[j])  e == End(sp)
  <2>1. (v <= sp.start \/ e <= u)
    BY ONLY <1>1, <1>4, <1>6 DEF Apart
  <2>2. v \in Nat /\ u \in Nat /\ e \in Nat
    BY <1>1, <1>5
  <2> HIDE DEF u, v, e
  <2>3. v <= s + n \/ e <= u
    BY <1>1, <1>3, <2>1, <2>2
  <2> QED BY <1>2, <2>3 DEF v, u, e
<1>7. Apart(sps)
  <2> SUFFICES ASSUME NEW a \in DOMAIN spans, NEW b \in DOMAIN spans, a # b
               PROVE  End(sps[a]) <= sps[b].start \/ End(sps[b]) <= sps[a].start
    BY <1>2 DEF Apart
  <2>1. CASE a # 1 /\ b # 1
    <3>1. sps[a] = spans[a] /\ sps[b] = spans[b]
      BY <1>2, <2>1
    <3>2. End(spans[a]) <= spans[b].start \/ End(spans[b]) <= spans[a].start
      BY ONLY <1>4, a \in DOMAIN spans, b \in DOMAIN spans, a # b DEF Apart
    <3> QED BY ONLY <3>1, <3>2
  <2>2. CASE a = 1
    BY <1>2, <1>6, <2>2
  <2>3. CASE b = 1
    BY <1>2, <1>6, <2>3
  <2> QED BY <2>1, <2>2, <2>3
<1>8. InOrder(sps, s + n)
  <2> SUFFICES ASSUME NEW a \in DOMAIN spans, NEW b \in DOMAIN spans, a < b
               PROVE  sps[a].start < sps[b].start \/ (a = 1 /\ sps[1].start >= s + n)
    BY <1>2 DEF InOrder
  <2>1. CASE a = 1
    <3>1. s + n >= s + n
      BY <1>1, <1>3
    <3> QED BY <1>2, <2>1, <3>1
  <2>2. CASE a # 1
    <3>1. b # 1
      BY <1>5, <2>2
    <3>2. sps[a] = spans[a] /\ sps[b] = spans[b]
      BY <1>2, <2>2, <3>1
    <3>3. spans[a].start < spans[b].start
      BY ONLY <1>4, <2>2, a \in DOMAIN spans, b \in DOMAIN spans, a < b DEF InOrder
    <3> QED BY ONLY <3>2, <3>3
  <2> QED BY <2>1, <2>2
<1>9. ASSUME NEW x \in 0 .. (length - 1) PROVE New(x) = content[x + 1]
  <2>1. x \in Nat /\ x < length /\ Old(x) = content[x + 1]
    BY <1>3, <1>4
  <2>2. CASE \E i \in DOMAIN sps : Covers(sps[i], x)
    <3>1. PICK i \in DOMAIN sps : Covers(sps[i], x)
      BY <2>2
    <3>2. Covers(spans[i], x) /\ ByteOf(sps[i], x) = ByteOf(spans[i], x)
      <4>1. CASE i = 1
        <5>1. s + n <= x /\ x < End(sp)
          BY <1>2, <3>1, <4>1 DEF Covers
        <5>2. s <= x
          BY ONLY <1>1, <1>3, <2>1, <5>1
        <5> QED BY <1>1, <1>2, <2>1, <3>1, <4>1, <5>1, <5>2 DEF Covers
      <4>2. CASE i # 1
        BY <1>2, <3>1, <4>2
      <4> QED BY <4>1, <4>2
    <3>3. New(x) = ByteOf(sps[i], x)
      <4>1. sps \in Seq(SpanRec) /\ Apart(sps) /\ x \in Nat /\ i \in DOMAIN sps /\ Covers(sps[i], x)
        BY ONLY <1>2, <1>7, <2>1, <3>1
      <4> QED BY ONLY <4>1, ShownCovered
    <3>4. Old(x) = ByteOf(spans[i], x)
      BY <1>2, <1>3, <1>4, <2>1, <3>2, ShownCovered
    <3> QED BY ONLY <2>1, <3>2, <3>3, <3>4
  <2>3. CASE \A i \in DOMAIN sps : ~Covers(sps[i], x)
    <3>1. New(x) = IF x < s + n THEN st.bytes[x + 1] ELSE IF x < baseLen THEN base.bytes[x + 1] ELSE Zero
      BY ONLY <2>3, ShownUncovered, Zenon
    <3>2. CASE Covers(sp, x)
      <4>1. x < End(sp) /\ s <= x
        BY <1>1, <3>2 DEF Covers
      <4>2. ~(s + n <= x)
        BY <1>1, <1>2, <2>3, <4>1 DEF Covers
      <4>3. x < s + n /\ x - s + 1 \in 1 .. n /\ s + (x - s + 1) = x + 1
        BY ONLY <1>1, <1>3, <2>1, <4>1, <4>2
      <4>4. Old(x) = ByteOf(sp, x)
        BY <1>1, <1>3, <1>4, <2>1, <3>2, ShownCovered
      <4>5. ByteOf(sp, x) = sp.data[x - s + 1]
        BY <1>1 DEF ByteOf
      <4>6. st.bytes[s + (x - s + 1)] = sp.data[x - s + 1]
        BY ONLY <1>2, <4>3
      <4> QED BY ONLY <2>1, <3>1, <4>3, <4>4, <4>5, <4>6
    <3>3. CASE ~Covers(sp, x)
      <4>1. \A i \in DOMAIN spans : ~Covers(spans[i], x)
        BY <1>2, <2>3, <3>3
      <4>2. Old(x) = IF x < s THEN settled.bytes[x + 1] ELSE IF x < baseLen THEN base.bytes[x + 1] ELSE Zero
        BY <4>1, ShownUncovered
      <4>3. ~(s <= x /\ x < End(sp)) /\ End(sp) \in Nat
        BY <1>1, <1>5, <3>3 DEF Covers
      <4>4. CASE x < s
        <5>1. x < s + n /\ x + 1 \in 1 .. s
          BY ONLY <1>1, <1>3, <2>1, <4>4
        <5>2. st.bytes[x + 1] = settled.bytes[x + 1]
          BY ONLY <1>2, <5>1
        <5> QED BY ONLY <2>1, <3>1, <4>2, <4>4, <5>1, <5>2
      <4>5. CASE ~(x < s)
        <5>1. ~(x < s + n)
          <6> DEFINE e == End(sp)
          <6>1. ~(s <= x /\ x < e) /\ e \in Nat /\ s + n < e
            BY <1>1, <4>3
          <6> HIDE DEF e
          <6> QED BY ONLY <1>1, <1>3, <2>1, <4>5, <6>1
        <5> QED BY ONLY <2>1, <3>1, <4>2, <4>5, <5>1
      <4> QED BY <4>4, <4>5
    <3> QED BY <3>2, <3>3
  <2> QED BY <2>2, <2>3
<1>10. s + n <= length /\ length = Len(content)
  BY <1>1, <1>4
<1> QED BY <1>7, <1>8, <1>9, <1>10 DEF Matches, n, s, st


\* A truncation shows in the cache as it does in the plain file: within the
\* settled prefix nothing is cut.
LEMMA TruncateMatches ==
    ASSUME TypeOK, Matches(spans, settled, settledLen, base, baseLen, length, content),
           NEW n \in Nat, settledLen <= n, NEW sps \in Clipped(n), NEW con \in Seq(Byte), Len(con) = n,
           \A i \in 1 .. n : con[i] = IF i <= Len(content) THEN content[i] ELSE Zero
    PROVE  Matches(sps, settled, settledLen, base, Lower(baseLen, n), n, con)
<1> DEFINE bl == Lower(baseLen, n)
           Old(x) == Shown(spans, settled, settledLen, base, baseLen, x)
           New(x) == Shown(sps, settled, settledLen, base, bl, x)
<1>1. /\ spans \in Seq(SpanRec) /\ (\A i \in DOMAIN spans : End(spans[i]) <= length) /\ length \in Nat
      /\ settledLen \in Nat /\ baseLen \in Nat /\ baseLen <= length
  BY TypeFacts
<1>2. /\ Apart(spans) /\ InOrder(spans, settledLen) /\ length = Len(content) /\ settledLen <= length
      /\ \A x \in 0 .. (length - 1) : Old(x) = content[x + 1]
  BY DEF Matches
<1>3. /\ sps \in Seq(SpanRec) /\ Apart(sps) /\ InOrder(sps, settledLen)
      /\ \A x \in Nat : x < n =>
             /\ \A i \in DOMAIN spans : Covers(spans[i], x) =>
                    \E k \in DOMAIN sps : Covers(sps[k], x) /\ ByteOf(sps[k], x) = ByteOf(spans[i], x)
             /\ (\A i \in DOMAIN spans : ~Covers(spans[i], x)) => \A k \in DOMAIN sps : ~Covers(sps[k], x)
  BY <1>1, <1>2, ClippedFacts
<1>4. ASSUME NEW x \in Nat, x < n PROVE New(x) = Old(x)
  <2>1. CASE \E i \in DOMAIN spans : Covers(spans[i], x)
    <3>1. PICK i \in DOMAIN spans : Covers(spans[i], x)
      BY <2>1
    <3>2. PICK k \in DOMAIN sps : Covers(sps[k], x) /\ ByteOf(sps[k], x) = ByteOf(spans[i], x)
      BY <1>3, <1>4, <3>1
    <3>3. New(x) = ByteOf(sps[k], x)
      <4>1. sps \in Seq(SpanRec) /\ Apart(sps) /\ x \in Nat /\ k \in DOMAIN sps /\ Covers(sps[k], x)
        BY <1>3, <3>2
      <4> QED BY ONLY <4>1, ShownCovered
    <3>4. Old(x) = ByteOf(spans[i], x)
      <4>1. spans \in Seq(SpanRec) /\ Apart(spans) /\ x \in Nat /\ i \in DOMAIN spans /\ Covers(spans[i], x)
        BY <1>1, <1>2, <3>1
      <4> QED BY ONLY <4>1, ShownCovered
    <3> QED BY ONLY <3>2, <3>3, <3>4
  <2>2. CASE \A i \in DOMAIN spans : ~Covers(spans[i], x)
    <3>1. \A k \in DOMAIN sps : ~Covers(sps[k], x)
      BY <1>3, <1>4, <2>2
    <3>2. Old(x) = IF x < settledLen THEN settled.bytes[x + 1] ELSE IF x < baseLen THEN base.bytes[x + 1] ELSE Zero
      BY ONLY <2>2, ShownUncovered, Zenon
    <3>3. New(x) = IF x < settledLen THEN settled.bytes[x + 1] ELSE IF x < bl THEN base.bytes[x + 1] ELSE Zero
      BY ONLY <3>1, ShownUncovered, Zenon
    <3>4. x < bl <=> x < baseLen
      BY <1>1, <1>4 DEF Lower
    <3> QED BY ONLY <3>2, <3>3, <3>4
  <2> QED BY <2>1, <2>2
<1>5. ASSUME NEW x \in 0 .. (n - 1) PROVE New(x) = con[x + 1]
  <2>1. x \in Nat /\ x < n /\ x + 1 \in 1 .. n
    OBVIOUS
  <2>2. con[x + 1] = IF x + 1 <= length THEN content[x + 1] ELSE Zero
    BY <1>2, <2>1
  <2>3. New(x) = Old(x)
    BY <1>4, <2>1
  <2>4. CASE x < length
    <3>1. x \in 0 .. (length - 1) /\ x + 1 <= length
      BY <1>1, <2>1, <2>4
    <3>2. Old(x) = content[x + 1]
      BY <1>2, <3>1
    <3> QED BY ONLY <2>2, <2>3, <3>1, <3>2
  <2>5. CASE ~(x < length)
    <3>1. ASSUME NEW i \in DOMAIN spans PROVE ~Covers(spans[i], x)
      <4> DEFINE e == End(spans[i])
      <4>1. e \in Nat /\ e <= length
        BY <1>1, SpansFacts, SpanFacts
      <4>2. ~(x < e)
        <5> HIDE DEF e
        <5> QED BY ONLY <1>1, <2>1, <2>5, <4>1
      <4> QED BY <4>2 DEF Covers
    <3>2. Old(x) = IF x < settledLen THEN settled.bytes[x + 1] ELSE IF x < baseLen THEN base.bytes[x + 1] ELSE Zero
      BY ONLY <3>1, ShownUncovered, Zenon
    <3>3. ~(x < settledLen) /\ ~(x < baseLen) /\ ~(x + 1 <= length)
      BY ONLY <1>1, <1>2, <2>1, <2>5
    <3> QED BY ONLY <2>2, <2>3, <3>2, <3>3
  <2> QED BY <2>4, <2>5
<1> QED BY <1>3, <1>5 DEF Matches

\* Nor when the prefix is cut and no pending write lies over what is cut.
LEMMA TruncateCutMatches ==
    ASSUME TypeOK, Matches(spans, settled, settledLen, base, baseLen, length, content),
           NEW n \in Nat, settledLen > n, ~CutsUnderWrites(n), NEW below \in Clipped(n),
           NEW con \in Seq(Byte), Len(con) = n,
           \A i \in 1 .. n : con[i] = IF i <= Len(content) THEN content[i] ELSE Zero
    PROVE  Matches(CutHead(n) \o below, WholeChunks(n), Kept(n), base, Lower(baseLen, n), n, con)
<1> DEFINE K == Kept(n)  bl == Lower(baseLen, n)  sps == CutHead(n) \o below  st == WholeChunks(n)
           Old(x) == Shown(spans, settled, settledLen, base, baseLen, x)
           New(x) == Shown(sps, st, K, base, bl, x)
           h == Span(K, SubSeq(settled.bytes, K + 1, n))
<1>1. /\ spans \in Seq(SpanRec) /\ (\A i \in DOMAIN spans : End(spans[i]) <= length) /\ length \in Nat
      /\ settledLen \in Nat /\ baseLen \in Nat /\ settled \in ChunkLists /\ settledLen = Size(settled)
  BY TypeFacts
<1>2. /\ Apart(spans) /\ InOrder(spans, settledLen) /\ length = Len(content) /\ settledLen <= length
      /\ \A x \in 0 .. (length - 1) : Old(x) = content[x + 1]
  BY DEF Matches
<1>3. /\ below \in Seq(SpanRec) /\ Apart(below) /\ InOrder(below, settledLen)
      /\ \A k \in DOMAIN below : End(below[k]) <= n /\ below[k].start < n
      /\ \A x \in Nat : x < n =>
             /\ \A i \in DOMAIN spans : Covers(spans[i], x) =>
                    \E k \in DOMAIN below : Covers(below[k], x) /\ ByteOf(below[k], x) = ByteOf(spans[i], x)
             /\ (\A i \in DOMAIN spans : ~Covers(spans[i], x)) => \A k \in DOMAIN below : ~Covers(below[k], x)
  BY <1>1, <1>2, ClippedFacts
<1>4. /\ K \in Nat /\ K <= n /\ K <= settledLen
      /\ \A i \in 1 .. K : st.bytes[i] = settled.bytes[i]
  BY <1>1, KeptFacts
<1>5. ASSUME NEW x \in K .. (n - 1) PROVE (\A i \in DOMAIN spans : ~Covers(spans[i], x)) /\ \A k \in DOMAIN below : ~Covers(below[k], x)
  <2>1. \A i \in DOMAIN spans : ~Covers(spans[i], x)
    BY DEF CutsUnderWrites, Covering
  <2>2. x \in Nat /\ x < n
    BY <1>4
  <2> QED BY <1>3, <2>1, <2>2
<1>6. \A k \in DOMAIN below : /\ below[k].start \in Nat /\ End(below[k]) \in Nat /\ below[k].start < End(below[k])
  BY <1>3, SpansFacts, SpanFacts
<1>7. \A i, j \in DOMAIN below : i < j => below[i].start < below[j].start
  <2> SUFFICES ASSUME NEW i \in DOMAIN below, NEW j \in DOMAIN below, i < j PROVE below[i].start < below[j].start
    OBVIOUS
  <2>1. below[i].start < below[j].start \/ (i = 1 /\ below[1].start >= settledLen)
    BY <1>3 DEF InOrder
  <2>2. below[i].start < n /\ below[i].start \in Nat
    BY <1>3, <1>6
  <2> QED BY <1>1, <2>1, <2>2
<1>8. ASSUME NEW k \in DOMAIN below, K < n PROVE End(below[k]) <= K
  <2> DEFINE s == below[k].start  e == End(below[k])
  <2>1. s \in Nat /\ e \in Nat /\ s < e /\ e <= n
    BY <1>3, <1>6
  <2>2. e - 1 \in K .. (n - 1) => ~Covers(below[k], e - 1)
    BY <1>5
  <2>3. Covers(below[k], e - 1) <=> s <= e - 1 /\ e - 1 < e
    BY DEF Covers
  <2> HIDE DEF s, e
  <2>4. e <= K
    BY <1>4, <2>1, <2>2, <2>3
  <2> QED BY <2>4 DEF e
<1> HIDE DEF K
<1>9. /\ sps \in Seq(SpanRec) /\ Apart(sps) /\ InOrder(sps, K)
      /\ \A k \in DOMAIN below : \E j \in DOMAIN sps : sps[j] = below[k]
      /\ \A j \in DOMAIN sps : (K < n /\ sps[j] = h) \/ \E k \in DOMAIN below : sps[j] = below[k]
      /\ K < n => \E j \in DOMAIN sps : sps[j] = h
  <2>1. CASE K < n
    <3>1. CutHead(n) = <<h>> /\ h \in SpanRec /\ h.start = K
      BY <1>1, <2>1, CutHeadFacts DEF K
    <3> HIDE DEF h
    <3>2. sps = <<h>> \o below
      BY <3>1
    <3>3. /\ <<h>> \o below \in Seq(SpanRec)
          /\ DOMAIN (<<h>> \o below) = 1 .. (1 + Len(below)) /\ (<<h>> \o below)[1] = h
          /\ \A k \in DOMAIN below : k + 1 \in DOMAIN (<<h>> \o below) /\ (<<h>> \o below)[k + 1] = below[k]
          /\ \A k \in DOMAIN (<<h>> \o below) : k = 1 \/ (k - 1 \in DOMAIN below /\ (<<h>> \o below)[k] = below[k - 1])
      BY <1>3, <3>1, HeadFacts
    <3>4. Apart(<<h>> \o below) /\ InOrder(<<h>> \o below, K)
      <4>1. \A k \in DOMAIN below : End(below[k]) <= h.start
        BY <1>8, <2>1, <3>1
      <4>2. h.start >= K
        BY <1>4, <3>1
      <4> QED BY ONLY <1>3, <1>4, <1>7, <3>1, <4>1, <4>2, HeadOrder
    <3>5. Len(below) \in Nat
      BY <1>3, SequenceFacts
    <3> HIDE DEF sps
    <3>6. 1 \in DOMAIN sps
      <4>1. 1 \in 1 .. (1 + Len(below))
        BY ONLY <3>5
      <4> QED BY ONLY <3>2, <3>3, <4>1
    <3> QED BY ONLY <2>1, <3>2, <3>3, <3>4, <3>6
  <2>2. CASE ~(K < n)
    <3>1. CutHead(n) = <<>>
      BY <2>2 DEF CutHead, K
    <3>2. sps = below
      BY <1>3, <3>1, ConcatEmptySeq
    <3>3. InOrder(below, K)
      BY <1>7 DEF InOrder
    <3> HIDE DEF sps
    <3> QED BY <1>3, <2>2, <3>2, <3>3
  <2> QED BY <2>1, <2>2
<1> HIDE DEF sps
<1>10. ASSUME NEW x \in 0 .. (n - 1) PROVE New(x) = con[x + 1]
  <2>1. x \in Nat /\ x < n /\ x + 1 \in 1 .. n /\ x < settledLen /\ x < length /\ x \in 0 .. (length - 1) /\ x + 1 <= length
    BY <1>1, <1>2
  <2>2. con[x + 1] = content[x + 1] /\ Old(x) = content[x + 1]
    BY <1>2, <2>1
  <2>3. CASE x < K
    <3>1. CASE \E i \in DOMAIN spans : Covers(spans[i], x)
      <4>1. PICK i \in DOMAIN spans : Covers(spans[i], x)
        BY <3>1
      <4>2. PICK k \in DOMAIN below : Covers(below[k], x) /\ ByteOf(below[k], x) = ByteOf(spans[i], x)
        BY <1>3, <2>1, <4>1
      <4>3. PICK j \in DOMAIN sps : sps[j] = below[k]
        BY <1>9
      <4>4. New(x) = ByteOf(sps[j], x)
        <5>1. sps \in Seq(SpanRec) /\ Apart(sps) /\ x \in Nat /\ j \in DOMAIN sps /\ Covers(sps[j], x)
          BY <1>9, <4>2, <4>3
        <5> QED BY ONLY <5>1, ShownCovered
      <4>5. Old(x) = ByteOf(spans[i], x)
        <5>1. spans \in Seq(SpanRec) /\ Apart(spans) /\ x \in Nat /\ i \in DOMAIN spans /\ Covers(spans[i], x)
          BY <1>1, <1>2, <4>1
        <5> QED BY ONLY <5>1, ShownCovered
      <4> QED BY ONLY <2>2, <4>2, <4>3, <4>4, <4>5
    <3>2. CASE \A i \in DOMAIN spans : ~Covers(spans[i], x)
      <4>1. \A k \in DOMAIN below : ~Covers(below[k], x)
        BY <1>3, <2>1, <3>2
      <4>2. K < n => ~Covers(h, x)
        <5> SUFFICES ASSUME K < n PROVE ~Covers(h, x)
          OBVIOUS
        <5>1. h.start = K
          BY DEF Span
        <5>2. ~(K <= x)
          BY <1>4, <2>1, <2>3
        <5> QED BY ONLY <5>1, <5>2 DEF Covers
      <4>3. \A j \in DOMAIN sps : ~Covers(sps[j], x)
        BY ONLY <1>9, <4>1, <4>2
      <4>4. New(x) = IF x < K THEN st.bytes[x + 1] ELSE IF x < bl THEN base.bytes[x + 1] ELSE Zero
        BY ONLY <4>3, ShownUncovered, Zenon
      <4>5. Old(x) = IF x < settledLen THEN settled.bytes[x + 1] ELSE IF x < baseLen THEN base.bytes[x + 1] ELSE Zero
        BY ONLY <3>2, ShownUncovered, Zenon
      <4>6. st.bytes[x + 1] = settled.bytes[x + 1]
        <5>1. x + 1 \in 1 .. K
          BY <1>4, <2>1, <2>3
        <5> QED BY <1>4, <5>1
      <4> QED BY ONLY <2>1, <2>2, <2>3, <4>4, <4>5, <4>6
    <3> QED BY <3>1, <3>2
  <2>4. CASE ~(x < K)
    <3>1. K < n /\ K <= x /\ x \in K .. (n - 1)
      BY <1>4, <2>1, <2>4
    <3>2. /\ h \in SpanRec /\ h.start = K /\ End(h) = n /\ ByteOf(h, x) = settled.bytes[x + 1]
      BY <1>1, <2>1, <3>1, CutHeadFacts DEF K
    <3> HIDE DEF h
    <3>3. PICK j \in DOMAIN sps : sps[j] = h
      BY <1>9, <3>1
    <3>4. Covers(sps[j], x)
      BY <2>1, <3>1, <3>2, <3>3 DEF Covers
    <3>5. New(x) = ByteOf(sps[j], x)
      <4>1. sps \in Seq(SpanRec) /\ Apart(sps) /\ x \in Nat /\ j \in DOMAIN sps /\ Covers(sps[j], x)
        BY <1>9, <2>1, <3>3, <3>4
      <4> QED BY ONLY <4>1, ShownCovered
    <3>6. \A i \in DOMAIN spans : ~Covers(spans[i], x)
      BY <1>5, <3>1 DEF K
    <3>7. Old(x) = IF x < settledLen THEN settled.bytes[x + 1] ELSE IF x < baseLen THEN base.bytes[x + 1] ELSE Zero
      BY ONLY <3>6, ShownUncovered, Zenon
    <3> QED BY ONLY <2>1, <2>2, <3>2, <3>3, <3>5, <3>7
  <2> QED BY <2>3, <2>4
<1> QED BY <1>4, <1>9, <1>10 DEF Matches, K, sps

-----------------------------------------------------------------------------
(* The types of what an operation leaves.                                  *)

\* A cache of spans over lists of chunks, with their lengths.
Typed(sps, st, stLen, bs, bsLen, len, con) ==
    /\ sps \in Seq(SpanRec) /\ \A i \in DOMAIN sps : End(sps[i]) <= len
    /\ st \in ChunkLists /\ stLen = Size(st) /\ bs \in ChunkLists
    /\ len \in Nat /\ len <= MaxLength
    /\ bsLen \in Nat /\ bsLen <= len /\ bsLen <= Size(bs)
    /\ con \in Seq(Byte)

\* The rest of the type invariant.
Control ==
    /\ file \in ChunkLists /\ result \in ChunkLists /\ saved \in Seq(Byte)
    /\ open \in BOOLEAN /\ writing \in BOOLEAN /\ phase \in {"idle", "spilling", "finalizing"}
    /\ phase # "idle" => open
    /\ tainted \in BOOLEAN
    /\ calls \in 0 .. MaxCalls /\ faults \in 0 .. MaxFaults

\* The type invariant gives both.
LEMMA TypeParts ==
    ASSUME TypeOK
    PROVE  Typed(spans, settled, settledLen, base, baseLen, length, content) /\ Control
<1>1. Typed(spans, settled, settledLen, base, baseLen, length, content)
  BY TypeFacts DEF Typed
<1>2. Control
  BY DEF TypeOK, Control
<1> QED BY <1>1, <1>2

\* Both give the type invariant of the next state.
LEMMA TypeMade ==
    ASSUME Typed(spans', settled', settledLen', base', baseLen', length', content'), Control'
    PROVE  TypeOK'
<1>1. /\ spans' \in Seq(SpanRec) /\ \A i \in DOMAIN spans' : End(spans'[i]) <= length'
      /\ settled' \in ChunkLists /\ settledLen' = Size(settled') /\ base' \in ChunkLists
      /\ length' \in Nat /\ length' <= MaxLength
      /\ baseLen' \in Nat /\ baseLen' <= length' /\ baseLen' <= Size(base')
      /\ content' \in Seq(Byte)
  BY DEF Typed
<1>2. length' \in 0 .. MaxLength
  BY <1>1, BoundsAssumption
<1>3. baseLen' \in 0 .. Lower(length', Size(base'))
  <2> DEFINE z == Size(base')
  <2>1. z \in Nat /\ baseLen' <= z
    BY <1>1, ListFacts
  <2> HIDE DEF z
  <2>2. baseLen' \in 0 .. Lower(length', z)
    BY ONLY <1>1, <2>1 DEF Lower
  <2> QED BY <2>2 DEF z
<1> QED BY <1>1, <1>2, <1>3 DEF TypeOK, SpanRec, Control

\* After a write.
LEMMA WriteTyped ==
    ASSUME TypeOK, NEW off \in Nat, NEW data \in Seq(Byte), Len(data) > 0, off + Len(data) <= MaxLength,
           NEW sps \in WriteSpans(off, data)
    PROVE  Typed(sps, settled, settledLen, base, baseLen, Higher(length, off + Len(data)), Overlaid(content, off, data))
<1> DEFINE n == Len(data)  len == Higher(length, off + n)
<1>1. /\ length \in Nat /\ length <= MaxLength /\ n \in Nat /\ baseLen \in Nat /\ baseLen <= length /\ baseLen <= Size(base)
      /\ settled \in ChunkLists /\ base \in ChunkLists /\ settledLen = Size(settled) /\ content \in Seq(Byte)
      /\ off + n <= MaxLength /\ MaxLength \in Nat
  BY TypeFacts, SequenceFacts
<1>2. sps \in Seq(SpanRec) /\ \A k \in DOMAIN sps : End(sps[k]) <= len
  BY WriteSpansType
<1>3. Overlaid(content, off, data) \in Seq(Byte)
  BY <1>1, OverlaidFacts
<1>4. len = Higher(length, off + n)
  OBVIOUS
<1> HIDE DEF n, len
<1>5. len \in Nat /\ len <= MaxLength /\ length <= len
  BY ONLY <1>1, <1>4, off \in Nat DEF Higher
<1>6. baseLen <= len
  BY ONLY <1>1, <1>5
<1> QED BY <1>1, <1>2, <1>3, <1>5, <1>6 DEF Typed, len, n

\* After a spill.
LEMMA SpillTyped ==
    ASSUME TypeOK, SpillLength > 0, NEW sps,
           sps = [spans EXCEPT ![1] = Span(@.start + SpillLength, SubSeq(@.data, SpillLength + 1, Len(@.data)))],
           NEW stored \in Tilings(SubSeq(spans[1].data, 1, SpillLength))
    PROVE  Typed(sps, Joined(settled, stored), settledLen + SpillLength, base, baseLen, length, content)
<1>1. /\ sps \in Seq(SpanRec) /\ DOMAIN sps = DOMAIN spans /\ \A j \in DOMAIN spans : j # 1 => sps[j] = spans[j]
      /\ End(sps[1]) = End(spans[1])
      /\ Joined(settled, stored) \in ChunkLists /\ Size(Joined(settled, stored)) = settledLen + SpillLength
  BY SpillFacts
<1>2. Typed(spans, settled, settledLen, base, baseLen, length, content)
  BY TypeParts
<1>3. \A i \in DOMAIN sps : End(sps[i]) <= length
  BY ONLY <1>1, <1>2 DEF Typed
<1> QED BY ONLY <1>1, <1>2, <1>3 DEF Typed

\* After a truncation that leaves the settled prefix alone, made or refused.
LEMMA ClippedTyped ==
    ASSUME TypeOK, NEW n \in Nat, n <= MaxLength, NEW sps \in Clipped(n), NEW con \in Seq(Byte)
    PROVE  Typed(sps, settled, settledLen, base, Lower(baseLen, n), n, con)
<1>1. /\ spans \in Seq(SpanRec) /\ settled \in ChunkLists /\ settledLen = Size(settled) /\ base \in ChunkLists
      /\ baseLen \in Nat /\ baseLen <= Size(base)
  BY TypeFacts
<1>2. sps \in Seq(SpanRec) /\ \A k \in DOMAIN sps : End(sps[k]) <= n
  BY <1>1, ClippedFacts
<1>3. Lower(baseLen, n) \in Nat /\ Lower(baseLen, n) <= n /\ Lower(baseLen, n) <= Size(base)
  <2> DEFINE z == Size(base)
  <2>1. z \in Nat /\ baseLen <= z
    BY <1>1, ListFacts
  <2> HIDE DEF z
  <2>2. Lower(baseLen, n) \in Nat /\ Lower(baseLen, n) <= n /\ Lower(baseLen, n) <= z
    BY ONLY <1>1, <2>1, n \in Nat DEF Lower
  <2> QED BY <2>2 DEF z
<1> QED BY <1>1, <1>2, <1>3 DEF Typed

\* After a truncation that cuts the settled prefix.
LEMMA CutTyped ==
    ASSUME TypeOK, NEW n \in Nat, n <= MaxLength, settledLen > n, NEW below \in Clipped(n), NEW con \in Seq(Byte)
    PROVE  Typed(CutHead(n) \o below, WholeChunks(n), Kept(n), base, Lower(baseLen, n), n, con)
<1>1. Typed(below, settled, settledLen, base, Lower(baseLen, n), n, con)
  BY ClippedTyped
<1>2. settled \in ChunkLists /\ Size(settled) > n
  BY TypeFacts
<1>3. Kept(n) \in Nat /\ Kept(n) <= n /\ WholeChunks(n) \in ChunkLists /\ Size(WholeChunks(n)) = Kept(n)
  BY <1>2, KeptFacts
<1>4. below \in Seq(SpanRec) /\ \A k \in DOMAIN below : End(below[k]) <= n
  BY ONLY <1>1 DEF Typed
<1>5. CutHead(n) \o below \in Seq(SpanRec) /\ \A k \in DOMAIN (CutHead(n) \o below) : End((CutHead(n) \o below)[k]) <= n
  <2>1. CASE Kept(n) < n
    <3> DEFINE h == Span(Kept(n), SubSeq(settled.bytes, Kept(n) + 1, n))
    <3>1. CutHead(n) = <<h>> /\ h \in SpanRec /\ End(h) = n
      BY <1>2, <2>1, CutHeadFacts
    <3> HIDE DEF h
    <3>2. /\ <<h>> \o below \in Seq(SpanRec) /\ (<<h>> \o below)[1] = h
          /\ \A k \in DOMAIN (<<h>> \o below) : k = 1 \/ (k - 1 \in DOMAIN below /\ (<<h>> \o below)[k] = below[k - 1])
      BY ONLY <1>4, <3>1, HeadFacts
    <3> DEFINE sps == <<h>> \o below
    <3>3. ASSUME NEW k \in DOMAIN sps PROVE End(sps[k]) <= n
      <4>1. n <= n
        OBVIOUS
      <4>2. CASE k = 1
        BY <3>1, <3>2, <4>1, <4>2
      <4>3. CASE k - 1 \in DOMAIN below /\ sps[k] = below[k - 1]
        BY <1>4, <4>3
      <4> QED BY <3>2, <4>2, <4>3
    <3> QED BY <3>1, <3>2, <3>3
  <2>2. CASE ~(Kept(n) < n)
    <3>1. CutHead(n) = <<>>
      BY <2>2 DEF CutHead
    <3>2. <<>> \o below = below
      BY <1>4, ConcatEmptySeq
    <3> QED BY <1>4, <3>1, <3>2
  <2> QED BY <2>1, <2>2
<1> QED BY ONLY <1>1, <1>3, <1>5 DEF Typed

\* A fresh cache.
LEMMA FreshTyped ==
    ASSUME NEW list \in ChunkLists, NEW con \in Seq(Byte)
    PROVE  Typed(<<>>, NoChunks, 0, list, Size(list), Size(list), con)
<1>1. NoChunks \in ChunkLists /\ Size(NoChunks) = 0 /\ Size(list) \in Nat /\ Size(list) <= MaxLength
  BY NoChunksFacts, ListFacts
<1>2. <<>> \in Seq(SpanRec) /\ DOMAIN <<>> = {}
  BY EmptySeq
<1>3. Size(list) <= Size(list)
  BY <1>1
<1> QED BY <1>1, <1>2, <1>3 DEF Typed

-----------------------------------------------------------------------------
(* The splice of finalizeCache.                                            *)

\* A list of chunks holds the beginning of a content.
Spliced(list, len, con) == Size(list) <= len /\ \A off \in 0 .. (Size(list) - 1) : list.bytes[off + 1] = con[off + 1]

\* Each clean chunk is in a list as it is in the base, or begins after it.
CleanIn(list) ==
    \A s \in {0} \cup base.ends, e \in base.ends : Clean(s, e) =>
        \/ s >= Size(list)
        \/ /\ e <= Size(list) /\ IsChunk(list, s, e)
           /\ SubSeq(list.bytes, s + 1, e) = SubSeq(base.bytes, s + 1, e)

\* Where a clean chunk lies.
LEMMA CleanFacts ==
    ASSUME TypeOK, NEW s, NEW e, Clean(s, e)
    PROVE  /\ IsChunk(base, s, e) /\ s \in Nat /\ e \in Nat /\ s < e /\ settledLen <= s /\ e <= baseLen /\ e <= length
           /\ e \in base.ends /\ s \in {0} \cup base.ends
           /\ \A x \in Nat : s <= x /\ x < e => \A i \in DOMAIN spans : ~Covers(spans[i], x)
<1>1. IsChunk(base, s, e) /\ s >= settledLen /\ e <= baseLen
  BY DEF Clean
<1>2. base \in ChunkLists /\ baseLen \in Nat /\ baseLen <= length /\ length \in Nat /\ settledLen \in Nat /\ spans \in Seq(SpanRec)
  BY TypeFacts
<1>3. s \in Nat /\ e \in Nat /\ s < e
  BY <1>1, <1>2, BaseChunkFacts
<1>4. e <= length /\ settledLen <= s
  BY ONLY <1>1, <1>2, <1>3
<1>5. ASSUME NEW x \in Nat, s <= x /\ x < e, NEW i \in DOMAIN spans PROVE ~Covers(spans[i], x)
  <2> DEFINE a == spans[i].start  z == End(spans[i])
  <2>1. a \in Nat /\ z \in Nat
    BY <1>2, SpansFacts, SpanFacts
  <2>2. a >= e \/ z <= s
    BY DEF Clean
  <2> HIDE DEF a, z
  <2>3. ~(a <= x /\ x < z)
    BY ONLY <1>3, <1>5, <2>1, <2>2
  <2> QED BY <2>3 DEF Covers, a, z
<1> QED BY <1>1, <1>3, <1>4, <1>5 DEF IsChunk

\* Where Rechunk stops: at the end of the dirty window or at the size of a spill.
WindowTo == Lower(WindowEnd, Position + SpillThreshold)

\* The dirty window at the position reaches no further than the next clean chunk.
LEMMA WindowFacts ==
    ASSUME TypeOK, Position < length
    PROVE  /\ Position \in Nat /\ WindowTo \in Nat /\ Position < WindowTo /\ WindowTo <= length
           /\ \A s \in CleanStarts : s > Position => WindowTo <= s
<1> DEFINE to == WindowTo
<1> DEFINE next == {s \in CleanStarts : s > Position}  p == Position  w == WindowEnd
<1>1. p \in Nat /\ length \in Nat
  BY TypeFacts, ListFacts DEF Position
<1>2. ASSUME NEW s \in CleanStarts PROVE s \in Nat /\ s < length
  <2>1. PICK e \in base.ends : Clean(s, e)
    BY DEF CleanStarts
  <2>2. s \in Nat /\ e \in Nat /\ s < e /\ e <= length
    BY <2>1, CleanFacts
  <2> QED BY ONLY <1>1, <2>2
<1>3. w \in Nat /\ p < w /\ w <= length /\ \A s \in CleanStarts : s > p => w <= s
  <2>1. CASE next = {}
    <3>1. w = length
      BY <2>1 DEF WindowEnd
    <3> QED BY <1>1, <2>1, <3>1
  <2>2. CASE next # {}
    <3>1. w = Min(next)
      BY <2>2 DEF WindowEnd
    <3>2. next \in SUBSET Nat
      BY <1>2
    <3>3. Min(next) \in next /\ \A y \in next : Min(next) <= y
      BY <2>2, <3>2, MinFacts
    <3>4. w \in CleanStarts /\ w > p /\ \A y \in CleanStarts : y > p => w <= y
      BY <3>1, <3>3
    <3>5. w \in Nat /\ w < length
      BY <1>2, <3>4
    <3> HIDE DEF w, p
    <3>6. p < w /\ w <= length
      BY ONLY <1>1, <3>4, <3>5
    <3> QED BY <3>4, <3>5, <3>6
  <2> QED BY <2>1, <2>2
<1>4. to = Lower(w, p + SpillThreshold)
  BY DEF WindowTo
<1>5. SpillThreshold \in Nat /\ SpillThreshold > 0
  BY CarryAssumption
<1> HIDE DEF w, p, next, to
<1>6. to \in Nat /\ p < to /\ to <= w
  BY ONLY <1>1, <1>3, <1>4, <1>5 DEF Lower
<1>7. to <= length
  BY ONLY <1>1, <1>3, <1>6
<1>8. ASSUME NEW s \in CleanStarts, s > p PROVE to <= s
  <2>1. w <= s /\ s \in Nat
    BY <1>2, <1>3, <1>8
  <2> QED BY ONLY <1>3, <1>6, <2>1
<1> QED BY <1>1, <1>6, <1>7, <1>8 DEF p, to

\* What is read of a window.
LEMMA ReadAtFacts ==
    ASSUME TypeOK, NEW from \in Nat, NEW to \in Nat, from <= to
    PROVE  /\ ReadAt(from, to) \in Seq(Byte) /\ Len(ReadAt(from, to)) = to - from
           /\ \A i \in 1 .. (to - from) :
                  ReadAt(from, to)[i] = Shown(spans, settled, settledLen, base, baseLen, from + i - 1)
<1> DEFINE n == to - from  r == ReadAt(from, to)
<1>1. n \in Nat
  OBVIOUS
<1>2. /\ spans \in Seq(SpanRec) /\ settled.bytes \in Seq(Byte) /\ base.bytes \in Seq(Byte)
      /\ settledLen \in Nat /\ settledLen <= Len(settled.bytes) /\ baseLen \in Nat /\ baseLen <= Len(base.bytes)
  BY TypeFacts
<1>3. r = [i \in 1 .. n |-> ReadByte(from + i - 1)]
  BY DEF ReadAt
<1>4. ASSUME NEW i \in 1 .. n PROVE ReadByte(from + i - 1) \in Byte
  <2>1. from + i - 1 \in Nat
    BY <1>1
  <2>2. Shown(spans, settled, settledLen, base, baseLen, from + i - 1) \in Byte
    BY ONLY <1>2, <2>1, ShownByte
  <2> QED BY <2>2, ReadByteShown
<1> HIDE DEF n, r
<1>5. r \in [1 .. n -> Byte]
  BY <1>3, <1>4
<1>6. r \in Seq(Byte) /\ Len(r) = n
  BY ONLY <1>1, <1>5, FunctionIsSequence
<1>7. \A i \in 1 .. n : r[i] = Shown(spans, settled, settledLen, base, baseLen, from + i - 1)
  BY <1>3, ReadByteShown
<1> QED BY <1>6, <1>7 DEF n, r

\* A clean chunk at the position, joined to the result.
LEMMA ReuseFacts ==
    ASSUME TypeOK, NEW e, Clean(Position, e), NEW res, res = Joined(result, BaseChunk(Position, e))
    PROVE  /\ res \in ChunkLists /\ Size(res) = e
           /\ Matches(spans, settled, settledLen, base, baseLen, length, content) /\ Spliced(result, length, content) =>
                  Spliced(res, length, content)
           /\ CleanIn(result) => CleanIn(res)
<1> DEFINE p == Size(result)
<1>1. /\ p \in Nat /\ e \in Nat /\ p < e /\ settledLen <= p /\ e <= baseLen /\ e <= length /\ IsChunk(base, p, e)
      /\ \A x \in Nat : p <= x /\ x < e => \A i \in DOMAIN spans : ~Covers(spans[i], x)
      /\ e \in base.ends
  BY CleanFacts DEF Position
<1>2. base \in ChunkLists /\ result \in ChunkLists /\ baseLen \in Nat /\ length \in Nat /\ settledLen \in Nat
  BY TypeFacts
<1>3. /\ res \in ChunkLists /\ Size(res) = e /\ IsChunk(res, p, e)
      /\ SubSeq(res.bytes, p + 1, e) = SubSeq(base.bytes, p + 1, e)
      /\ \A i \in 1 .. p : res.bytes[i] = result.bytes[i]
      /\ \A i \in 1 .. e - p : res.bytes[p + i] = base.bytes[p + i]
  <2>1. res = Joined(result, BaseChunk(Size(result), e))
    BY DEF Position
  <2>2. base \in ChunkLists /\ result \in ChunkLists /\ IsChunk(base, Size(result), e)
    BY <1>1, <1>2
  <2>3. LET j == Joined(result, BaseChunk(Size(result), e))
        IN  /\ j \in ChunkLists /\ Size(j) = e /\ IsChunk(j, Size(result), e)
            /\ SubSeq(j.bytes, Size(result) + 1, e) = SubSeq(base.bytes, Size(result) + 1, e)
            /\ \A i \in 1 .. Size(result) : j.bytes[i] = result.bytes[i]
            /\ \A i \in 1 .. e - Size(result) : j.bytes[Size(result) + i] = base.bytes[Size(result) + i]
    BY ONLY <2>2, JoinedLast
  <2> QED BY ONLY <2>1, <2>3, Zenon
<1>30. Size(result) = p
  OBVIOUS
<1> HIDE DEF p
<1>4. ASSUME Matches(spans, settled, settledLen, base, baseLen, length, content), Spliced(result, length, content)
      PROVE  Spliced(res, length, content)
  <2>1. ASSUME NEW x \in 0 .. (e - 1) PROVE res.bytes[x + 1] = content[x + 1]
    <3>1. CASE x < p
      <4>1. x + 1 \in 1 .. p /\ x \in 0 .. (p - 1)
        BY ONLY <1>1, <3>1, x \in 0 .. (e - 1)
      <4>2. res.bytes[x + 1] = result.bytes[x + 1]
        BY ONLY <1>3, <4>1
      <4>3. result.bytes[x + 1] = content[x + 1]
        BY ONLY <1>4, <1>30, <4>1 DEF Spliced
      <4> QED BY ONLY <4>2, <4>3
    <3>2. CASE x >= p
      <4>1. /\ x \in Nat /\ x < e /\ (x + 1) - p \in 1 .. e - p /\ p + ((x + 1) - p) = x + 1
            /\ ~(x < settledLen) /\ x < baseLen /\ x \in 0 .. (length - 1)
        BY ONLY <1>1, <1>2, <3>2, x \in 0 .. (e - 1)
      <4>2. res.bytes[x + 1] = base.bytes[x + 1]
        BY ONLY <1>3, <4>1
      <4>3. \A i \in DOMAIN spans : ~Covers(spans[i], x)
        BY ONLY <1>1, <3>2, <4>1
      <4>4. Shown(spans, settled, settledLen, base, baseLen, x) =
                IF x < settledLen THEN settled.bytes[x + 1] ELSE IF x < baseLen THEN base.bytes[x + 1] ELSE Zero
        BY <4>3, ShownUncovered
      <4>5. Shown(spans, settled, settledLen, base, baseLen, x) = content[x + 1]
        BY ONLY <1>4, <4>1 DEF Matches
      <4> QED BY ONLY <4>1, <4>2, <4>4, <4>5
    <3> QED BY ONLY <1>1, <3>1, <3>2, x \in 0 .. (e - 1)
  <2> QED BY ONLY <1>1, <1>3, <2>1 DEF Spliced
<1>5. ASSUME CleanIn(result), NEW s \in {0} \cup base.ends, NEW t \in base.ends, Clean(s, t)
      PROVE  \/ s >= Size(res)
             \/ /\ t <= Size(res) /\ IsChunk(res, s, t)
                /\ SubSeq(res.bytes, s + 1, t) = SubSeq(base.bytes, s + 1, t)
  <2>1. s \in Nat /\ t \in Nat /\ s < t /\ IsChunk(base, s, t)
    BY <1>5, CleanFacts
  <2>2. CASE t <= p /\ IsChunk(result, s, t) /\ SubSeq(result.bytes, s + 1, t) = SubSeq(base.bytes, s + 1, t)
    <3>1. /\ BaseChunk(p, e) \in ChunkLists /\ Size(BaseChunk(p, e)) = e - p
      BY <1>1, <1>2, BaseChunkFacts
    <3>2. Size(result) + Size(BaseChunk(p, e)) <= MaxLength
      <4>1. length <= MaxLength /\ MaxLength \in Nat
        BY TypeFacts
      <4>2. p + (e - p) <= MaxLength
        BY ONLY <1>1, <1>2, <4>1
      <4> QED BY <1>30, <3>1, <4>2
    <3>3. res = Joined(result, BaseChunk(p, e))
      BY DEF p, Position
    <3>4. IsChunk(res, s, t) /\ SubSeq(res.bytes, s + 1, t) = SubSeq(result.bytes, s + 1, t)
      <4> DEFINE b == BaseChunk(p, e)
      <4>1. result \in ChunkLists /\ b \in ChunkLists /\ Size(result) + Size(b) <= MaxLength /\ IsChunk(result, s, t)
        BY <1>2, <2>2, <3>1, <3>2
      <4> HIDE DEF b
      <4>2. \A x, y : IsChunk(result, x, y) =>
                IsChunk(Joined(result, b), x, y) /\ SubSeq(Joined(result, b).bytes, x + 1, y) = SubSeq(result.bytes, x + 1, y)
        BY ONLY <4>1, JoinedKeeps
      <4>3. IsChunk(Joined(result, b), s, t) /\ SubSeq(Joined(result, b).bytes, s + 1, t) = SubSeq(result.bytes, s + 1, t)
        BY ONLY <4>1, <4>2, Zenon
      <4> QED BY ONLY <3>3, <4>3 DEF b
    <3>5. t <= e
      BY ONLY <1>1, <2>1, <2>2
    <3> QED BY <1>3, <2>2, <3>4, <3>5
  <2>3. CASE s >= p
    <3>1. CASE s >= e
      BY <1>3, <3>1
    <3>2. CASE ~(s >= e)
      <4>1. s <= p \/ s >= e
        <5>1. s = 0 \/ s \in base.ends
          OBVIOUS
        <5>2. \A x \in base.ends : x <= p \/ x >= e
          BY <1>1 DEF IsChunk
        <5> QED BY ONLY <1>1, <5>1, <5>2
      <4>2. s = p
        BY ONLY <1>1, <2>1, <2>3, <3>2, <4>1
      <4>3. t <= p \/ t >= e
        BY <1>1 DEF IsChunk
      <4>4. e <= s \/ e >= t
        BY <1>1, <2>1 DEF IsChunk
      <4>5. t = e
        BY ONLY <1>1, <2>1, <4>2, <4>3, <4>4
      <4>6. e <= e
        BY <1>1
      <4> QED BY <1>3, <4>2, <4>5, <4>6
    <3> QED BY <3>1, <3>2
  <2> QED BY <1>5, <1>30, <2>2, <2>3 DEF CleanIn
<1>6. CleanIn(result) => CleanIn(res)
  BY <1>5 DEF CleanIn
<1> QED BY <1>3, <1>4, <1>6

\* A window read at the position, stored and joined to the result.
LEMMA RechunkFacts ==
    ASSUME TypeOK, Position < length, Position \notin CleanStarts, NEW stored \in Tilings(ReadAt(Position, WindowTo))
    PROVE  /\ Joined(result, stored) \in ChunkLists
           /\ Matches(spans, settled, settledLen, base, baseLen, length, content) /\ Spliced(result, length, content) =>
                  Spliced(Joined(result, stored), length, content)
           /\ CleanIn(result) => CleanIn(Joined(result, stored))
<1> DEFINE p == Size(result)  to == WindowTo  res == Joined(result, stored)  r == ReadAt(Position, WindowTo)
<1>1. /\ p \in Nat /\ to \in Nat /\ p < to /\ to <= length
      /\ \A s \in CleanStarts : s > p => to <= s
      /\ p \notin CleanStarts
  BY WindowFacts DEF Position
<1>2. result \in ChunkLists /\ length \in Nat /\ length <= MaxLength /\ MaxLength \in Nat
  BY TypeFacts
<1>3. /\ r \in Seq(Byte) /\ Len(r) = to - p
      /\ \A i \in 1 .. (to - p) : r[i] = Shown(spans, settled, settledLen, base, baseLen, p + i - 1)
  <2>1. p = Position
    BY DEF Position
  <2>2. p <= to
    BY <1>1
  <2> HIDE DEF p, to
  <2>3. /\ ReadAt(p, to) \in Seq(Byte) /\ Len(ReadAt(p, to)) = to - p
        /\ \A i \in 1 .. (to - p) : ReadAt(p, to)[i] = Shown(spans, settled, settledLen, base, baseLen, p + i - 1)
    BY <1>1, <2>2, ReadAtFacts
  <2> QED BY <2>1, <2>3 DEF to
<1>30. Size(result) = p /\ stored \in Tilings(r)
  OBVIOUS
<1> HIDE DEF p, to, r
<1>4. Len(r) <= MaxLength /\ p + (to - p) <= MaxLength
  <2> DEFINE lr == Len(r)
  <2>1. lr = to - p
    BY <1>3
  <2> HIDE DEF lr
  <2>2. lr <= MaxLength /\ p + (to - p) <= MaxLength
    BY ONLY <1>1, <1>2, <2>1
  <2> QED BY <2>2 DEF lr
<1>5. stored \in ChunkLists /\ stored.bytes = r /\ Size(stored) = to - p
  <2>1. stored \in ChunkLists /\ stored.bytes = r /\ Size(stored) = Len(r)
    BY ONLY <1>3, <1>4, <1>30, TilingFacts
  <2> QED BY <1>3, <2>1
<1>6. result \in ChunkLists /\ stored \in ChunkLists /\ Size(result) + Size(stored) <= MaxLength
  BY <1>2, <1>4, <1>5, <1>30
<1>7. /\ res \in ChunkLists /\ Size(res) = Size(result) + Size(stored)
      /\ \A i \in 1 .. Size(result) : res.bytes[i] = result.bytes[i]
      /\ \A i \in 1 .. Size(stored) : res.bytes[Size(result) + i] = stored.bytes[i]
  BY ONLY <1>6, JoinedFacts
<1>8. \A s, e : IsChunk(result, s, e) =>
          IsChunk(res, s, e) /\ SubSeq(res.bytes, s + 1, e) = SubSeq(result.bytes, s + 1, e)
  BY ONLY <1>6, JoinedKeeps
<1> HIDE DEF res
<1>9. Size(res) = to
  <2>1. p + (to - p) = to
    BY <1>1
  <2> QED BY ONLY <1>5, <1>7, <1>30, <2>1
<1>10. ASSUME Matches(spans, settled, settledLen, base, baseLen, length, content), Spliced(result, length, content)
       PROVE  Spliced(res, length, content)
  <2>1. ASSUME NEW x \in 0 .. (to - 1) PROVE res.bytes[x + 1] = content[x + 1]
    <3>1. CASE x < p
      <4>1. x + 1 \in 1 .. p /\ x \in 0 .. (p - 1)
        BY ONLY <1>1, <3>1, x \in 0 .. (to - 1)
      <4>2. res.bytes[x + 1] = result.bytes[x + 1]
        BY ONLY <1>7, <1>30, <4>1
      <4>3. result.bytes[x + 1] = content[x + 1]
        BY ONLY <1>10, <1>30, <4>1 DEF Spliced
      <4> QED BY ONLY <4>2, <4>3
    <3>2. CASE x >= p
      <4> DEFINE i == (x + 1) - p
      <4>1. i \in 1 .. (to - p) /\ p + i = x + 1 /\ p + i - 1 = x /\ x \in 0 .. (length - 1)
        BY ONLY <1>1, <1>2, <3>2, x \in 0 .. (to - 1)
      <4> HIDE DEF i
      <4>2. res.bytes[p + i] = r[i]
        BY ONLY <1>5, <1>7, <1>30, <4>1
      <4>3. r[i] = Shown(spans, settled, settledLen, base, baseLen, p + i - 1)
        BY ONLY <1>3, <4>1
      <4>4. Shown(spans, settled, settledLen, base, baseLen, x) = content[x + 1]
        BY ONLY <1>10, <4>1 DEF Matches
      <4> QED BY ONLY <4>1, <4>2, <4>3, <4>4
    <3> QED BY ONLY <1>1, <3>1, <3>2, x \in 0 .. (to - 1)
  <2> QED BY ONLY <1>1, <1>9, <2>1 DEF Spliced
<1>11. ASSUME CleanIn(result), NEW s \in {0} \cup base.ends, NEW t \in base.ends, Clean(s, t)
       PROVE  \/ s >= Size(res)
              \/ /\ t <= Size(res) /\ IsChunk(res, s, t)
                 /\ SubSeq(res.bytes, s + 1, t) = SubSeq(base.bytes, s + 1, t)
  <2>1. s \in Nat /\ t \in Nat /\ s \in CleanStarts
    BY <1>11, CleanFacts DEF CleanStarts
  <2>2. CASE t <= p /\ IsChunk(result, s, t) /\ SubSeq(result.bytes, s + 1, t) = SubSeq(base.bytes, s + 1, t)
    <3>1. IsChunk(res, s, t) /\ SubSeq(res.bytes, s + 1, t) = SubSeq(result.bytes, s + 1, t)
      BY ONLY <1>8, <2>2, Zenon
    <3>2. t <= to
      BY ONLY <1>1, <2>1, <2>2
    <3> QED BY <1>9, <2>2, <3>1, <3>2
  <2>3. CASE s >= p
    <3>1. s # p
      BY <1>1, <2>1
    <3>2. s > p
      BY ONLY <1>1, <2>1, <2>3, <3>1
    <3>3. to <= s
      BY <1>1, <2>1, <3>2
    <3>4. s >= to
      BY ONLY <1>1, <2>1, <3>3
    <3> QED BY <1>9, <3>4
  <2> QED BY <1>11, <1>30, <2>2, <2>3 DEF CleanIn
<1>12. CleanIn(result) => CleanIn(res)
  BY <1>11 DEF CleanIn
<1> QED BY <1>7, <1>10, <1>12 DEF res

\* The settled prefix begins the result: it holds what no pending span lies over,
\* and every clean chunk comes after it.
LEMMA FinishFacts ==
    ASSUME TypeOK
    PROVE  /\ CleanIn(settled)
           /\ Matches(spans, settled, settledLen, base, baseLen, length, content)
              /\ (\A i \in DOMAIN spans : ~(spans[i].start < settledLen)) => Spliced(settled, length, content)
<1>1. /\ settledLen = Size(settled) /\ settledLen \in Nat /\ length \in Nat /\ spans \in Seq(SpanRec)
  BY TypeFacts
<1>2. CleanIn(settled)
  BY <1>1 DEF CleanIn, Clean
<1>3. ASSUME Matches(spans, settled, settledLen, base, baseLen, length, content),
             \A i \in DOMAIN spans : ~(spans[i].start < settledLen),
             NEW x \in 0 .. (settledLen - 1)
      PROVE  settled.bytes[x + 1] = content[x + 1]
  <2>1. settledLen <= length
    BY <1>3 DEF Matches
  <2>2. x \in Nat /\ x < settledLen /\ x \in 0 .. (length - 1)
    BY ONLY <1>1, <2>1, x \in 0 .. (settledLen - 1)
  <2>3. ASSUME NEW i \in DOMAIN spans PROVE ~Covers(spans[i], x)
    <3> DEFINE a == spans[i].start
    <3>1. a \in Nat /\ ~(a < settledLen)
      BY <1>1, <1>3, SpansFacts, SpanFacts
    <3> HIDE DEF a
    <3>2. ~(a <= x)
      BY ONLY <1>1, <2>2, <3>1
    <3> QED BY <3>2 DEF Covers, a
  <2>4. Shown(spans, settled, settledLen, base, baseLen, x) =
            IF x < settledLen THEN settled.bytes[x + 1] ELSE IF x < baseLen THEN base.bytes[x + 1] ELSE Zero
    BY <2>3, ShownUncovered
  <2>5. Shown(spans, settled, settledLen, base, baseLen, x) = content[x + 1]
    BY <1>3, <2>2 DEF Matches
  <2> QED BY ONLY <2>2, <2>4, <2>5
<1>4. Matches(spans, settled, settledLen, base, baseLen, length, content) => settledLen <= length
  BY DEF Matches
<1> QED BY <1>1, <1>2, <1>3, <1>4 DEF Spliced

\* A result as long as the content it agrees with is the content.
LEMMA SplicedWhole ==
    ASSUME NEW list \in ChunkLists, NEW con \in Seq(Byte), Spliced(list, Len(con), con), Size(list) >= Len(con)
    PROVE  list.bytes = con
<1> DEFINE n == Len(con)
<1>1. list.bytes \in Seq(Byte) /\ Size(list) = Len(list.bytes) /\ Size(list) \in Nat /\ n \in Nat
  BY ListFacts, SequenceFacts
<1>2. Size(list) = n
  BY <1>1 DEF Spliced
<1>3. ASSUME NEW i \in 1 .. n PROVE list.bytes[i] = con[i]
  <2>1. i - 1 \in 0 .. (n - 1) /\ (i - 1) + 1 = i
    BY <1>1
  <2>2. list.bytes[(i - 1) + 1] = con[(i - 1) + 1]
    BY <1>2, <2>1 DEF Spliced
  <2> QED BY <2>1, <2>2
<1> QED BY <1>1, <1>2, <1>3, SeqEqual

-----------------------------------------------------------------------------
(* The inductive invariant, one lemma per action.                          *)

\* What the invariant says.
LEMMA InvFacts ==
    ASSUME CacheInv
    PROVE  /\ TypeOK /\ Typed(spans, settled, settledLen, base, baseLen, length, content) /\ Control
           /\ ~tainted =>
                  /\ file.bytes = saved /\ (~open => content = saved)
                  /\ Matches(spans, settled, settledLen, base, baseLen, length, content)
                  /\ phase = "finalizing" => Spliced(result, length, content)
           /\ phase = "finalizing" => CleanIn(result)
<1>1. TypeOK /\ (tainted \/ ShowsContent) /\ CleanSpliced
  BY DEF CacheInv
<1>2. Typed(spans, settled, settledLen, base, baseLen, length, content) /\ Control
  BY <1>1, TypeParts
<1>3. ASSUME ~tainted
      PROVE  /\ file.bytes = saved /\ (~open => content = saved)
             /\ Matches(spans, settled, settledLen, base, baseLen, length, content)
             /\ phase = "finalizing" => Spliced(result, length, content)
  BY <1>1, <1>3, ShowsFacts DEF Spliced, Position
<1>4. phase = "finalizing" => CleanIn(result)
  BY <1>1 DEF CleanSpliced, CleanIn, Position
<1> QED BY <1>1, <1>2, <1>3, <1>4

\* The invariant of the next state from its parts.
LEMMA InvMade ==
    ASSUME Typed(spans', settled', settledLen', base', baseLen', length', content'), Control',
           ~tainted' =>
               /\ file'.bytes = saved' /\ (~open' => content' = saved')
               /\ Matches(spans', settled', settledLen', base', baseLen', length', content')
               /\ phase' = "finalizing" => Spliced(result', length', content'),
           CleanSpliced'
    PROVE  CacheInv'
<1>1. TypeOK'
  BY TypeMade
<1>2. ASSUME ~tainted' PROVE ShowsContent'
  BY <1>2, ShowsNext DEF Spliced, Position
<1> QED BY <1>1, <1>2 DEF CacheInv

\* Steps that leave the base, the settled length and the spans alone.
LEMMA CleanNext ==
    ASSUME UNCHANGED <<base, baseLen, settledLen, spans>>, CleanIn(result')
    PROVE  CleanSpliced'
<1>1. \A s, e : Clean(s, e)' <=> Clean(s, e)
  BY DEF Clean, IsChunk
<1> QED BY <1>1 DEF CleanSpliced, CleanIn, Position, IsChunk

\* Nothing is spliced while no finalization runs.
LEMMA CleanIdle == ASSUME phase' # "finalizing" PROVE CleanSpliced'
BY DEF CleanSpliced

\* A stuttering step.
LEMMA StutterStep == ASSUME CacheInv, UNCHANGED vars PROVE CacheInv'
<1>1. UNCHANGED <<file, open, writing, phase, result, base, baseLen, settled, settledLen, length, spans,
                  content, saved, tainted, calls, faults>>
  BY DEF vars, handleVars, cacheVars, historyVars
<1>2. /\ Typed(spans', settled', settledLen', base', baseLen', length', content') /\ Control'
      /\ ~tainted' =>
             /\ file'.bytes = saved' /\ (~open' => content' = saved')
             /\ Matches(spans', settled', settledLen', base', baseLen', length', content')
             /\ phase' = "finalizing" => Spliced(result', length', content')
  BY <1>1, InvFacts DEF Control
<1>3. CleanSpliced'
  <2>1. CASE phase = "finalizing"
    <3>1. CleanIn(result')
      BY <1>1, <2>1, InvFacts
    <3> QED BY <1>1, <3>1, CleanNext
  <2>2. CASE phase # "finalizing"
    BY <1>1, <2>2, CleanIdle
  <2> QED BY <2>1, <2>2
<1> QED BY <1>2, <1>3, InvMade

\* A write.
LEMMA WriteStep ==
    ASSUME CacheInv, NEW off \in 0 .. MaxLength, NEW n \in 0 .. MaxWrite, Write(off, n)
    PROVE  CacheInv'
<1> DEFINE data == Data(calls + 1, n)
<1>1. /\ open /\ calls < MaxCalls /\ off + n <= MaxLength
      /\ spans' \in WriteSpans(off, data)
      /\ length' = IF n > 0 THEN Higher(length, off + n) ELSE length
      /\ content' = Overlaid(content, off, data)
      /\ phase' = "spilling" /\ writing' = TRUE /\ calls' = calls + 1
      /\ UNCHANGED <<file, open, result, base, baseLen, settled, settledLen, saved, tainted, faults>>
  BY DEF Write
<1>2. /\ TypeOK /\ Typed(spans, settled, settledLen, base, baseLen, length, content) /\ Control
      /\ ~tainted =>
             /\ file.bytes = saved /\ (~open => content = saved)
             /\ Matches(spans, settled, settledLen, base, baseLen, length, content)
  BY InvFacts
<1>3. calls \in Nat /\ off \in Nat /\ n \in Nat /\ MaxCalls \in Nat /\ calls + 1 \in 0 .. MaxCalls
  BY <1>1, <1>2, BoundsAssumption DEF Control
<1>4. Control'
  BY <1>1, <1>2, <1>3 DEF Control
<1>5. data \in Seq(Byte) /\ Len(data) = n
  <2>1. calls + 1 \in Nat
    BY <1>3
  <2> QED BY <1>3, <2>1, DataFacts
<1> HIDE DEF data
<1>6. /\ Typed(spans', settled', settledLen', base', baseLen', length', content')
      /\ ~tainted => Matches(spans', settled', settledLen', base', baseLen', length', content')
  <2>1. CASE n = 0
    <3>1. data = <<>>
      BY <1>5, <2>1, EmptySeq
    <3>2. spans' = spans /\ content' = content /\ length' = length
      BY <1>1, <2>1, <3>1 DEF WriteSpans, Overlaid
    <3> QED BY <1>1, <1>2, <3>2
  <2>2. CASE n # 0
    <3>1. Len(data) > 0 /\ off + Len(data) <= MaxLength /\ n > 0
      BY <1>1, <1>3, <1>5, <2>2
    <3>2. length' = Higher(length, off + Len(data))
      BY <1>1, <1>5, <3>1
    <3>3. Typed(spans', settled, settledLen, base, baseLen, Higher(length, off + Len(data)), Overlaid(content, off, data))
      BY <1>1, <1>2, <1>3, <1>5, <3>1, WriteTyped
    <3>4. ~tainted =>
              Matches(spans', settled, settledLen, base, baseLen, Higher(length, off + Len(data)), Overlaid(content, off, data))
      BY <1>1, <1>2, <1>3, <1>5, <3>1, WriteMatches
    <3> QED BY <1>1, <3>2, <3>3, <3>4
  <2> QED BY <2>1, <2>2
<1>7. CleanSpliced'
  BY <1>1, CleanIdle
<1> QED BY <1>1, <1>2, <1>4, <1>6, <1>7, InvMade

\* A spill.
LEMMA SpillStep == ASSUME CacheInv, Spill PROVE CacheInv'
<1>1. /\ phase = "spilling" /\ SpillLength > 0 /\ settledLen' = settledLen + SpillLength
      /\ spans' = [spans EXCEPT ![1] = Span(@.start + SpillLength, SubSeq(@.data, SpillLength + 1, Len(@.data)))]
      /\ UNCHANGED <<file, open, writing, phase, result, base, baseLen, length, content, saved, tainted, calls, faults>>
  BY DEF Spill, handleVars, historyVars
<1>2. PICK stored \in Tilings(SubSeq(spans[1].data, 1, SpillLength)) : settled' = Joined(settled, stored)
  BY DEF Spill
<1>3. /\ TypeOK /\ Control
      /\ ~tainted =>
             /\ file.bytes = saved /\ (~open => content = saved)
             /\ Matches(spans, settled, settledLen, base, baseLen, length, content)
  BY InvFacts
<1>4. Typed(spans', settled', settledLen', base', baseLen', length', content')
  <2>1. Typed(spans', Joined(settled, stored), settledLen + SpillLength, base, baseLen, length, content)
    BY <1>1, <1>2, <1>3, SpillTyped
  <2> QED BY <1>1, <1>2, <2>1
<1>5. ~tainted => Matches(spans', settled', settledLen', base', baseLen', length', content')
  <2>1. ~tainted => Matches(spans', Joined(settled, stored), settledLen + SpillLength, base, baseLen, length, content)
    BY <1>1, <1>2, <1>3, SpillMatches
  <2> QED BY <1>1, <1>2, <2>1
<1>6. Control'
  BY <1>1, <1>3 DEF Control
<1>7. phase' # "finalizing" /\ CleanSpliced'
  BY <1>1, CleanIdle
<1> QED BY <1>1, <1>3, <1>4, <1>5, <1>6, <1>7, InvMade

\* A call that ends, well or not, with the cache as it was.
LEMMA ReturnStep ==
    ASSUME CacheInv, SpillFails \/ WriteReturns \/ FinishFails
    PROVE  CacheInv'
<1>1. /\ phase' = "idle" /\ (result' = result \/ result' = NoChunks)
      /\ faults' = faults \/ (faults < MaxFaults /\ faults' = faults + 1)
      /\ UNCHANGED <<file, open, writing, base, baseLen, settled, settledLen, length, spans, content, saved, tainted, calls>>
  BY DEF SpillFails, WriteReturns, FinishFails, cacheVars, historyVars
<1>2. /\ Typed(spans, settled, settledLen, base, baseLen, length, content) /\ Control
      /\ ~tainted =>
             /\ file.bytes = saved /\ (~open => content = saved)
             /\ Matches(spans, settled, settledLen, base, baseLen, length, content)
  BY InvFacts
<1>3. result' \in ChunkLists
  BY <1>1, <1>2, NoChunksFacts DEF Control
<1>4. faults' \in 0 .. MaxFaults
  BY <1>1, <1>2, BoundsAssumption DEF Control
<1>5. Control'
  BY <1>1, <1>2, <1>3, <1>4 DEF Control
<1>6. phase' # "finalizing" /\ CleanSpliced'
  BY <1>1, CleanIdle
<1> QED BY <1>1, <1>2, <1>5, <1>6, InvMade

\* The plain file cut or lengthened.
LEMMA CutContent ==
    ASSUME NEW con \in Seq(Byte), NEW n \in Nat
    PROVE  LET c == [i \in 1 .. n |-> IF i <= Len(con) THEN con[i] ELSE Zero]
           IN  /\ c \in Seq(Byte) /\ Len(c) = n
               /\ \A i \in 1 .. n : c[i] = IF i <= Len(con) THEN con[i] ELSE Zero
<1> DEFINE c == [i \in 1 .. n |-> IF i <= Len(con) THEN con[i] ELSE Zero]
<1>1. Len(con) \in Nat /\ \A i \in 1 .. Len(con) : con[i] \in Byte
  BY SequenceFacts
<1>2. \A i \in 1 .. n : (IF i <= Len(con) THEN con[i] ELSE Zero) \in Byte
  BY <1>1, ZeroByte
<1>3. c \in [1 .. n -> Byte]
  BY <1>2
<1>4. \A i \in 1 .. n : c[i] = IF i <= Len(con) THEN con[i] ELSE Zero
  OBVIOUS
<1> HIDE DEF c
<1>5. c \in Seq(Byte) /\ Len(c) = n
  BY ONLY n \in Nat, <1>3, FunctionIsSequence
<1> QED BY <1>4, <1>5 DEF c

\* A truncation.
LEMMA TruncateStep ==
    ASSUME CacheInv, NEW n \in 0 .. MaxLength, Truncate(n)
    PROVE  CacheInv'
<1>1. /\ open /\ phase = "idle" /\ calls < MaxCalls /\ length' = n /\ baseLen' = Lower(baseLen, n)
      /\ content' = [i \in 1 .. n |-> IF i <= Len(content) THEN content[i] ELSE Zero]
      /\ tainted' = (tainted \/ CutsUnderWrites(n)) /\ writing' = TRUE /\ calls' = calls + 1
      /\ UNCHANGED <<file, open, phase, result, base, saved, faults>>
  BY DEF Truncate
<1>2. PICK below \in Clipped(n) :
          IF settledLen > n
          THEN spans' = CutHead(n) \o below /\ settled' = WholeChunks(n) /\ settledLen' = Kept(n)
          ELSE spans' = below /\ settled' = settled /\ settledLen' = settledLen
  BY DEF Truncate
<1>3. /\ TypeOK /\ Control
      /\ ~tainted =>
             /\ file.bytes = saved
             /\ Matches(spans, settled, settledLen, base, baseLen, length, content)
  BY InvFacts
<1>4. n \in Nat /\ n <= MaxLength /\ settledLen \in Nat /\ content \in Seq(Byte)
  BY <1>3, TypeFacts
<1>5. /\ content' \in Seq(Byte) /\ Len(content') = n
      /\ \A i \in 1 .. n : content'[i] = IF i <= Len(content) THEN content[i] ELSE Zero
  <2> DEFINE c == [i \in 1 .. n |-> IF i <= Len(content) THEN content[i] ELSE Zero]
  <2>1. /\ c \in Seq(Byte) /\ Len(c) = n
        /\ \A i \in 1 .. n : c[i] = IF i <= Len(content) THEN content[i] ELSE Zero
    BY ONLY <1>4, CutContent
  <2>2. content' = c
    BY <1>1
  <2> HIDE DEF c
  <2> QED BY ONLY <2>1, <2>2
<1>6. Control'
  <2>1. calls' \in 0 .. MaxCalls
    BY <1>1, <1>3, BoundsAssumption DEF Control
  <2>2. tainted' \in BOOLEAN
    BY <1>1
  <2> QED BY <1>1, <1>3, <2>1, <2>2 DEF Control
<1>7. /\ Typed(spans', settled', settledLen', base', baseLen', length', content')
      /\ ~tainted' => Matches(spans', settled', settledLen', base', baseLen', length', content')
  <2>1. CASE settledLen > n
    <3>1. spans' = CutHead(n) \o below /\ settled' = WholeChunks(n) /\ settledLen' = Kept(n)
      BY <1>2, <2>1
    <3>2. Typed(CutHead(n) \o below, WholeChunks(n), Kept(n), base, Lower(baseLen, n), n, content')
      BY ONLY <1>2, <1>3, <1>4, <1>5, <2>1, below \in Clipped(n), CutTyped
    <3>3. ASSUME ~tainted'
          PROVE  Matches(CutHead(n) \o below, WholeChunks(n), Kept(n), base, Lower(baseLen, n), n, content')
      <4>1. Matches(spans, settled, settledLen, base, baseLen, length, content) /\ ~CutsUnderWrites(n)
        BY <1>1, <1>3, <3>3
      <4> QED BY ONLY <1>3, <1>4, <1>5, <2>1, <4>1, below \in Clipped(n), TruncateCutMatches
    <3>4. length' = n /\ baseLen' = Lower(baseLen, n) /\ base' = base
      BY <1>1
    <3> QED BY ONLY <3>1, <3>2, <3>3, <3>4
  <2>2. CASE ~(settledLen > n)
    <3>1. spans' = below /\ settled' = settled /\ settledLen' = settledLen /\ settledLen <= n
      BY <1>2, <1>4, <2>2
    <3>2. Typed(below, settled, settledLen, base, Lower(baseLen, n), n, content')
      BY ONLY <1>3, <1>4, <1>5, below \in Clipped(n), ClippedTyped
    <3>3. ASSUME ~tainted'
          PROVE  Matches(below, settled, settledLen, base, Lower(baseLen, n), n, content')
      <4>1. Matches(spans, settled, settledLen, base, baseLen, length, content)
        BY <1>1, <1>3, <3>3
      <4> QED BY ONLY <1>3, <1>4, <1>5, <3>1, <4>1, below \in Clipped(n), TruncateMatches
    <3>4. length' = n /\ baseLen' = Lower(baseLen, n) /\ base' = base
      BY <1>1
    <3> QED BY ONLY <3>1, <3>2, <3>3, <3>4
  <2> QED BY <2>1, <2>2
<1>8. phase' # "finalizing" /\ CleanSpliced'
  BY <1>1, CleanIdle
<1>9. ~tainted' => file'.bytes = saved' /\ (~open' => content' = saved')
  BY <1>1, <1>3
<1> QED BY ONLY <1>6, <1>7, <1>8, <1>9, InvMade

\* A truncation refused when the settled head cannot be read.
LEMMA TruncateFailsStep ==
    ASSUME CacheInv, NEW n \in 0 .. MaxLength, TruncateFails(n)
    PROVE  CacheInv'
<1>1. /\ open /\ phase = "idle" /\ calls < MaxCalls /\ faults < MaxFaults /\ length' = n /\ baseLen' = Lower(baseLen, n)
      /\ spans' \in Clipped(n) /\ tainted' = TRUE /\ writing' = TRUE /\ calls' = calls + 1 /\ faults' = faults + 1
      /\ UNCHANGED <<file, open, phase, result, base, settled, settledLen, content, saved>>
  BY DEF TruncateFails
<1>2. TypeOK /\ Control
  BY InvFacts
<1>3. n \in Nat /\ n <= MaxLength /\ content' \in Seq(Byte)
  BY <1>1, <1>2, TypeFacts
<1>4. Control'
  <2>1. calls' \in 0 .. MaxCalls /\ faults' \in 0 .. MaxFaults
    BY <1>1, <1>2, BoundsAssumption DEF Control
  <2> QED BY <1>1, <1>2, <2>1 DEF Control
<1>5. Typed(spans', settled', settledLen', base', baseLen', length', content')
  <2>1. Typed(spans', settled, settledLen, base, Lower(baseLen, n), n, content')
    BY <1>1, <1>2, <1>3, ClippedTyped
  <2> QED BY <1>1, <2>1
<1>6. tainted' /\ CleanSpliced'
  BY <1>1, CleanIdle
<1> QED BY <1>4, <1>5, <1>6, InvMade

\* finalizeCache begins with the settled prefix.
LEMMA FinishStep == ASSUME CacheInv, Finish PROVE CacheInv'
<1>1. /\ open /\ calls < MaxCalls /\ phase' = "finalizing" /\ result' = settled /\ calls' = calls + 1
      /\ tainted' = (tainted \/ \E i \in DOMAIN spans : spans[i].start < settledLen)
      /\ UNCHANGED <<file, open, writing, base, baseLen, settled, settledLen, length, spans, content, saved, faults>>
  BY DEF Finish, cacheVars
<1>2. /\ TypeOK /\ Typed(spans, settled, settledLen, base, baseLen, length, content) /\ Control
      /\ ~tainted =>
             /\ file.bytes = saved /\ (~open => content = saved)
             /\ Matches(spans, settled, settledLen, base, baseLen, length, content)
  BY InvFacts
<1>3. Control'
  <2>1. calls' \in 0 .. MaxCalls
    BY <1>1, <1>2, BoundsAssumption DEF Control
  <2>2. result' \in ChunkLists
    BY <1>1, <1>2 DEF Typed
  <2>3. tainted' \in BOOLEAN
    BY <1>1
  <2> QED BY <1>1, <1>2, <2>1, <2>2, <2>3 DEF Control
<1>4. ~tainted' => Spliced(result', length', content')
  <2>1. ASSUME ~tainted' PROVE Spliced(settled, length, content)
    <3>1. ~tainted /\ \A i \in DOMAIN spans : ~(spans[i].start < settledLen)
      BY <1>1, <2>1
    <3> QED BY <1>2, <3>1, FinishFacts
  <2> QED BY <1>1, <2>1
<1>5. CleanSpliced'
  <2>1. CleanIn(result')
    BY <1>1, <1>2, FinishFacts
  <2> QED BY <1>1, <2>1, CleanNext
<1>6. ~tainted' => ~tainted
  BY <1>1
<1> QED BY <1>1, <1>2, <1>3, <1>4, <1>5, <1>6, InvMade

\* A step of the splice: more is joined to the result.
LEMMA SpliceStep ==
    ASSUME CacheInv, phase = "finalizing",
           UNCHANGED <<file, open, writing, phase, base, baseLen, settled, settledLen, length, spans,
                       content, saved, tainted, calls, faults>>,
           result' \in ChunkLists,
           Matches(spans, settled, settledLen, base, baseLen, length, content) /\ Spliced(result, length, content) =>
               Spliced(result', length, content),
           CleanIn(result) => CleanIn(result')
    PROVE  CacheInv'
<1>1. /\ Typed(spans, settled, settledLen, base, baseLen, length, content) /\ Control
      /\ ~tainted =>
             /\ file.bytes = saved /\ (~open => content = saved)
             /\ Matches(spans, settled, settledLen, base, baseLen, length, content)
             /\ Spliced(result, length, content)
      /\ CleanIn(result)
  BY InvFacts
<1>2. Control'
  BY <1>1 DEF Control
<1>3. CleanSpliced'
  BY <1>1, CleanNext
<1> QED BY <1>1, <1>2, <1>3, InvMade

\* A clean chunk is reused.
LEMMA ReuseStep == ASSUME CacheInv, NEW e \in base.ends, Reuse(e) PROVE CacheInv'
<1>1. /\ phase = "finalizing" /\ Clean(Position, e) /\ result' = Joined(result, BaseChunk(Position, e))
      /\ UNCHANGED <<file, open, writing, phase, base, baseLen, settled, settledLen, length, spans,
                     content, saved, tainted, calls, faults>>
  BY DEF Reuse, cacheVars, historyVars
<1>2. TypeOK
  BY InvFacts
<1>3. /\ result' \in ChunkLists
      /\ Matches(spans, settled, settledLen, base, baseLen, length, content) /\ Spliced(result, length, content) =>
             Spliced(result', length, content)
      /\ CleanIn(result) => CleanIn(result')
  BY <1>1, <1>2, ReuseFacts
<1> QED BY <1>1, <1>3, SpliceStep

\* A dirty window is read and stored.
LEMMA RechunkStep == ASSUME CacheInv, Rechunk PROVE CacheInv'
<1>1. /\ phase = "finalizing" /\ Position < length /\ Position \notin CleanStarts
      /\ UNCHANGED <<file, open, writing, phase, base, baseLen, settled, settledLen, length, spans,
                     content, saved, tainted, calls, faults>>
  BY DEF Rechunk, cacheVars, historyVars
<1>2. PICK stored \in Tilings(ReadAt(Position, WindowTo)) : result' = Joined(result, stored)
  BY DEF Rechunk, WindowTo
<1>3. TypeOK
  BY InvFacts
<1>4. /\ Joined(result, stored) \in ChunkLists
      /\ Matches(spans, settled, settledLen, base, baseLen, length, content) /\ Spliced(result, length, content) =>
             Spliced(Joined(result, stored), length, content)
      /\ CleanIn(result) => CleanIn(Joined(result, stored))
  BY <1>1, <1>3, RechunkFacts
<1>5. /\ result' \in ChunkLists
      /\ Matches(spans, settled, settledLen, base, baseLen, length, content) /\ Spliced(result, length, content) =>
             Spliced(result', length, content)
      /\ CleanIn(result) => CleanIn(result')
  BY <1>2, <1>4
<1> QED BY <1>1, <1>5, SpliceStep

\* A handle on a version: what a fresh cache over it shows.
LEMMA FreshStep ==
    ASSUME NEW list \in ChunkLists, FreshCache(list), content' \in Seq(Byte), Control', phase' # "finalizing",
           ~tainted' => list.bytes = content' /\ file'.bytes = saved' /\ (~open' => content' = saved')
    PROVE  CacheInv'
<1>1. /\ base' = list /\ baseLen' = Size(list) /\ length' = Size(list)
      /\ settled' = NoChunks /\ settledLen' = 0 /\ spans' = <<>>
  BY DEF FreshCache
<1>2. Typed(spans', settled', settledLen', base', baseLen', length', content')
  <2>1. Typed(<<>>, NoChunks, 0, list, Size(list), Size(list), content')
    BY FreshTyped
  <2> QED BY ONLY <1>1, <2>1
<1>3. ~tainted' => Matches(spans', settled', settledLen', base', baseLen', length', content')
  <2>1. Matches(<<>>, NoChunks, 0, list, Size(list), Size(list), list.bytes)
    BY FreshMatches
  <2>2. ~tainted' => content' = list.bytes
    OBVIOUS
  <2> QED BY ONLY <1>1, <2>1, <2>2
<1>4. CleanSpliced'
  BY CleanIdle
<1> QED BY <1>2, <1>3, <1>4, InvMade

\* The version is published.
LEMMA PublishStep == ASSUME CacheInv, NEW remove \in BOOLEAN, Publish(remove) PROVE CacheInv'
<1>1. /\ phase = "finalizing" /\ Size(result) >= length /\ file' = result /\ saved' = content /\ result' = NoChunks
      /\ phase' = "idle" /\ open' = ~remove /\ writing' = FALSE /\ FreshCache(result)
      /\ UNCHANGED <<content, tainted, calls, faults>>
  BY DEF Publish, Position
<1>2. /\ Control /\ result \in ChunkLists /\ content \in Seq(Byte)
      /\ ~tainted => length = Len(content) /\ Spliced(result, length, content)
  BY <1>1, InvFacts DEF Control, Typed, Matches
<1>3. ~tainted => result.bytes = content
  BY <1>1, <1>2, SplicedWhole
<1>4. Control'
  <2>1. open' \in BOOLEAN /\ result' \in ChunkLists
    BY <1>1, NoChunksFacts
  <2> QED BY <1>1, <1>2, <2>1 DEF Control
<1>5. phase' # "finalizing" /\ content' \in Seq(Byte)
  BY <1>1, <1>2
<1>6. ~tainted' => result.bytes = content' /\ file'.bytes = saved' /\ (~open' => content' = saved')
  BY <1>1, <1>3
<1> QED BY ONLY <1>1, <1>2, <1>4, <1>5, <1>6, FreshStep

\* A handle is opened.
LEMMA OpenStep == ASSUME CacheInv, NEW keyed \in BOOLEAN, Open(keyed) PROVE CacheInv'
<1>1. /\ ~open /\ open' = TRUE /\ writing' = keyed /\ FreshCache(file)
      /\ UNCHANGED <<file, phase, result, content, saved, tainted, calls, faults>>
  BY DEF Open, historyVars
<1>2. /\ Control /\ file \in ChunkLists /\ content \in Seq(Byte)
      /\ ~tainted => file.bytes = saved /\ content = saved
  BY <1>1, InvFacts DEF Control, Typed
<1>3. Control' /\ phase' # "finalizing" /\ content' \in Seq(Byte)
  BY <1>1, <1>2 DEF Control
<1>4. ~tainted' => file.bytes = content' /\ file'.bytes = saved' /\ (~open' => content' = saved')
  BY <1>1, <1>2
<1> QED BY ONLY <1>1, <1>2, <1>3, <1>4, FreshStep

\* A handle is dropped.
LEMMA DropHandleStep == ASSUME CacheInv, DropHandle PROVE CacheInv'
<1>1. /\ phase = "idle" /\ open' = FALSE /\ writing' = FALSE /\ content' = saved /\ FreshCache(file)
      /\ UNCHANGED <<file, phase, result, saved, tainted, calls, faults>>
  BY DEF DropHandle
<1>2. /\ Control /\ file \in ChunkLists /\ saved \in Seq(Byte)
      /\ ~tainted => file.bytes = saved
  BY InvFacts DEF Control
<1>3. Control' /\ phase' # "finalizing" /\ content' \in Seq(Byte)
  BY <1>1, <1>2 DEF Control
<1>4. ~tainted' => file.bytes = content' /\ file'.bytes = saved' /\ (~open' => content' = saved')
  BY <1>1, <1>2
<1> QED BY ONLY <1>1, <1>2, <1>3, <1>4, FreshStep

-----------------------------------------------------------------------------
(* The theorems.                                                           *)

\* The version first opened is whole and nothing is pending.
LEMMA InitInv == Init => CacheInv
<1> SUFFICES ASSUME Init PROVE CacheInv
  OBVIOUS
<1>1. PICK n \in 0 .. MaxBase : file \in Tilings(Data(0, n)) /\ baseLen = n /\ length = n /\ content = Data(0, n)
  BY DEF Init
<1>2. /\ saved = content /\ base = file /\ settled = NoChunks /\ settledLen = 0 /\ spans = <<>>
      /\ open = FALSE /\ writing = FALSE /\ phase = "idle" /\ result = NoChunks
      /\ tainted = FALSE /\ calls = 0 /\ faults = 0
  BY DEF Init
<1>3. n \in Nat /\ n <= MaxLength /\ 0 \in 0 .. MaxCalls /\ 0 \in 0 .. MaxFaults /\ length \in 0 .. MaxLength
  BY <1>1, BoundsAssumption
<1>4. content \in Seq(Byte) /\ Len(content) = n
  BY <1>1, <1>3, DataFacts
<1>5. file \in ChunkLists /\ file.bytes = content /\ Size(file) = n
  <2>1. Len(content) <= MaxLength /\ file \in Tilings(content)
    BY <1>1, <1>3, <1>4
  <2>2. file \in ChunkLists /\ file.bytes = content /\ Size(file) = Len(content)
    BY ONLY <1>4, <2>1, TilingFacts
  <2> QED BY <1>4, <2>2
<1>6. NoChunks \in ChunkLists /\ Size(NoChunks) = 0
  BY NoChunksFacts
<1>7. spans \in Seq([start : Nat, data : Seq(Byte) \ {<<>>}]) /\ DOMAIN spans = {}
  BY <1>2, EmptySeq
<1>8. baseLen \in 0 .. Lower(length, Size(base))
  BY <1>1, <1>2, <1>3, <1>5 DEF Lower
<1>9. TypeOK
  BY <1>2, <1>3, <1>4, <1>5, <1>6, <1>7, <1>8 DEF TypeOK
<1>10. ShowsContent
  <2>1. Matches(spans, settled, settledLen, base, baseLen, length, content)
    <3>1. Matches(<<>>, NoChunks, 0, file, Size(file), Size(file), file.bytes)
      BY <1>5, FreshMatches
    <3>2. baseLen = Size(file) /\ length = Size(file) /\ content = file.bytes
      BY <1>1, <1>5
    <3> QED BY ONLY <1>2, <3>1, <3>2
  <2>2. SpansDisjoint /\ SpansOrdered
    BY <1>7 DEF SpansDisjoint, SpansOrdered
  <2>3. ASSUME NEW off \in 0 .. (length - 1) PROVE ReadByte(off) = content[off + 1]
    BY <2>1, ReadByteShown DEF Matches
  <2>4. length = Len(content) /\ settledLen <= length
    BY <2>1 DEF Matches
  <2>5. SpliceExact
    BY <1>2, <1>5 DEF SpliceExact
  <2> QED BY <1>2, <2>2, <2>3, <2>4, <2>5 DEF ShowsContent
<1>11. CleanSpliced
  BY <1>2 DEF CleanSpliced
<1> QED BY <1>9, <1>10, <1>11 DEF CacheInv

\* Every step of the handle keeps the invariant.
LEMMA StepInv == CacheInv /\ [Next]_vars => CacheInv'
<1> SUFFICES ASSUME CacheInv, [Next]_vars PROVE CacheInv'
  OBVIOUS
<1>1. ASSUME NEW off \in 0 .. MaxLength, NEW n \in 0 .. MaxWrite, Write(off, n) PROVE CacheInv'
  BY <1>1, WriteStep
<1>2. CASE Spill
  BY <1>2, SpillStep
<1>3. CASE SpillFails \/ WriteReturns \/ FinishFails
  BY <1>3, ReturnStep
<1>4. ASSUME NEW n \in 0 .. MaxLength, Truncate(n) PROVE CacheInv'
  BY <1>4, TruncateStep
<1>5. ASSUME NEW n \in 0 .. MaxLength, TruncateFails(n) PROVE CacheInv'
  BY <1>5, TruncateFailsStep
<1>6. CASE Finish
  BY <1>6, FinishStep
<1>7. ASSUME NEW e \in base.ends, Reuse(e) PROVE CacheInv'
  BY <1>7, ReuseStep
<1>8. CASE Rechunk
  BY <1>8, RechunkStep
<1>9. ASSUME NEW remove \in BOOLEAN, Publish(remove) PROVE CacheInv'
  BY <1>9, PublishStep
<1>10. ASSUME NEW keyed \in BOOLEAN, Open(keyed) PROVE CacheInv'
  BY <1>10, OpenStep
<1>11. CASE DropHandle
  BY <1>11, DropHandleStep
<1>12. CASE UNCHANGED vars
  BY <1>12, StutterStep
<1> QED BY <1>1, <1>2, <1>3, <1>4, <1>5, <1>6, <1>7, <1>8, <1>9, <1>10, <1>11, <1>12 DEF Next

\* In every behaviour of a handle, with any failures of storeChunks and
\* readChunksAt, its lists and lengths agree, what it shows and splices is the plain
\* file unless bytes were lost before, and no clean chunk is passed over.
THEOREM CacheInvariance == Spec => []CacheInv
BY InitInv, StepInv, PTL DEF Spec

\* finalizeCache publishes, byte for byte, what the client had written by then,
\* whatever was spilled, cut, reused or chunked again.
THEOREM SpliceIsExact == Spec => []SpliceExact
<1>1. CacheInv => SpliceExact
  BY DEF CacheInv, ShowsContent, SpliceExact
<1> QED BY <1>1, CacheInvariance, PTL

\* readLocked shows the bytes of the calls so far at every point of a handle's life.
THEOREM ReadsYourWrites == Spec => []ReadYourWrites
<1>1. CacheInv => ReadYourWrites
  <2> SUFFICES ASSUME CacheInv, ~tainted PROVE View = content
    BY DEF ReadYourWrites
  <2>1. TypeOK /\ Matches(spans, settled, settledLen, base, baseLen, length, content)
    BY InvFacts
  <2>2. length \in Nat /\ content \in Seq(Byte) /\ length = Len(content)
    BY <2>1, TypeFacts DEF Matches
  <2>3. /\ View \in Seq(Byte) /\ Len(View) = length - 0
        /\ \A i \in 1 .. (length - 0) : View[i] = Shown(spans, settled, settledLen, base, baseLen, 0 + i - 1)
    <3>1. 0 \in Nat /\ 0 <= length
      BY <2>2
    <3> QED BY <2>1, <2>2, <3>1, ReadAtFacts DEF View
  <2>4. ASSUME NEW i \in 1 .. length PROVE View[i] = content[i]
    <3>1. i \in 1 .. (length - 0) /\ 0 + i - 1 \in 0 .. (length - 1) /\ (0 + i - 1) + 1 = i
      BY <2>2
    <3>2. View[i] = Shown(spans, settled, settledLen, base, baseLen, 0 + i - 1)
      BY ONLY <2>3, <3>1
    <3>3. Shown(spans, settled, settledLen, base, baseLen, 0 + i - 1) = content[(0 + i - 1) + 1]
      BY ONLY <2>1, <3>1 DEF Matches
    <3> QED BY ONLY <3>1, <3>2, <3>3
  <2>5. Len(View) = length
    BY <2>2, <2>3
  <2> QED BY ONLY <2>2, <2>3, <2>4, <2>5, SeqEqual
<1> QED BY <1>1, CacheInvariance, PTL

\* writeLocked's fast path and coalescing, commitSpill and Truncate keep the pending
\* spans disjoint.
THEOREM SpansStayDisjoint == Spec => []SpansDisjoint
<1>1. CacheInv => SpansDisjoint
  BY DEF CacheInv, ShowsContent, SpansDisjoint
<1> QED BY <1>1, CacheInvariance, PTL

\* A base chunk that no call touched is in the finished splice as it was and where it
\* was, also after bytes were lost elsewhere.
THEOREM UntouchedIsReused == Spec => []UntouchedReused
<1>1. CacheInv => UntouchedReused
  <2> SUFFICES ASSUME CacheInv, phase = "finalizing", Position >= length,
                      NEW s \in {0} \cup base.ends, NEW e \in base.ends, Clean(s, e)
               PROVE  IsChunk(result, s, e) /\ SubSeq(result.bytes, s + 1, e) = SubSeq(base.bytes, s + 1, e)
    BY DEF UntouchedReused
  <2>1. TypeOK /\ CleanIn(result)
    BY InvFacts
  <2>2. s \in Nat /\ e \in Nat /\ s < e /\ e <= length
    BY <2>1, CleanFacts
  <2>3. length \in Nat /\ Size(result) \in Nat /\ Size(result) >= length
    BY <2>1, TypeFacts, ListFacts DEF Position
  <2>4. ~(s >= Size(result))
    BY ONLY <2>2, <2>3
  <2> QED BY <2>1, <2>4 DEF CleanIn
<1> QED BY <1>1, CacheInvariance, PTL
=============================================================================
