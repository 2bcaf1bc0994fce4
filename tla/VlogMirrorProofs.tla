-------------------------- MODULE VlogMirrorProofs --------------------------
(***************************************************************************)
(* Proofs about VlogMirror: an acknowledged append stays mounted, and where *)
(* at most one copy may lag the complete copies agree and the recorded     *)
(* prefix is durable on a quorum.                                          *)
(***************************************************************************)
EXTENDS VlogMirror, SequenceTheorems, FiniteSetTheorems, TLAPS

-----------------------------------------------------------------------------
(* Contents as sequences.                                                  *)

\* A function on 1 .. n is a sequence of length n.
LEMMA FunctionIsSequence ==
    ASSUME NEW S, NEW n \in Nat, NEW f \in [1 .. n -> S]
    PROVE  f \in Seq(S) /\ Len(f) = n
<1>1. f \in Seq(S)
  BY SeqDef
<1>2. Len(f) \in Nat /\ DOMAIN f = 1 .. Len(f)
  BY <1>1, LenProperties
<1>3. 1 .. n = 1 .. Len(f)
  BY <1>2
<1> QED
  BY <1>1, <1>2, <1>3

\* The bounds are numbers.
LEMMA Bounds == /\ MaxLength \in Nat /\ MaxParts \in Nat /\ MaxRestarts \in Nat
                /\ Committer \in Actors /\ Writers \subseteq Actors /\ Stray \notin Actors
                /\ Committer \notin Writers
  BY BoundsAssumption, ActorsAssumption DEF Actors

\* The contents of a copy are the sequences that fit (Plog).
LEMMA ContentsSeq ==
    ASSUME NEW s
    PROVE  s \in Contents <=> s \in Seq(Values) /\ Len(s) <= MaxLength
<1>1. ASSUME s \in Contents PROVE s \in Seq(Values) /\ Len(s) <= MaxLength
  <2>1. PICK n \in 0 .. MaxLength : s \in [1 .. n -> Values]
    BY <1>1 DEF Contents
  <2>2. n \in Nat /\ n <= MaxLength
    BY <2>1, Bounds
  <2> QED BY <2>1, <2>2, FunctionIsSequence
<1>2. ASSUME s \in Seq(Values), Len(s) <= MaxLength PROVE s \in Contents
  <2>1. Len(s) \in Nat /\ s \in [1 .. Len(s) -> Values]
    BY <1>2, LenProperties
  <2>2. Len(s) \in 0 .. MaxLength
    BY <1>2, <2>1, Bounds
  <2> QED BY <2>1, <2>2 DEF Contents
<1> QED BY <1>1, <1>2

\* What is known of every content.
LEMMA ContentFacts ==
    ASSUME NEW s \in Contents
    PROVE  /\ Len(s) \in Nat /\ Len(s) <= MaxLength /\ s \in Seq(Values)
           /\ \A i \in 1 .. Len(s) : s[i] \in Values
<1>1. s \in Seq(Values) /\ Len(s) <= MaxLength
  BY ContentsSeq
<1> QED BY <1>1, LenProperties, ElementOfSeq

\* The empty content (Truncate to 0).
LEMMA EmptyContent == <<>> \in Contents /\ Len(<<>>) = 0
<1>1. <<>> \in Seq(Values) /\ Len(<<>>) = 0
  BY EmptySeq
<1>2. Len(<<>>) <= MaxLength
  BY <1>1, Bounds
<1> QED BY <1>1, <1>2, ContentsSeq, Zenon

\* A range of a content (ReadAt).
LEMMA SliceFacts ==
    ASSUME NEW s \in Contents, NEW from \in Nat, NEW to \in Nat, to <= Len(s)
    PROVE  /\ Slice(s, from, to) \in Contents
           /\ Len(Slice(s, from, to)) = IF from <= to THEN to - from ELSE 0
           /\ \A i \in 1 .. to - from : Slice(s, from, to)[i] = s[from + i]
<1>1. \A i \in from + 1 .. to : s[i] \in Values
  BY ContentFacts
<1>2. /\ SubSeq(s, from + 1, to) \in Seq(Values)
      /\ Len(SubSeq(s, from + 1, to)) = IF from + 1 <= to THEN to - (from + 1) + 1 ELSE 0
      /\ \A i \in 1 .. to - (from + 1) + 1 : SubSeq(s, from + 1, to)[i] = s[(from + 1) + i - 1]
  <2> DEFINE m == from + 1
  <2>1. m \in Int /\ to \in Int
    OBVIOUS
  <2>2. \A i \in m .. to : s[i] \in Values
    BY <1>1
  <2> HIDE DEF m
  <2>3. /\ SubSeq(s, m, to) \in Seq(Values)
        /\ Len(SubSeq(s, m, to)) = IF m <= to THEN to - m + 1 ELSE 0
        /\ \A i \in 1 .. to - m + 1 : SubSeq(s, m, to)[i] = s[m + i - 1]
    BY <2>1, <2>2, SubSeqProperties
  <2> QED BY <2>3 DEF m
<1>3. Len(SubSeq(s, from + 1, to)) <= MaxLength
  BY <1>2, ContentFacts, Bounds
<1>4. \A i \in 1 .. to - from : SubSeq(s, from + 1, to)[i] = s[from + i]
  <2> TAKE i \in 1 .. to - from
  <2>1. i \in 1 .. to - (from + 1) + 1 /\ (from + 1) + i - 1 = from + i
    OBVIOUS
  <2> QED BY <1>2, <2>1
<1>5. SubSeq(s, from + 1, to) \in Contents
  BY <1>2, <1>3, ContentsSeq, Zenon
<1> QED BY <1>2, <1>4, <1>5 DEF Slice

\* One content after another.
LEMMA ConcatFacts ==
    ASSUME NEW s \in Contents, NEW t \in Contents, Len(s) + Len(t) <= MaxLength
    PROVE  /\ s \o t \in Contents /\ Len(s \o t) = Len(s) + Len(t)
           /\ \A i \in 1 .. Len(s) : (s \o t)[i] = s[i]
           /\ \A i \in 1 .. Len(t) : (s \o t)[Len(s) + i] = t[i]
<1>1. s \in Seq(Values) /\ t \in Seq(Values) /\ Len(s) \in Nat /\ Len(t) \in Nat
  BY ContentFacts
<1>2. /\ s \o t \in Seq(Values) /\ Len(s \o t) = Len(s) + Len(t)
      /\ \A i \in 1 .. Len(s) + Len(t) : (s \o t)[i] = IF i <= Len(s) THEN s[i] ELSE t[i - Len(s)]
  BY <1>1, ConcatProperties
<1>3. \A i \in 1 .. Len(s) : (s \o t)[i] = s[i]
  BY <1>1, <1>2
<1>4. \A i \in 1 .. Len(t) : (s \o t)[Len(s) + i] = t[i]
  <2> TAKE i \in 1 .. Len(t)
  <2>1. Len(s) + i \in 1 .. Len(s) + Len(t) /\ ~(Len(s) + i <= Len(s)) /\ (Len(s) + i) - Len(s) = i
    BY <1>1
  <2> QED BY <1>2, <2>1
<1> QED BY <1>2, <1>3, <1>4, ContentsSeq

\* Two contents that agree everywhere are equal.
LEMMA ContentsEqual ==
    ASSUME NEW s \in Contents, NEW t \in Contents, Len(s) = Len(t), \A i \in 1 .. Len(s) : s[i] = t[i]
    PROVE  s = t
  BY ContentFacts, SeqEqual

\* EnsureAppend adds the unit or finds it there, and changes nothing else.
LEMMA ExtendedFacts ==
    ASSUME NEW s \in Contents, NEW at \in Nat, NEW unit \in Values, at < MaxLength, Fits(s, at, unit)
    PROVE  /\ Extended(s, at, unit) \in Contents
           /\ Len(Extended(s, at, unit)) >= Len(s) /\ Len(Extended(s, at, unit)) >= at + 1
           /\ \A i \in 1 .. Len(s) : Extended(s, at, unit)[i] = s[i]
           /\ Extended(s, at, unit)[at + 1] = unit
<1>1. s \in Seq(Values) /\ Len(s) \in Nat /\ Len(s) <= MaxLength /\ at <= Len(s)
  BY ContentFacts DEF Fits
<1>2. CASE at < Len(s)
  BY <1>1, <1>2 DEF Extended, Fits
<1>3. CASE at = Len(s)
  <2>1. /\ Append(s, unit) \in Seq(Values) /\ Len(Append(s, unit)) = Len(s) + 1
        /\ \A i \in 1 .. Len(s) : Append(s, unit)[i] = s[i]
        /\ Append(s, unit)[Len(s) + 1] = unit
    BY <1>1, AppendProperties
  <2>2. Append(s, unit) \in Contents
    <3>1. Len(Append(s, unit)) <= MaxLength
      BY <1>1, <1>3, <2>1, Bounds
    <3> QED BY <2>1, <3>1, ContentsSeq, Zenon
  <2>3. Extended(s, at, unit) = Append(s, unit)
    BY <1>1, <1>3 DEF Extended
  <2> QED BY <1>1, <1>3, <2>1, <2>2, <2>3
<1> QED BY <1>1, <1>2, <1>3

\* The first unit of an append and the rest (EnsureWrite).
LEMMA PartsFacts ==
    ASSUME NEW s \in Contents, s # <<>>
    PROVE  /\ Head(s) \in Values /\ Head(s) = s[1] /\ Len(s) > 0
           /\ Tail(s) \in Contents /\ Len(Tail(s)) = Len(s) - 1
           /\ \A i \in 1 .. Len(s) - 1 : Tail(s)[i] = s[i + 1]
           /\ Len(s) > 1 => Tail(s) # <<>>
<1>1. s \in Seq(Values) /\ Len(s) \in Nat /\ Len(s) <= MaxLength
  BY ContentFacts
<1>2. /\ Head(s) \in Values /\ Tail(s) \in Seq(Values) /\ Len(Tail(s)) = Len(s) - 1
      /\ \A i \in 1 .. Len(Tail(s)) : Tail(s)[i] = s[i + 1]
  BY <1>1, HeadTailProperties
<1>3. Len(s) > 0
  BY <1>1, EmptySeq
<1>4. Head(s) = s[1]
  BY <1>1, <1>3
<1>5. Tail(s) \in Contents
  <2>1. Len(Tail(s)) <= MaxLength
    BY <1>1, <1>2, Bounds
  <2> QED BY <1>2, <2>1, ContentsSeq, Zenon
<1>6. Len(s) > 1 => Tail(s) # <<>>
  <2>1. Len(s) > 1 => Len(Tail(s)) # 0
    BY <1>1, <1>2
  <2> QED BY <2>1, EmptyContent, Zenon
<1> QED BY <1>1, <1>2, <1>3, <1>4, <1>5, <1>6

\* A content that grows keeps what it holds (EnsureAppend never overwrites).
LEMMA HoldsGrows ==
    ASSUME NEW s \in Contents, NEW t \in Contents, NEW acked, NEW n \in Nat,
           Len(t) >= Len(s), \A i \in 1 .. Len(s) : t[i] = s[i],
           Holds(s, acked, n)
    PROVE  Holds(t, acked, n)
  BY ContentFacts DEF Holds

-----------------------------------------------------------------------------
(* State facts that most steps use.                                        *)

\* The mounted object.
LEMMA MountedFacts ==
    ASSUME TypeOK
    PROVE  /\ Len(mounts) \in Nat /\ Len(mounts) > 0 /\ DOMAIN mounts = 1 .. Len(mounts)
           /\ Len(mounts) \in DOMAIN mounts
           /\ Mounted \in Objects /\ Mounted.length \in Nat /\ Mounted.length <= MaxLength
           /\ Mounted.complete \subseteq Replicas /\ Mounted.live \subseteq Replicas
<1>1. mounts \in Seq(Objects) /\ mounts # <<>>
  BY DEF TypeOK
<1>2. Len(mounts) \in Nat /\ DOMAIN mounts = 1 .. Len(mounts)
  BY <1>1, LenProperties
<1>3. Len(mounts) # 0
  BY <1>1, EmptySeq
<1>4. Len(mounts) \in 1 .. Len(mounts)
  BY <1>2, <1>3
<1>5. Mounted \in Objects
  BY <1>1, <1>4, ElementOfSeq DEF Mounted
<1>6. \A m \in Objects : /\ m.length \in 0 .. MaxLength /\ m.complete \subseteq Replicas
                          /\ m.live \subseteq Replicas
  BY DEF Objects
<1> QED BY <1>2, <1>3, <1>4, <1>5, <1>6, Bounds

\* The fanout of an actor.
LEMMA OpFacts ==
    ASSUME TypeOK, NEW o \in Actors
    PROVE  /\ op[o] \in Operations /\ op[o].gen \in DOMAIN mounts
           /\ op[o].pc \in {"idle", "resolved", "fanout", "record"}
           /\ op[o].offset \in Nat /\ op[o].offset <= MaxLength /\ op[o].data \in Contents
           /\ op[o].ok \subseteq Replicas /\ op[o].bad \subseteq Replicas
  BY Bounds DEF TypeOK, Operations

\* A client call.
LEMMA CallFacts ==
    ASSUME TypeOK, NEW c \in calls
    PROVE  /\ c \in ClientCalls /\ c.owner \in Actors \cup {Stray} /\ c.rep \in Replicas
           /\ c.gen \in Nat /\ c.gen \in {0} \cup DOMAIN mounts
           /\ c.kind \in {"append", "commit"} /\ c.at \in Nat /\ c.at <= MaxLength /\ c.parts \in Contents
           /\ c.owner # Stray => c.owner \in Actors
           /\ c.owner \in Actors => c.owner # Stray
  BY Bounds DEF TypeOK, ClientCalls

\* The copies are finitely many.
LEMMA ReplicasFinite ==
    /\ IsFiniteSet(Replicas) /\ Cardinality(Replicas) \in Nat /\ Cardinality(Replicas) > 0
    /\ \A R \in SUBSET Replicas : IsFiniteSet(R) /\ Cardinality(R) \in Nat /\ Cardinality(R) <= Cardinality(Replicas)
    /\ \A R, T \in SUBSET Replicas : R \subseteq T => Cardinality(R) <= Cardinality(T)
    /\ \A R \in SUBSET Replicas : Cardinality(R) = Cardinality(Replicas) => R = Replicas
    /\ writeQuorum \in Nat /\ writeQuorum > 0 /\ writeQuorum <= Cardinality(Replicas)
<1>1. IsFiniteSet(Replicas) /\ Replicas # {} /\ MinCopies \in Nat \ {0}
  BY ReplicasAssumption
<1>2. \A R \in SUBSET Replicas : IsFiniteSet(R) /\ Cardinality(R) \in Nat /\ Cardinality(R) <= Cardinality(Replicas)
  BY <1>1, FS_Subset, FS_CardinalityType
<1>3. \A R, T \in SUBSET Replicas : R \subseteq T => Cardinality(R) <= Cardinality(T)
  BY <1>2, FS_Subset
<1>4. \A R \in SUBSET Replicas : Cardinality(R) = Cardinality(Replicas) => R = Replicas
  BY <1>1, FS_Subset
<1>5. Cardinality(Replicas) \in Nat /\ Cardinality(Replicas) > 0
  BY <1>1, FS_CardinalityType, FS_EmptySet
<1> QED BY <1>1, <1>2, <1>3, <1>4, <1>5 DEF writeQuorum, Smaller

-----------------------------------------------------------------------------
(* Calls that answer.                                                      *)

\* What EnsureAppend may do to a content.
Grown(s, t) == Len(t) >= Len(s) /\ \A i \in 1 .. Len(s) : t[i] = s[i]

\* The next unit of an append is on its copy.
Landed(c) == Len(disk'[c.rep]) >= c.at + 1 /\ disk'[c.rep][c.at + 1] = Head(c.parts)

NextPart(c) == [c EXCEPT !.at = @ + 1, !.parts = Tail(@)]

\* What all answers have in common: copies only grow, a commit makes a copy
\* durable, and one answer is counted.
Landing(c) ==
    /\ disk' \in [Replicas -> Contents] /\ \A r \in Replicas : Grown(disk[r], disk'[r])
    /\ durable' \in [Replicas -> Contents] /\ \A r \in Replicas : durable'[r] \in {durable[r], disk[r]}
    /\ op' \in [Actors -> Operations]
    /\ \A o \in Actors : /\ op'[o].pc = op[o].pc /\ op'[o].gen = op[o].gen
                         /\ op'[o].offset = op[o].offset /\ op'[o].data = op[o].data
                         /\ op[o].ok \subseteq op'[o].ok
    /\ \A o \in Actors : \A r \in op'[o].ok :
          r \in op[o].ok \/ /\ o = c.owner /\ r = c.rep /\ Reachable(c)
                            /\ c.kind = "commit" => durable'[r] = disk[r]
                            /\ c.kind = "append" => Len(c.parts) = 1 /\ Landed(c)
    /\ \A d \in calls' :
          d \in calls \/ (c.kind = "append" /\ Len(c.parts) > 1 /\ d = NextPart(c) /\ Landed(c))
    /\ UNCHANGED <<open, failed, mounts, moveVars, recorded, stream>>
    /\ {requests', faults', moves', restarts'} \subseteq Nat

\* What is left of an append fits the vlog.
PartsFit == \A c \in calls : c.kind = "append" => c.parts # <<>> /\ c.at + Len(c.parts) <= MaxLength

\* The calls of every fanout fit (CallsInv).
LEMMA CallsFit ==
    ASSUME CallsInv
    PROVE  PartsFit
  BY DEF CallsInv, PartsFit

\* The next part of an append is a call.
LEMMA NextPartFacts ==
    ASSUME TypeOK, PartsFit, NEW c \in calls, c.kind = "append", Len(c.parts) > 1
    PROVE  /\ NextPart(c) \in ClientCalls
           /\ NextPart(c).owner = c.owner /\ NextPart(c).gen = c.gen /\ NextPart(c).rep = c.rep
           /\ NextPart(c).kind = c.kind /\ NextPart(c).at = c.at + 1 /\ NextPart(c).parts = Tail(c.parts)
           /\ Tail(c.parts) # <<>> /\ Len(Tail(c.parts)) = Len(c.parts) - 1
           /\ c.at + 1 + Len(Tail(c.parts)) <= MaxLength
<1>1. /\ c \in ClientCalls /\ c.at \in Nat /\ c.parts \in Contents
  BY CallFacts
<1>2. c.parts # <<>> /\ c.at + Len(c.parts) <= MaxLength
  BY DEF PartsFit
<1>3. Tail(c.parts) \in Contents /\ Len(Tail(c.parts)) = Len(c.parts) - 1 /\ Tail(c.parts) # <<>> /\ Len(c.parts) \in Nat
  BY <1>1, <1>2, PartsFacts, ContentFacts
<1>4. c.at + 1 \in 0 .. MaxLength
  BY <1>1, <1>2, <1>3, Bounds
<1> DEFINE at == c.at + 1  parts == Tail(c.parts)
<1>5. at \in 0 .. MaxLength /\ parts \in Contents
  BY <1>3, <1>4
<1>6. NextPart(c) = [c EXCEPT !.at = at, !.parts = parts]
  BY DEF NextPart
<1> HIDE DEF at, parts
<1>7. /\ [c EXCEPT !.at = at, !.parts = parts] \in ClientCalls
      /\ [c EXCEPT !.at = at, !.parts = parts].owner = c.owner
      /\ [c EXCEPT !.at = at, !.parts = parts].gen = c.gen
      /\ [c EXCEPT !.at = at, !.parts = parts].rep = c.rep
      /\ [c EXCEPT !.at = at, !.parts = parts].kind = c.kind
      /\ [c EXCEPT !.at = at, !.parts = parts].at = at
      /\ [c EXCEPT !.at = at, !.parts = parts].parts = parts
  BY <1>1, <1>5 DEF ClientCalls
<1> DEFINE d == NextPart(c)
<1>8. /\ d \in ClientCalls /\ d.owner = c.owner /\ d.gen = c.gen /\ d.rep = c.rep /\ d.kind = c.kind
      /\ d.at = at /\ d.parts = parts
  BY <1>6, <1>7, Zenon
<1>9. at + Len(parts) <= MaxLength /\ at = c.at + 1 /\ parts = Tail(c.parts)
  BY <1>1, <1>2, <1>3 DEF at, parts
<1> HIDE DEF d
<1>10. c.at + 1 + Len(Tail(c.parts)) <= MaxLength
  BY <1>9
<1> QED BY <1>3, <1>8, <1>9, <1>10, Zenon DEF d

\* Types (fanoutQuorumEligible).
LEMMA LandingTypes ==
    ASSUME TypeOK, PartsFit, NEW c \in calls, Landing(c)
    PROVE  TypeOK'
<1>1. ASSUME NEW d \in calls' PROVE d \in ClientCalls /\ d.gen \in {0} \cup DOMAIN mounts
  <2>1. CASE d \in calls
    BY <2>1 DEF TypeOK
  <2>2. CASE c.kind = "append" /\ Len(c.parts) > 1 /\ d = NextPart(c)
    BY <2>2, NextPartFacts, CallFacts
  <2> QED BY <2>1, <2>2 DEF Landing
<1> QED BY <1>1 DEF Landing, TypeOK, moveVars

\* An answer is counted for a copy that is complete and live.
LEMMA LandingLocks ==
    ASSUME TypeOK, LocksInv, CallsInv, NEW c \in calls, Landing(c)
    PROVE  LocksInv'
<1>1. Mounted' = Mounted /\ Len(mounts') = Len(mounts)
  BY DEF Landing, Mounted
<1>2. ASSUME NEW o \in Actors, Busy(o), NEW r \in op'[o].ok PROVE r \in Mounted.complete \cap Mounted.live
  <2>1. CASE r \in op[o].ok
    BY <1>2, <2>1 DEF LocksInv
  <2>2. CASE o = c.owner /\ r = c.rep /\ Reachable(c)
    <3>1. c.owner # Stray /\ c.gen = op[o].gen /\ c.rep \in Mounted.complete
      BY <2>2, CallFacts DEF CallsInv
    <3>2. op[o].gen = Len(mounts)
      BY <1>2, Bounds DEF LocksInv, Actors, Busy
    <3> QED BY <2>2, <3>1, <3>2 DEF Reachable, Mounted
  <2> QED BY <1>2, <2>1, <2>2 DEF Landing
<1>3. \A o \in Actors : Busy(o)' <=> Busy(o)
  BY DEF Landing, Busy
<1>4. UNCHANGED <<lock, recorded, target>>
  BY DEF Landing, moveVars
<1>5. \A o \in Actors : op'[o].pc = op[o].pc /\ op'[o].gen = op[o].gen /\ op'[o].offset = op[o].offset
  BY DEF Landing
<1>6. ASSUME NEW o \in Actors, op[o].pc \in {"idle", "resolved"} PROVE op'[o].ok = {}
  <2>1. op[o].ok = {} /\ ~Busy(o)
    BY <1>6 DEF LocksInv, Busy
  <2>2. c.owner # o
    BY <2>1, CallFacts DEF CallsInv
  <2> QED BY <2>1, <2>2 DEF Landing
<1> QED BY <1>1, <1>2, <1>3, <1>4, <1>5, <1>6, Bounds DEF LocksInv

\* A call's progress stays when copies grow (EnsureAppend never overwrites).
LEMMA ProgressGrows ==
    ASSUME NEW d, NEW s \in Contents, NEW t \in Contents, NEW off \in Nat, NEW data \in Contents,
           d.parts \in Contents, d.at \in Nat,
           Len(t) >= Len(s), \A i \in 1 .. Len(s) : t[i] = s[i],
           Progress(d, s, off, data)
    PROVE  Progress(d, t, off, data)
<1>1. Len(s) \in Nat /\ Len(t) \in Nat /\ Len(data) \in Nat /\ Len(d.parts) \in Nat
  BY ContentFacts
<1>2. Len(d.parts) < Len(data) => Len(t) >= d.at
  BY <1>1 DEF Progress
<1>3. ASSUME NEW i \in 1 .. Len(data) - Len(d.parts) PROVE t[off + i] = data[i]
  <2>1. Len(d.parts) < Len(data)
    BY <1>1, <1>3
  <2>2. d.at = off + Len(data) - Len(d.parts) /\ Len(s) >= d.at /\ s[off + i] = data[i]
    BY <1>3, <2>1 DEF Progress
  <2>3. off + i \in 1 .. Len(s)
    BY <1>1, <1>3, <2>1, <2>2
  <2> QED BY <2>2, <2>3
<1> QED BY <1>2, <1>3 DEF Progress

\* Answers keep what calls and fanouts have established (EnsureAppend).
LEMMA LandingCalls ==
    ASSUME TypeOK, LocksInv, CallsInv, NEW c \in calls, Landing(c)
    PROVE  CallsInv'
<1>1. Mounted' = Mounted
  BY DEF Landing, Mounted
<1>2. /\ \A o \in Actors : Busy(o)' <=> Busy(o)
      /\ \A o \in Actors : /\ op'[o].pc = op[o].pc /\ op'[o].gen = op[o].gen
                           /\ op'[o].offset = op[o].offset /\ op'[o].data = op[o].data
  BY DEF Landing, Busy
<1>3. \A r \in Replicas : /\ disk[r] \in Contents /\ disk'[r] \in Contents
                          /\ Len(disk'[r]) >= Len(disk[r]) /\ \A i \in 1 .. Len(disk[r]) : disk'[r][i] = disk[r][i]
                          /\ Len(disk[r]) \in Nat /\ Len(disk'[r]) \in Nat
  BY ContentFacts DEF Landing, Grown, TypeOK
<1>4. ASSUME NEW d \in calls, d.owner \in Writers
      PROVE  Progress(d, disk'[d.rep], op[d.owner].offset, op[d.owner].data)
  <2>1. Progress(d, disk[d.rep], op[d.owner].offset, op[d.owner].data)
    BY <1>4 DEF CallsInv
  <2>2. d.rep \in Replicas /\ op[d.owner].data \in Contents /\ op[d.owner].offset \in Nat /\ d.parts \in Contents /\ d.at \in Nat
    BY <1>4, CallFacts, OpFacts, Bounds
  <2>3. Len(op[d.owner].data) \in Nat /\ Len(d.parts) \in Nat
    BY <2>2, ContentFacts
  <2> QED BY <1>3, <2>1, <2>2, ProgressGrows
<1>5. ASSUME c.kind = "append", Len(c.parts) > 1, Landed(c), c.owner \in Writers
      PROVE  Progress(NextPart(c), disk'[c.rep], op[c.owner].offset, op[c.owner].data)
  <2> DEFINE off == op[c.owner].offset  data == op[c.owner].data  t == disk'[c.rep]  d == NextPart(c)
  <2>1. Progress(c, t, off, data)
    BY <1>4, <1>5
  <2>2. /\ c.parts \in Contents /\ c.at \in Nat /\ data \in Contents /\ off \in Nat /\ c.rep \in Replicas
    BY <1>5, CallFacts, OpFacts, Bounds
  <2>3. /\ d.at = c.at + 1 /\ d.parts = Tail(c.parts) /\ Tail(c.parts) # <<>> /\ Len(Tail(c.parts)) = Len(c.parts) - 1
    BY <1>5, CallsFit, NextPartFacts
  <2>11. Len(d.parts) = Len(c.parts) - 1 /\ d.parts # <<>>
    BY <2>3, Zenon
  <2>4. Len(c.parts) \in Nat /\ Len(data) \in Nat /\ Len(t) \in Nat
    BY <1>3, <2>2, ContentFacts
  <2>5. /\ Head(c.parts) = c.parts[1] /\ \A i \in 1 .. Len(c.parts) - 1 : Tail(c.parts)[i] = c.parts[i + 1]
    <3>1. c.parts # <<>>
      BY <1>5 DEF CallsInv
    <3> QED BY <2>2, <3>1, PartsFacts
  <2>6. Len(t) >= c.at + 1 /\ t[c.at + 1] = c.parts[1]
    BY <1>5, <2>5 DEF Landed
  <2> HIDE DEF off, data, t, d
  <2>7. /\ d.parts # <<>> /\ Len(d.parts) <= Len(data) /\ d.at = off + Len(data) - Len(d.parts)
        /\ Len(t) >= d.at
    <3>1. Len(c.parts) <= Len(data) /\ c.at = off + Len(data) - Len(c.parts)
      BY <2>1 DEF Progress
    <3>2. d.at = c.at + 1
      BY <2>3
    <3> QED BY <2>2, <2>4, <2>6, <2>11, <3>1, <3>2
  <2>8. ASSUME NEW j \in 1 .. Len(d.parts) PROVE d.parts[j] = data[Len(data) - Len(d.parts) + j]
    <3>1. j \in 1 .. Len(c.parts) - 1 /\ j + 1 \in 1 .. Len(c.parts)
      BY <2>8, <2>4, <2>11
    <3>2. d.parts[j] = c.parts[j + 1] /\ c.parts[j + 1] = data[Len(data) - Len(c.parts) + (j + 1)]
      BY <3>1, <2>1, <2>3, <2>5 DEF Progress
    <3>3. Len(data) - Len(c.parts) + (j + 1) = Len(data) - Len(d.parts) + j
      BY <2>4, <2>11, <3>1
    <3> QED BY <3>2, <3>3
  <2>9. ASSUME NEW i \in 1 .. Len(data) - Len(d.parts) PROVE t[off + i] = data[i]
    <3>1. CASE i \in 1 .. Len(data) - Len(c.parts)
      BY <3>1, <2>1 DEF Progress
    <3>2. CASE i = Len(data) - Len(c.parts) + 1
      <4>1. off + i = c.at + 1
        BY <3>2, <2>1, <2>2, <2>4 DEF Progress
      <4>2. 1 \in 1 .. Len(c.parts)
        BY <1>5, <2>4
      <4>3. c.parts[1] = data[Len(data) - Len(c.parts) + 1]
        BY <2>1, <4>2 DEF Progress
      <4> QED BY <3>2, <4>1, <4>3, <2>6
    <3> QED BY <2>9, <2>4, <2>11, <3>1, <3>2
  <2>10. Progress(d, t, off, data)
    BY <2>7, <2>8, <2>9 DEF Progress
  <2> QED BY <2>10 DEF off, data, t, d
<1>6. ASSUME NEW d \in calls'
      PROVE  /\ d.owner = Stray => d.gen = 0
             /\ d.kind = "append" => d.parts # <<>> /\ d.at + Len(d.parts) <= MaxLength
             /\ d.owner # Stray =>
                  /\ Busy(d.owner)' /\ d.gen = op'[d.owner].gen /\ d.rep \in Mounted.complete
                  /\ d.kind = IF d.owner = Committer THEN "commit" ELSE "append"
             /\ d.owner \in Writers => Progress(d, disk'[d.rep], op'[d.owner].offset, op'[d.owner].data)
  <2>1. CASE d \in calls
    <3>1. d.owner # Stray => d.owner \in Actors
      BY <2>1, CallFacts
    <3>2. d.owner \in Writers => d.owner \in Actors
      BY Bounds
    <3> QED BY <2>1, <1>2, <1>4, <3>1, <3>2 DEF CallsInv
  <2>2. CASE c.kind = "append" /\ Len(c.parts) > 1 /\ d = NextPart(c) /\ Landed(c)
    <3>1. /\ d.owner = c.owner /\ d.gen = c.gen /\ d.rep = c.rep /\ d.kind = c.kind /\ d.at = c.at + 1
          /\ d.parts = Tail(c.parts) /\ Tail(c.parts) # <<>> /\ c.at + 1 + Len(Tail(c.parts)) <= MaxLength
      BY <2>2, CallsFit, NextPartFacts
    <3>2. c.owner # Stray => c.owner \in Actors
      BY CallFacts
    <3>3. c.owner \in Writers => c.owner \in Actors
      BY Bounds
    <3>4. c.owner \in Writers => Progress(d, disk'[c.rep], op[c.owner].offset, op[c.owner].data)
      BY <2>2, <1>5
    <3>5. c.owner # Stray =>
            /\ Busy(c.owner) /\ c.gen = op[c.owner].gen /\ c.rep \in Mounted.complete
            /\ c.kind = IF c.owner = Committer THEN "commit" ELSE "append"
      BY DEF CallsInv
    <3>6. c.owner = Stray => c.gen = 0
      BY DEF CallsInv
    <3> QED BY <1>2, <3>1, <3>2, <3>3, <3>4, <3>5, <3>6
  <2> QED BY <1>6, <2>1, <2>2 DEF Landing
<1>7. ASSUME NEW w \in Writers, Busy(w), NEW r \in op'[w].ok
      PROVE  Carries(disk'[r], op[w].offset, op[w].data)
  <2> DEFINE off == op[w].offset  data == op[w].data  s == disk[r]  t == disk'[r]
  <2>1. w \in Actors /\ off \in Nat /\ data \in Contents /\ op'[w].ok \subseteq Replicas
    BY Bounds, OpFacts DEF Landing, Operations
  <2>2. Len(data) \in Nat /\ r \in Replicas
    BY <1>7, <2>1, ContentFacts
  <2>3. /\ Len(t) >= Len(s) /\ \A i \in 1 .. Len(s) : t[i] = s[i] /\ Len(s) \in Nat /\ Len(t) \in Nat
    BY <1>3, <2>2
  <2>4. CASE r \in op[w].ok
    <3>1. Carries(s, off, data)
      BY <1>7, <2>4 DEF CallsInv
    <3> HIDE DEF off, data, s, t
    <3>2. Carries(t, off, data)
      BY <2>1, <2>2, <2>3, <3>1 DEF Carries
    <3> QED BY <3>2 DEF off, data, t
  <2>5. CASE w = c.owner /\ r = c.rep /\ (c.kind = "append" => Len(c.parts) = 1 /\ Landed(c))
    <3>1. c.owner # Stray /\ w # Committer
      BY <2>5, <1>7, Bounds
    <3>2. c.kind = "append"
      BY <2>5, <3>1 DEF CallsInv
    <3>3. Progress(c, t, off, data)
      BY <1>4, <1>7, <2>5
    <3>4. c.parts \in Contents /\ c.at \in Nat /\ c.parts # <<>>
      BY <3>2, CallFacts DEF CallsInv
    <3>5. Head(c.parts) = c.parts[1]
      BY <3>4, PartsFacts
    <3>6. Len(t) >= c.at + 1 /\ t[c.at + 1] = c.parts[1] /\ Len(c.parts) = 1
      BY <2>5, <3>2, <3>5 DEF Landed
    <3> HIDE DEF off, data, s, t
    <3>7. c.at + 1 = off + Len(data) /\ c.parts[1] = data[Len(data)] /\ Len(data) >= 1
      BY <2>1, <2>2, <3>3, <3>4, <3>6 DEF Progress
    <3>8. ASSUME NEW i \in 1 .. Len(data) PROVE t[off + i] = data[i]
      <4>1. CASE i = Len(data)
        BY <4>1, <3>6, <3>7
      <4>2. CASE i \in 1 .. Len(data) - Len(c.parts)
        BY <4>2, <3>3 DEF Progress
      <4> QED BY <3>8, <4>1, <4>2, <3>6, <2>2
    <3>9. Carries(t, off, data)
      BY <2>1, <2>2, <2>3, <3>6, <3>7, <3>8 DEF Carries
    <3> QED BY <3>9 DEF off, data, t
  <2> QED BY <1>7, <2>1, <2>4, <2>5 DEF Landing
<1>8. \A w \in Writers : Busy(w)' => Busy(w) /\ op'[w].offset = op[w].offset /\ op'[w].data = op[w].data
  BY <1>2, Bounds
<1> QED BY <1>1, <1>6, <1>7, <1>8 DEF CallsInv

\* Copies that hold the recorded prefix and keep it are a quorum still.
LEMMA SoundKept ==
    ASSUME Cardinality(Sound) >= writeQuorum,
           \A r \in Sound : Holds(durable'[r], stream', recorded') /\ Holds(disk'[r], stream', recorded')
    PROVE  Cardinality(Sound') >= writeQuorum
<1>1. Sound \subseteq Sound' /\ Sound \in SUBSET Replicas /\ Sound' \in SUBSET Replicas
  BY DEF Sound
<1>2. Cardinality(Sound) <= Cardinality(Sound')
  BY <1>1, ReplicasFinite
<1>3. Cardinality(Sound) \in Nat /\ Cardinality(Sound') \in Nat /\ writeQuorum \in Nat
  BY <1>1, ReplicasFinite
<1> QED BY <1>2, <1>3

\* Answers keep the copies equal.
LEMMA LandingCopies ==
    ASSUME TypeOK, LocksInv, CallsInv, CopiesInv, NEW c \in calls, Landing(c), LocksInv'
    PROVE  CopiesInv'
<1>1. /\ Mounted' = Mounted /\ UNCHANGED <<open, lock, moving, todo, target, recorded, stream>>
  BY DEF Landing, Mounted, moveVars
<1>2. \A r \in Replicas : /\ disk[r] \in Contents /\ disk'[r] \in Contents
                          /\ Len(disk'[r]) >= Len(disk[r]) /\ \A i \in 1 .. Len(disk[r]) : disk'[r][i] = disk[r][i]
  BY DEF Landing, Grown, TypeOK
<1>3. ASSUME NEW r \in Replicas, NEW n \in Nat, Holds(disk[r], stream, n) PROVE Holds(disk'[r], stream, n)
  BY <1>2, <1>3, HoldsGrows
<1>4. Mounted.length \in Nat /\ Mounted.live \subseteq Replicas /\ recorded \in Nat /\ open \subseteq Replicas
  BY MountedFacts, Bounds DEF TypeOK
<1>5. \A r \in Replicas : durable'[r] \in {durable[r], disk[r]}
  BY DEF Landing
<1>6. Cardinality(Sound') >= writeQuorum
  <2>1. \A r \in Sound : r \in Replicas /\ Holds(durable[r], stream, recorded) /\ Holds(disk[r], stream, recorded)
    BY DEF Sound
  <2>2. \A r \in Sound : Holds(durable'[r], stream', recorded') /\ Holds(disk'[r], stream', recorded')
    BY <1>1, <1>3, <1>4, <1>5, <2>1
  <2> QED BY <2>2, SoundKept DEF CopiesInv
<1>7. /\ op'[Committer].pc = op[Committer].pc /\ op'[Committer].offset = op[Committer].offset
      /\ op[Committer].ok \subseteq op'[Committer].ok /\ op'[Committer].ok \subseteq Replicas
      /\ op[Committer].offset \in Nat
  BY Bounds, OpFacts DEF Landing, Operations
<1>8. ASSUME NEW r \in op'[Committer].ok
      PROVE  Holds(durable'[r], stream, op[Committer].offset) /\ Holds(disk'[r], stream, op[Committer].offset)
  <2>1. r \in Replicas
    BY <1>7, <1>8
  <2>2. CASE r \in op[Committer].ok
    <3>1. Holds(durable[r], stream, op[Committer].offset) /\ Holds(disk[r], stream, op[Committer].offset)
      BY <2>2 DEF CopiesInv
    <3> QED BY <1>3, <1>5, <1>7, <2>1, <3>1
  <2>3. CASE Committer = c.owner /\ (c.kind = "commit" => durable'[r] = disk[r])
    <3>1. Busy(Committer) /\ c.kind = "commit"
      BY <2>3, Bounds, CallFacts DEF CallsInv
    <3>2. Busy(Committer)' /\ op[Committer].offset = Mounted.length
      BY <3>1, <1>7, Bounds DEF Busy, LocksInv
    <3>3. r \in Mounted.complete \cap Mounted.live
      BY <1>1, <1>8, <3>2, Bounds DEF LocksInv
    <3>4. Holds(disk[r], stream, Mounted.length)
      BY <3>3 DEF CopiesInv
    <3> QED BY <1>3, <1>4, <2>1, <2>3, <3>1, <3>2, <3>4
  <2> QED BY <1>8, <2>2, <2>3, Bounds DEF Landing
<1>9. op[Committer].pc = "record" => Succeeded(Committer)'
  <2>1. SUFFICES ASSUME op[Committer].pc = "record" PROVE Succeeded(Committer)'
    OBVIOUS
  <2>2. Cardinality(op[Committer].ok) >= writeQuorum
    BY <2>1 DEF CopiesInv, Succeeded
  <2>3. Cardinality(op[Committer].ok) <= Cardinality(op'[Committer].ok)
    BY <1>7, ReplicasFinite
  <2>4. Cardinality(op[Committer].ok) \in Nat /\ Cardinality(op'[Committer].ok) \in Nat /\ writeQuorum \in Nat
    BY <1>7, ReplicasFinite
  <2> QED BY <2>2, <2>3, <2>4 DEF Succeeded
<1>10. \A r \in Mounted.complete \cap Mounted.live : Holds(disk'[r], stream, Mounted.length)
  BY <1>3, <1>4 DEF CopiesInv
<1>11. lock = "return" => \A r \in open \ todo : Holds(disk'[r], stream, Mounted.length)
  BY <1>3, <1>4 DEF CopiesInv
<1>12. lock = "offline" => \A r \in (open \ moving) \ todo : Holds(disk'[r], stream, Mounted.length)
  BY <1>3, <1>4 DEF CopiesInv
<1> QED BY <1>1, <1>6, <1>7, <1>8, <1>9, <1>10, <1>11, <1>12 DEF CopiesInv

\* Counting one answer (fanoutQuorumEligible).
LEMMA AnswerFacts ==
    ASSUME TypeOK, NEW c \in calls, NEW field \in {"ok", "bad"}, Answer(c, field)
    PROVE  /\ op' \in [Actors -> Operations] /\ calls' = calls \ {c}
           /\ \A o \in Actors : /\ op'[o].pc = op[o].pc /\ op'[o].gen = op[o].gen
                                /\ op'[o].offset = op[o].offset /\ op'[o].data = op[o].data
                                /\ op[o].ok \subseteq op'[o].ok
           /\ \A o \in Actors : \A r \in op'[o].ok : r \in op[o].ok \/ (field = "ok" /\ o = c.owner /\ r = c.rep)
<1>1. op \in [Actors -> Operations] /\ calls' = calls \ {c} /\ c.rep \in Replicas
  BY CallFacts DEF TypeOK, Answer
<1>2. CASE op' = op
  BY <1>1, <1>2
<1>3. CASE c.owner \in Actors /\ field = "ok" /\ op' = [op EXCEPT ![c.owner].ok = @ \cup {c.rep}]
  <2> DEFINE new == [op[c.owner] EXCEPT !.ok = @ \cup {c.rep}]
  <2>1. op[c.owner] \in Operations
    BY <1>1, <1>3
  <2>2. /\ new \in Operations /\ new.pc = op[c.owner].pc /\ new.gen = op[c.owner].gen
        /\ new.offset = op[c.owner].offset /\ new.data = op[c.owner].data /\ new.ok = op[c.owner].ok \cup {c.rep}
    BY <1>1, <2>1 DEF Operations
  <2>3. op' = [op EXCEPT ![c.owner] = new]
    BY <1>3
  <2> HIDE DEF new
  <2> QED BY <1>1, <1>3, <2>2, <2>3
<1>4. CASE c.owner \in Actors /\ op' = [op EXCEPT ![c.owner].bad = @ \cup {c.rep}]
  <2> DEFINE new == [op[c.owner] EXCEPT !.bad = @ \cup {c.rep}]
  <2>1. op[c.owner] \in Operations
    BY <1>1, <1>4
  <2>2. /\ new \in Operations /\ new.pc = op[c.owner].pc /\ new.gen = op[c.owner].gen
        /\ new.offset = op[c.owner].offset /\ new.data = op[c.owner].data /\ new.ok = op[c.owner].ok
    BY <1>1, <2>1 DEF Operations
  <2>3. op' = [op EXCEPT ![c.owner] = new]
    BY <1>4
  <2> HIDE DEF new
  <2> QED BY <1>1, <1>4, <2>2, <2>3
<1>5. c.owner = Stray \/ c.owner \in Actors
  BY CallFacts
<1> QED BY <1>2, <1>3, <1>4, <1>5 DEF Answer

\* EnsureAppend, Commit and their errors are answers.
LEMMA AnswersLand ==
    ASSUME TypeOK, PartsFit, NEW c \in calls, AppendLands(c) \/ CommitLands(c) \/ CallRefused(c) \/ CallFails(c)
    PROVE  Landing(c)
<1> USE DEF copyVars, boundVars
<1>1. /\ c.rep \in Replicas /\ c.parts \in Contents /\ c.at \in Nat
      /\ disk \in [Replicas -> Contents] /\ durable \in [Replicas -> Contents] /\ op \in [Actors -> Operations]
      /\ {requests, faults, moves, restarts} \subseteq Nat
  BY CallFacts DEF TypeOK
<1>2. \A r \in Replicas : Grown(disk[r], disk[r])
  BY <1>1, ContentFacts DEF Grown
<1>3. CASE AppendLands(c)
  <2>1. /\ c.kind = "append" /\ Reachable(c) /\ Fits(disk[c.rep], c.at, Head(c.parts))
        /\ disk' = [disk EXCEPT ![c.rep] = Extended(disk[c.rep], c.at, Head(c.parts))]
        /\ Len(c.parts) = 1 => Answer(c, "ok")
        /\ Len(c.parts) # 1 => calls' = (calls \ {c}) \cup {NextPart(c)} /\ op' = op
        /\ UNCHANGED <<durable, open, failed, mounts, moveVars, recorded, stream, boundVars>>
    BY <1>3 DEF AppendLands, NextPart
  <2>2. c.parts # <<>> /\ c.at + Len(c.parts) <= MaxLength
    BY <2>1 DEF PartsFit
  <2>3. Head(c.parts) \in Values /\ Len(c.parts) > 0 /\ Len(c.parts) \in Nat
    BY <1>1, <2>2, PartsFacts, ContentFacts
  <2> DEFINE new == Extended(disk[c.rep], c.at, Head(c.parts))
  <2>4. /\ new \in Contents /\ Grown(disk[c.rep], new) /\ Len(new) >= c.at + 1 /\ new[c.at + 1] = Head(c.parts)
    <3>1. c.at < MaxLength /\ disk[c.rep] \in Contents
      BY <1>1, <2>2, <2>3, Bounds
    <3>2. c.at \in Nat /\ Fits(disk[c.rep], c.at, Head(c.parts))
      BY <1>1, <2>1
    <3> QED BY <2>3, <3>1, <3>2, ExtendedFacts DEF Grown
  <2>5. disk' = [disk EXCEPT ![c.rep] = new]
    BY <2>1
  <2> HIDE DEF new
  <2>6. /\ disk' \in [Replicas -> Contents] /\ \A r \in Replicas : Grown(disk[r], disk'[r])
        /\ Landed(c)
    BY <1>1, <1>2, <2>4, <2>5 DEF Landed
  <2>9. /\ durable' \in [Replicas -> Contents] /\ \A r \in Replicas : durable'[r] \in {durable[r], disk[r]}
        /\ {requests', faults', moves', restarts'} \subseteq Nat
    BY <1>1, <2>1
  <2>10. UNCHANGED <<open, failed, mounts, moveVars, recorded, stream>>
    BY <2>1
  <2>7. CASE Len(c.parts) = 1
    <3>1. Answer(c, "ok")
      BY <2>1, <2>7
    <3>2. /\ op' \in [Actors -> Operations] /\ calls' = calls \ {c}
          /\ \A o \in Actors : /\ op'[o].pc = op[o].pc /\ op'[o].gen = op[o].gen
                               /\ op'[o].offset = op[o].offset /\ op'[o].data = op[o].data
                               /\ op[o].ok \subseteq op'[o].ok
          /\ \A o \in Actors : \A r \in op'[o].ok : r \in op[o].ok \/ (o = c.owner /\ r = c.rep)
      BY <3>1, AnswerFacts
    <3>3. \A d \in calls' : d \in calls
      BY <3>2, Zenon
    <3>4. c.kind # "commit" /\ Reachable(c)
      BY <2>1
    <3> QED BY <2>6, <2>7, <2>9, <2>10, <3>2, <3>3, <3>4, Zenon DEF Landing
  <2>8. CASE Len(c.parts) # 1
    <3>1. Len(c.parts) > 1
      <4> DEFINE n == Len(c.parts)
      <4>1. n > 0 /\ n \in Nat /\ n # 1
        BY <2>3, <2>8, Zenon
      <4> HIDE DEF n
      <4>2. n > 1
        BY <4>1
      <4> QED BY <4>2 DEF n
    <3>2. \A d \in calls' : d \in calls \/ d = NextPart(c)
      BY <2>1, <2>8, Zenon
    <3>3. op' = op /\ c.kind = "append"
      BY <2>1, <2>8, Zenon
    <3>4. /\ op' \in [Actors -> Operations]
          /\ \A o \in Actors : op'[o].ok = op[o].ok
          /\ \A o \in Actors : /\ op'[o].pc = op[o].pc /\ op'[o].gen = op[o].gen
                               /\ op'[o].offset = op[o].offset /\ op'[o].data = op[o].data
                               /\ op[o].ok \subseteq op'[o].ok
      BY <1>1, <3>3, Zenon
    <3> QED BY <2>6, <2>9, <2>10, <3>1, <3>2, <3>3, <3>4, Zenon DEF Landing
  <2> QED BY <2>7, <2>8
<1>4. CASE CommitLands(c)
  <2>1. /\ c.kind = "commit" /\ Reachable(c) /\ durable' = [durable EXCEPT ![c.rep] = disk[c.rep]] /\ Answer(c, "ok")
        /\ UNCHANGED <<disk, open, failed, mounts, moveVars, recorded, stream, boundVars>>
    BY <1>4 DEF CommitLands
  <2>2. durable' \in [Replicas -> Contents] /\ durable'[c.rep] = disk[c.rep] /\ \A r \in Replicas : durable'[r] \in {durable[r], disk[r]}
    BY <1>1, <2>1
  <2>3. disk' \in [Replicas -> Contents] /\ {requests', faults', moves', restarts'} \subseteq Nat /\ \A r \in Replicas : Grown(disk[r], disk'[r])
    BY <1>1, <1>2, <2>1
  <2>4. c.kind # "append"
    BY <2>1
  <2>6. /\ op' \in [Actors -> Operations] /\ calls' = calls \ {c}
        /\ \A o \in Actors : /\ op'[o].pc = op[o].pc /\ op'[o].gen = op[o].gen
                             /\ op'[o].offset = op[o].offset /\ op'[o].data = op[o].data
                             /\ op[o].ok \subseteq op'[o].ok
        /\ \A o \in Actors : \A r \in op'[o].ok : r \in op[o].ok \/ (o = c.owner /\ r = c.rep)
    BY <2>1, AnswerFacts
  <2>7. UNCHANGED <<open, failed, mounts, moveVars, recorded, stream>>
    BY <2>1
  <2>5. \A d \in calls' : d \in calls
    BY <2>6, Zenon
  <2>8. Reachable(c)
    BY <2>1
  <2> QED BY <2>2, <2>3, <2>4, <2>5, <2>6, <2>7, <2>8 DEF Landing
<1>5. CASE CallRefused(c)
  <2>1. /\ Answer(c, "bad") /\ UNCHANGED <<disk, durable, open, failed, mounts, moveVars, recorded, stream, boundVars>>
    BY <1>5 DEF CallRefused
  <2>2. /\ disk' \in [Replicas -> Contents] /\ {requests', faults', moves', restarts'} \subseteq Nat
        /\ durable' \in [Replicas -> Contents] /\ \A r \in Replicas : durable'[r] \in {durable[r], disk[r]}
        /\ \A r \in Replicas : Grown(disk[r], disk'[r])
    BY <1>1, <1>2, <2>1
  <2>4. /\ op' \in [Actors -> Operations] /\ calls' = calls \ {c}
        /\ \A o \in Actors : /\ op'[o].pc = op[o].pc /\ op'[o].gen = op[o].gen
                             /\ op'[o].offset = op[o].offset /\ op'[o].data = op[o].data
                             /\ op[o].ok \subseteq op'[o].ok
        /\ \A o \in Actors : \A r \in op'[o].ok : r \in op[o].ok
    BY <2>1, AnswerFacts
  <2>5. UNCHANGED <<open, failed, mounts, moveVars, recorded, stream>>
    BY <2>1
  <2>3. \A d \in calls' : d \in calls
    BY <2>4, Zenon
  <2> QED BY <2>2, <2>3, <2>4, <2>5 DEF Landing
<1>6. CASE CallFails(c)
  <2>1. /\ Answer(c, "bad") /\ UNCHANGED <<disk, open, failed, mounts, moveVars, recorded, stream>>
        /\ durable' = durable \/ durable' = [durable EXCEPT ![c.rep] = disk[c.rep]]
    BY <1>6 DEF CallFails
  <2>2. durable' \in [Replicas -> Contents] /\ \A r \in Replicas : durable'[r] \in {durable[r], disk[r]}
    BY <1>1, <2>1
  <2>3. {requests', faults', moves', restarts'} \subseteq Nat
    BY <1>1, <1>6 DEF CallFails, Fault
  <2>4. disk' \in [Replicas -> Contents] /\ \A r \in Replicas : Grown(disk[r], disk'[r])
    BY <1>1, <1>2, <2>1
  <2>6. /\ op' \in [Actors -> Operations] /\ calls' = calls \ {c}
        /\ \A o \in Actors : /\ op'[o].pc = op[o].pc /\ op'[o].gen = op[o].gen
                             /\ op'[o].offset = op[o].offset /\ op'[o].data = op[o].data
                             /\ op[o].ok \subseteq op'[o].ok
        /\ \A o \in Actors : \A r \in op'[o].ok : r \in op[o].ok
    BY <2>1, AnswerFacts
  <2>7. UNCHANGED <<open, failed, mounts, moveVars, recorded, stream>>
    BY <2>1
  <2>5. \A d \in calls' : d \in calls
    BY <2>6, Zenon
  <2> QED BY <2>2, <2>3, <2>4, <2>5, <2>6, <2>7 DEF Landing
<1> QED BY <1>3, <1>4, <1>5, <1>6

\* Answers preserve the invariant (fanoutQuorumEligible).
LEMMA AnswersSound ==
    ASSUME MirrorInv, NEW c \in calls, AppendLands(c) \/ CommitLands(c) \/ CallRefused(c) \/ CallFails(c)
    PROVE  MirrorInv'
<1>1. TypeOK /\ LocksInv /\ CallsInv /\ AcknowledgedIsMounted
  BY DEF MirrorInv
<1>2. Landing(c)
  BY <1>1, CallsFit, AnswersLand
<1>3. TypeOK' /\ LocksInv' /\ CallsInv'
  BY <1>1, <1>2, CallsFit, LandingTypes, LandingLocks, LandingCalls
<1>4. AcknowledgedIsMounted'
  BY <1>1, <1>2 DEF Landing, AcknowledgedIsMounted, Mounted
<1>5. CopiesInv => CopiesInv'
  BY <1>1, <1>2, <1>3, LandingCopies
<1> QED BY <1>3, <1>4, <1>5 DEF MirrorInv, OneMayLag

-----------------------------------------------------------------------------
(* Steps of appends and commits.                                           *)

\* The fanouts and their calls are the same (a step that is no fanout's).
SameFanouts ==
    /\ UNCHANGED <<calls, disk, mounts>>
    /\ \A o \in Actors : Busy(o)' <=> Busy(o)
    /\ \A o \in Actors : Busy(o) => op'[o] = op[o]

\* Then so is what is known of them.
LEMMA SameFanoutsCalls ==
    ASSUME TypeOK, CallsInv, SameFanouts
    PROVE  CallsInv'
<1>1. Mounted' = Mounted /\ calls' = calls /\ disk' = disk
  BY DEF SameFanouts, Mounted
<1>2. ASSUME NEW c \in calls, c.owner # Stray
      PROVE  c.owner \in Actors /\ Busy(c.owner) /\ Busy(c.owner)' /\ op'[c.owner] = op[c.owner]
  BY <1>2, CallFacts DEF CallsInv, SameFanouts
<1>3. \A w \in Writers : Busy(w)' => Busy(w) /\ op'[w] = op[w]
  BY Bounds DEF SameFanouts
<1>4. \A c \in calls : c.owner \in Writers => c.owner # Stray
  BY Bounds
<1> QED BY <1>1, <1>2, <1>3, <1>4, Zenon DEF CallsInv

\* No fanout is left: every call that still runs is nobody's.
Strays ==
    /\ \A c \in calls' : c \in ClientCalls /\ c.owner = Stray /\ c.gen = 0
    /\ \A c \in calls' : c.kind = "append" => c.parts # <<>> /\ c.at + Len(c.parts) <= MaxLength
    /\ \A o \in Actors : ~Busy(o)'

\* Then nothing else need be known of them.
LEMMA StraysCalls ==
    ASSUME Strays
    PROVE  CallsInv'
  BY Bounds DEF Strays, CallsInv

\* A fanout that returns leaves its calls to nobody (fanoutQuorumEligible).
LEMMA AbandonedStrays ==
    ASSUME TypeOK, LocksInv, CallsInv, NEW o \in Actors, Busy(o), NEW c \in Abandoned(o)
    PROVE  /\ c \in ClientCalls /\ c.owner = Stray /\ c.gen = 0
           /\ c.kind = "append" => c.parts # <<>> /\ c.at + Len(c.parts) <= MaxLength
<1>1. \A d \in calls : d.owner # Stray => d.owner = o
  BY CallFacts DEF CallsInv, LocksInv
<1>2. CASE c \in calls /\ c.owner # o
  BY <1>1, <1>2, CallFacts DEF CallsInv
<1>3. ASSUME NEW d \in calls, c = [d EXCEPT !.owner = Stray, !.gen = 0] PROVE
          /\ c \in ClientCalls /\ c.owner = Stray /\ c.gen = 0
          /\ c.kind = "append" => c.parts # <<>> /\ c.at + Len(c.parts) <= MaxLength
  <2>1. d \in ClientCalls
    BY CallFacts
  <2>2. /\ c \in ClientCalls /\ c.owner = Stray /\ c.gen = 0
        /\ c.kind = d.kind /\ c.parts = d.parts /\ c.at = d.at
    BY <1>3, <2>1 DEF ClientCalls
  <2> QED BY <2>2 DEF CallsInv
<1> QED BY <1>2, <1>3 DEF Abandoned

\* Nobody is at work after the only fanout has ended.
LEMMA OnlyFanoutEnds ==
    ASSUME TypeOK, LocksInv, NEW o \in Actors, Busy(o), NEW new, new.pc # "fanout", op' = [op EXCEPT ![o] = new]
    PROVE  \A p \in Actors : ~Busy(p)'
<1>1. op \in [Actors -> Operations]
  BY DEF TypeOK
<1>2. \A p \in Actors : p # o => ~Busy(p)
  BY DEF LocksInv
<1> QED BY <1>1, <1>2 DEF Busy

\* An idle actor is an actor.
LEMMA IdleFacts ==
    /\ Idle \in Operations /\ Idle.pc = "idle" /\ Idle.gen = 1 /\ Idle.ok = {} /\ Idle.offset = 0
<1>1. <<>> \in Contents /\ 0 \in 0 .. MaxLength
  BY EmptyContent, Bounds
<1> QED BY <1>1 DEF Idle, Operations

\* The first object is one.
LEMMA FirstGen ==
    ASSUME TypeOK
    PROVE  1 \in DOMAIN mounts
  BY MountedFacts

\* An RPC resolves the mounted vlog.
LEMMA ResolveSound ==
    ASSUME MirrorInv, NEW w \in Writers, Resolve(w)
    PROVE  MirrorInv'
<1> DEFINE new == [Idle EXCEPT !.pc = "resolved", !.gen = Len(mounts)]
<1>1. TypeOK /\ LocksInv /\ CallsInv /\ AcknowledgedIsMounted
  BY DEF MirrorInv
<1>2. /\ lock = "free" /\ op[w].pc = "idle" /\ op' = [op EXCEPT ![w] = new]
      /\ UNCHANGED <<disk, durable, open, failed, mounts, calls, lock, moving, todo, target, recorded, stream>>
      /\ {requests', faults', moves', restarts'} \subseteq Nat
  BY <1>1 DEF Resolve, Request, copyVars, moveVars, TypeOK
<1>3. Len(mounts) \in Nat \ {0} /\ Len(mounts) \in DOMAIN mounts
  BY <1>1, MountedFacts
<1>4. new \in Operations /\ new.pc = "resolved" /\ new.gen = Len(mounts) /\ new.ok = {}
  BY <1>3, IdleFacts DEF Operations
<1> HIDE DEF new
<1>5. op \in [Actors -> Operations] /\ w \in Actors /\ w # Committer
  BY <1>1, Bounds DEF TypeOK
<1>6. TypeOK'
  BY <1>1, <1>2, <1>3, <1>4, <1>5 DEF TypeOK
<1>7. SameFanouts
  BY <1>2, <1>4, <1>5 DEF SameFanouts, Busy
<1>8. CallsInv'
  BY <1>1, <1>7, SameFanoutsCalls
<1>9. Mounted' = Mounted /\ op'[Committer] = op[Committer]
  BY <1>2, <1>5, Bounds DEF Mounted
<1>10. LocksInv'
  <2>1. \A o \in Actors : o # w => op'[o] = op[o]
    BY <1>2, <1>5
  <2>2. op'[w] = new
    BY <1>2, <1>5
  <2> QED BY <1>1, <1>2, <1>4, <1>5, <1>9, <2>1, <2>2, Bounds DEF LocksInv, Busy
<1>11. CopiesInv => CopiesInv'
  BY <1>2, <1>9 DEF CopiesInv, Sound, Succeeded
<1> QED BY <1>1, <1>2, <1>6, <1>8, <1>9, <1>10, <1>11 DEF MirrorInv, AcknowledgedIsMounted, OneMayLag

\* One actor's entry changes.
LEMMA OneOp ==
    ASSUME TypeOK, NEW o \in Actors, NEW new \in Operations, op' = [op EXCEPT ![o] = new]
    PROVE  op' \in [Actors -> Operations] /\ op'[o] = new /\ \A p \in Actors : p # o => op'[p] = op[p]
<1>1. op \in [Actors -> Operations]
  BY DEF TypeOK
<1> QED BY <1>1

\* The copies do not depend on the writers.
LEMMA WriterCopies ==
    ASSUME CopiesInv, UNCHANGED <<disk, durable, open, mounts, lock, moving, todo, recorded, stream>>,
           op'[Committer] = op[Committer]
    PROVE  CopiesInv'
<1>1. Mounted' = Mounted /\ Sound' = Sound
  BY DEF Mounted, Sound
<1>2. Succeeded(Committer)' = Succeeded(Committer)
  BY DEF Succeeded
<1> QED BY <1>1, <1>2 DEF CopiesInv

\* An append that fails or is refused (writeWithin).
LEMMA WriteEndsSound ==
    ASSUME MirrorInv, NEW w \in Writers, WriteFails(w) \/ WriteTooLong(w)
    PROVE  MirrorInv'
<1>1. TypeOK /\ LocksInv /\ CallsInv /\ AcknowledgedIsMounted
  BY DEF MirrorInv
<1>2. /\ op' = [op EXCEPT ![w] = Idle]
      /\ UNCHANGED <<disk, durable, open, failed, mounts, lock, moving, todo, target, recorded, stream, requests, faults, moves, restarts>>
      /\ (Busy(w) /\ calls' = Abandoned(w)) \/ (op[w].pc = "resolved" /\ calls' = calls)
  BY DEF WriteFails, WriteTooLong, Busy, copyVars, moveVars, boundVars
<1>3. w \in Actors /\ w # Committer /\ Committer \in Actors
  BY Bounds
<1>4. op' \in [Actors -> Operations] /\ op'[w] = Idle /\ \A p \in Actors : p # w => op'[p] = op[p]
  BY <1>1, <1>2, <1>3, IdleFacts, OneOp
<1>5. Mounted' = Mounted /\ op'[Committer] = op[Committer]
  BY <1>2, <1>3, <1>4 DEF Mounted
<1>8. CallsInv' /\ calls' \subseteq ClientCalls /\ \A c \in calls' : c.gen \in {0} \cup DOMAIN mounts
  <2>1. CASE Busy(w) /\ calls' = Abandoned(w)
    <3>1. \A p \in Actors : ~Busy(p)'
      BY <1>1, <1>2, <1>3, <2>1, IdleFacts, OnlyFanoutEnds
    <3>2. Strays
      BY <1>1, <1>3, <2>1, <3>1, AbandonedStrays DEF Strays
    <3>3. calls' \subseteq ClientCalls /\ \A c \in calls' : c.gen = 0
      BY <3>2 DEF Strays
    <3> QED BY <3>2, <3>3, StraysCalls
  <2>2. CASE op[w].pc = "resolved" /\ calls' = calls
    <3>1. SameFanouts
      BY <1>2, <1>3, <1>4, <2>2, IdleFacts DEF SameFanouts, Busy
    <3>2. CallsInv'
      BY <1>1, <3>1, SameFanoutsCalls
    <3> QED BY <1>1, <2>2, <3>2 DEF TypeOK
  <2> QED BY <1>2, <2>1, <2>2
<1>9. TypeOK'
  <2>1. \A o \in Actors : op'[o].gen \in DOMAIN mounts
    BY <1>1, <1>4, IdleFacts, FirstGen DEF TypeOK
  <2> QED BY <1>1, <1>2, <1>4, <1>8, <2>1 DEF TypeOK
<1>10. LocksInv'
  BY <1>1, <1>2, <1>3, <1>4, <1>5, IdleFacts DEF LocksInv, Busy
<1>11. CopiesInv => CopiesInv'
  BY <1>2, <1>5, WriterCopies
<1> QED BY <1>1, <1>2, <1>5, <1>8, <1>9, <1>10, <1>11 DEF MirrorInv, AcknowledgedIsMounted, OneMayLag

\* The data of an append is a content that is not empty.
LEMMA DataFacts ==
    ASSUME NEW data \in Data, Len(data) <= MaxLength
    PROVE  data \in Contents /\ data # <<>> /\ Len(data) \in Nat
<1>1. PICK n \in 1 .. MaxParts : data \in [1 .. n -> Values]
  BY DEF Data
<1>2. n \in Nat /\ n # 0
  BY <1>1, Bounds
<1>3. data \in Seq(Values) /\ Len(data) = n
  BY <1>1, <1>2, FunctionIsSequence
<1>4. data # <<>>
  BY <1>2, <1>3, EmptyContent, Zenon
<1>5. data \in Contents
  BY <1>3, ContentsSeq, Zenon
<1> QED BY <1>2, <1>3, <1>4, <1>5

\* While nobody holds writeMu every call is nobody's.
LEMMA QuietCalls ==
    ASSUME TypeOK, LocksInv, CallsInv, WriteMuFree(Len(mounts))
    PROVE  (\A o \in Actors : ~Busy(o)) /\ \A c \in calls : c.owner = Stray /\ c.gen = 0
<1>1. \A o \in Actors : ~Busy(o)
  <2>1. \A o \in Actors : o \in Writers \/ o = Committer
    BY DEF Actors
  <2> QED BY <2>1 DEF WriteMuFree, LocksInv, Busy
<1>2. \A c \in calls : c.owner = Stray
  BY <1>1, CallFacts DEF CallsInv
<1> QED BY <1>1, <1>2 DEF CallsInv

\* The calls of a fanout (fanoutQuorumEligible).
LEMMA CallsFacts ==
    ASSUME TypeOK, NEW o \in Actors, NEW kind \in {"append", "commit"}, NEW at \in 0 .. MaxLength,
           NEW data \in Contents, NEW c \in Calls(o, Len(mounts), kind, at, data)
    PROVE  /\ c \in ClientCalls /\ c.owner = o /\ c.gen = Len(mounts) /\ c.rep \in Mounted.complete
           /\ c.kind = kind /\ c.at = at /\ c.parts = data
<1>1. Mounted.complete \subseteq Replicas /\ Len(mounts) \in Nat
  BY MountedFacts
<1>2. PICK r \in Mounted.complete :
         c = [owner |-> o, gen |-> Len(mounts), rep |-> r, kind |-> kind, at |-> at, parts |-> data]
  BY DEF Calls, Eligible, Mounted
<1> DEFINE g == Len(mounts)
<1>3. c = [owner |-> o, gen |-> g, rep |-> r, kind |-> kind, at |-> at, parts |-> data] /\ g \in Nat /\ r \in Replicas
  BY <1>1, <1>2
<1> HIDE DEF g
<1>4. /\ c \in ClientCalls /\ c.owner = o /\ c.gen = g /\ c.rep = r /\ c.kind = kind /\ c.at = at /\ c.parts = data
  BY <1>3 DEF ClientCalls
<1> QED BY <1>2, <1>4, Zenon DEF g

\* An append locks the object and calls its copies (writeMirrors).
LEMMA BeginWriteSound ==
    ASSUME MirrorInv, NEW w \in Writers, NEW data \in Data, BeginWrite(w, data)
    PROVE  MirrorInv'
<1> DEFINE at == Mounted.length
           new == [op[w] EXCEPT !.pc = "fanout", !.offset = at, !.data = data]
<1>1. TypeOK /\ LocksInv /\ CallsInv /\ AcknowledgedIsMounted
  BY DEF MirrorInv
<1>2. w \in Actors /\ w # Committer /\ Committer \in Actors /\ w # Stray
  BY Bounds
<1>3. op[w].pc = "resolved" /\ op[w].gen = Len(mounts) /\ op[w].ok = {} /\ op[w] \in Operations
  BY <1>1, <1>2, OpFacts DEF BeginWrite, LocksInv
<1>4. /\ WriteMuFree(Len(mounts)) /\ at + Len(data) <= MaxLength
      /\ op' = [op EXCEPT ![w] = new]
      /\ calls' = calls \cup Calls(w, Len(mounts), "append", at, data)
      /\ UNCHANGED <<disk, durable, open, failed, mounts, lock, moving, todo, target, recorded, stream, requests, faults, moves, restarts>>
  BY <1>3 DEF BeginWrite, Mounted, copyVars, moveVars, boundVars
<1>5. at \in Nat /\ at \in 0 .. MaxLength
  BY <1>1, MountedFacts
<1>6. data \in Contents /\ data # <<>> /\ Len(data) \in Nat
  <2>1. Len(data) <= MaxLength
    <3>1. PICK n \in 1 .. MaxParts : data \in [1 .. n -> Values]
      BY DEF Data
    <3>2. Len(data) = n /\ n \in Nat
      BY <3>1, Bounds, FunctionIsSequence
    <3> QED BY <1>4, <1>5, <3>2, Bounds
  <2> QED BY <2>1, DataFacts
<1>7. /\ new \in Operations /\ new.pc = "fanout" /\ new.offset = at /\ new.data = data
      /\ new.gen = Len(mounts) /\ new.ok = {}
  BY <1>3, <1>5, <1>6 DEF Operations
<1> HIDE DEF new
<1>8. op' \in [Actors -> Operations] /\ op'[w] = new /\ \A p \in Actors : p # w => op'[p] = op[p]
  BY <1>1, <1>2, <1>4, <1>7, OneOp
<1>9. Mounted' = Mounted /\ op'[Committer] = op[Committer]
  BY <1>2, <1>4, <1>8 DEF Mounted
<1>10. (\A o \in Actors : ~Busy(o)) /\ \A c \in calls : c.owner = Stray /\ c.gen = 0
  BY <1>1, <1>4, QuietCalls
<1>11. \A o \in Actors : Busy(o)' <=> o = w
  BY <1>7, <1>8, <1>10 DEF Busy
<1>12. ASSUME NEW c \in Calls(w, Len(mounts), "append", at, data)
       PROVE  /\ c \in ClientCalls /\ c.owner = w /\ c.gen = Len(mounts) /\ c.rep \in Mounted.complete
              /\ c.kind = "append" /\ c.at = at /\ c.parts = data
  BY <1>1, <1>2, <1>5, <1>6, <1>12, CallsFacts
<1>13. TypeOK'
  <2>1. \A o \in Actors : op'[o].gen \in DOMAIN mounts
    BY <1>1, <1>7, <1>8, MountedFacts DEF TypeOK
  <2>2. calls' \subseteq ClientCalls /\ \A c \in calls' : c.gen \in {0} \cup DOMAIN mounts
    BY <1>1, <1>4, <1>12, MountedFacts DEF TypeOK
  <2> QED BY <1>1, <1>4, <1>8, <2>1, <2>2 DEF TypeOK
<1>14. LocksInv'
  BY <1>1, <1>2, <1>3, <1>4, <1>7, <1>8, <1>9, <1>11 DEF LocksInv
<1>15. CallsInv'
  <2>1. ASSUME NEW c \in calls' PROVE (c \in calls /\ c.owner = Stray /\ c.gen = 0) \/ c \in Calls(w, Len(mounts), "append", at, data)
    BY <1>4, <1>10, <2>1
  <2>2. ASSUME NEW c \in Calls(w, Len(mounts), "append", at, data)
        PROVE  Progress(c, disk[c.rep], at, data)
    <3>1. c.at = at /\ c.parts = data
      BY <1>12, <2>2
    <3>2. at + Len(data) - Len(data) = at /\ Len(data) <= Len(data) /\ ~(Len(data) < Len(data))
          /\ Len(data) - Len(data) = 0
      BY <1>5, <1>6
    <3>3. \A j \in 1 .. Len(data) : Len(data) - Len(data) + j = j
      BY <1>6
    <3> QED BY <1>6, <3>1, <3>2, <3>3 DEF Progress
  <2>3. \A c \in calls' : c.owner = Stray => c.gen = 0
    BY <1>2, <1>12, <2>1
  <2>4. \A c \in calls' : c.kind = "append" => c.parts # <<>> /\ c.at + Len(c.parts) <= MaxLength
    BY <1>1, <1>4, <1>6, <1>12, <2>1 DEF CallsInv
  <2>5. \A c \in calls' : c.owner # Stray =>
          /\ Busy(c.owner)' /\ c.gen = op'[c.owner].gen /\ c.rep \in Mounted'.complete
          /\ c.kind = IF c.owner = Committer THEN "commit" ELSE "append"
    BY <1>2, <1>7, <1>8, <1>9, <1>11, <1>12, <2>1
  <2>6. \A c \in calls' : c.owner \in Writers =>
          Progress(c, disk'[c.rep], op'[c.owner].offset, op'[c.owner].data)
    BY <1>4, <1>7, <1>8, <1>12, <2>1, <2>2, Bounds
  <2>7. \A o \in Writers : Busy(o)' => /\ \A r \in op'[o].ok : Carries(disk'[r], op'[o].offset, op'[o].data)
                                       /\ op'[o].offset + Len(op'[o].data) <= MaxLength
    BY <1>4, <1>7, <1>8, <1>11, Bounds
  <2> QED BY <2>3, <2>4, <2>5, <2>6, <2>7 DEF CallsInv
<1>16. CopiesInv => CopiesInv'
  BY <1>4, <1>9, WriterCopies
<1> QED BY <1>1, <1>4, <1>9, <1>13, <1>14, <1>15, <1>16 DEF MirrorInv, AcknowledgedIsMounted, OneMayLag

\* A copy that has the acknowledged units and the new ones has them all.
LEMMA HoldsAppended ==
    ASSUME NEW s \in Contents, NEW acked \in Contents, NEW data \in Contents, Len(acked) + Len(data) <= MaxLength,
           Holds(s, acked, Len(acked)), Carries(s, Len(acked), data)
    PROVE  Holds(s, acked \o data, Len(acked) + Len(data))
<1>1. Len(s) \in Nat /\ Len(acked) \in Nat /\ Len(data) \in Nat
  BY ContentFacts
<1>2. /\ \A i \in 1 .. Len(acked) : (acked \o data)[i] = acked[i]
      /\ \A i \in 1 .. Len(data) : (acked \o data)[Len(acked) + i] = data[i]
  BY ConcatFacts
<1>3. Len(s) >= Len(acked) + Len(data)
  BY DEF Carries
<1>4. ASSUME NEW i \in 1 .. Len(acked) + Len(data) PROVE s[i] = (acked \o data)[i]
  <2>1. CASE i <= Len(acked)
    BY <1>1, <1>2, <2>1 DEF Holds
  <2>2. CASE i > Len(acked)
    <3> DEFINE j == i - Len(acked)
    <3>1. j \in 1 .. Len(data) /\ i = Len(acked) + j
      BY <1>1, <2>2
    <3> HIDE DEF j
    <3>2. s[Len(acked) + j] = data[j]
      BY <3>1 DEF Carries
    <3> QED BY <1>2, <3>1, <3>2
  <2> QED BY <1>1, <2>1, <2>2
<1> QED BY <1>3, <1>4 DEF Holds

\* What was acknowledged stays acknowledged.
LEMMA HoldsMore ==
    ASSUME NEW s, NEW acked \in Contents, NEW data \in Contents, Len(acked) + Len(data) <= MaxLength,
           NEW n \in Nat, n <= Len(acked), Holds(s, acked, n)
    PROVE  Holds(s, acked \o data, n)
<1>1. \A i \in 1 .. Len(acked) : (acked \o data)[i] = acked[i]
  BY ConcatFacts
<1>2. Len(acked) \in Nat
  BY ContentFacts
<1>3. 1 .. n \subseteq 1 .. Len(acked)
  BY <1>2
<1> QED BY <1>1, <1>3 DEF Holds

\* A prefix of a content.
LEMMA PrefixFacts ==
    ASSUME NEW s \in Contents, NEW n \in Nat, n <= Len(s)
    PROVE  Slice(s, 0, n) \in Contents /\ Len(Slice(s, 0, n)) = n /\ \A i \in 1 .. n : Slice(s, 0, n)[i] = s[i]
<1> DEFINE z == 0
<1>5. z \in Nat
  OBVIOUS
<1> HIDE DEF z
<1> DEFINE t == Slice(s, z, n)
<1>6. /\ t \in Contents /\ Len(t) = IF z <= n THEN n - z ELSE 0
      /\ \A i \in 1 .. n - z : t[i] = s[z + i]
  BY <1>5, SliceFacts
<1> HIDE DEF t
<1>1. /\ t \in Contents /\ Len(t) = IF 0 <= n THEN n - 0 ELSE 0
      /\ \A i \in 1 .. n - 0 : t[i] = s[0 + i]
  BY <1>6 DEF z
<1>2. Len(t) = n /\ n - 0 = n /\ \A i \in 1 .. n : 0 + i = i
  BY <1>1
<1>3. \A i \in 1 .. n : t[i] = s[i]
  BY <1>1, <1>2
<1> QED BY <1>1, <1>2, <1>3 DEF t, z

\* A prefix of a content that is all of it.
LEMMA WholeSlice ==
    ASSUME NEW s \in Contents
    PROVE  SubSeq(s, 1, Len(s)) = s /\ Slice(s, 0, Len(s)) = s
<1> DEFINE n == Len(s)  t == Slice(s, 0, n)
<1>1. n \in Nat /\ n <= Len(s)
  BY ContentFacts
<1>2. t \in Contents /\ Len(t) = n /\ \A i \in 1 .. n : t[i] = s[i]
  BY <1>1, PrefixFacts
<1>3. t = s
  <2> HIDE DEF t
  <2> QED BY <1>2, ContentsEqual
<1>4. t = SubSeq(s, 0 + 1, n) /\ 0 + 1 = 1
  BY DEF Slice
<1> QED BY <1>3, <1>4

\* A fanout that returns, whatever its result (fanoutQuorumEligible).
LEMMA FanoutEnds ==
    ASSUME TypeOK, LocksInv, CallsInv, NEW o \in Actors, Busy(o), NEW new \in Operations, new.pc # "fanout",
           op' = [op EXCEPT ![o] = new], calls' = Abandoned(o)
    PROVE  /\ CallsInv' /\ calls' \subseteq ClientCalls /\ \A c \in calls' : c.gen = 0
           /\ \A p \in Actors : ~Busy(p)'
<1>1. \A p \in Actors : ~Busy(p)'
  BY OnlyFanoutEnds
<1>2. Strays
  BY <1>1, AbandonedStrays DEF Strays
<1> QED BY <1>1, <1>2, StraysCalls DEF Strays

\* The mounted object changes in place.
LEMMA MountedChanges ==
    ASSUME TypeOK, NEW new \in Objects, mounts' = [mounts EXCEPT ![Len(mounts)] = new]
    PROVE  /\ mounts' \in Seq(Objects) /\ mounts' # <<>> /\ Len(mounts') = Len(mounts)
           /\ DOMAIN mounts' = DOMAIN mounts /\ Mounted' = new
<1>1. mounts \in Seq(Objects) /\ Len(mounts) \in Nat /\ Len(mounts) > 0 /\ DOMAIN mounts = 1 .. Len(mounts)
  BY MountedFacts DEF TypeOK
<1>2. Len(mounts) \in 1 .. Len(mounts)
  BY <1>1
<1>3. mounts' \in Seq(Objects) /\ Len(mounts') = Len(mounts)
  BY <1>1, <1>2, ExceptSeq
<1>4. mounts'[Len(mounts)] = new /\ DOMAIN mounts' = DOMAIN mounts
  BY <1>1, <1>2
<1>5. mounts' # <<>>
  BY <1>1, <1>3, EmptySeq
<1> QED BY <1>3, <1>4, <1>5 DEF Mounted

\* An append that reaches its quorum (writeMirrors).
LEMMA WriteSucceedsSound ==
    ASSUME MirrorInv, NEW w \in Writers, WriteSucceeds(w)
    PROVE  MirrorInv'
<1> DEFINE data == op[w].data
           n == Mounted.length
           new == [Mounted EXCEPT !.complete = op[w].ok, !.length = n + Len(data)]
<1>1. TypeOK /\ LocksInv /\ CallsInv /\ AcknowledgedIsMounted
  BY DEF MirrorInv
<1>2. w \in Actors /\ w # Committer /\ Committer \in Actors
  BY Bounds
<1>3. /\ Busy(w) /\ op[w].gen = Len(mounts) /\ op[w].offset = n /\ op[w].ok \subseteq Mounted.complete \cap Mounted.live
      /\ lock \in {"free", "commit"} /\ n + Len(data) <= MaxLength
  BY <1>1, <1>2 DEF WriteSucceeds, LocksInv, CallsInv, Busy
<1>4. /\ mounts' = [mounts EXCEPT ![Len(mounts)] = new] /\ stream' = SubSeq(stream, 1, n) \o data
      /\ op' = [op EXCEPT ![w] = Idle] /\ calls' = Abandoned(w) /\ Cardinality(op[w].ok) >= writeQuorum
      /\ UNCHANGED <<disk, durable, open, failed, lock, moving, todo, target, recorded, requests, faults, moves, restarts>>
  BY <1>3 DEF WriteSucceeds, Responders, Succeeded, Mounted, copyVars, moveVars, boundVars
<1>5. /\ data \in Contents /\ Len(data) \in Nat /\ n \in Nat /\ Mounted \in Objects
      /\ stream \in Contents /\ Len(stream) = n
  BY <1>1, <1>2, OpFacts, ContentFacts, MountedFacts DEF TypeOK, AcknowledgedIsMounted
<1>6. stream' = stream \o data
  BY <1>4, <1>5, WholeSlice
<1>7. stream' \in Contents /\ Len(stream') = n + Len(data)
  <2> DEFINE t == stream \o data
  <2>1. Len(stream) + Len(data) <= MaxLength
    BY <1>3, <1>5
  <2>2. t \in Contents /\ Len(t) = Len(stream) + Len(data)
    BY <1>5, <2>1, ConcatFacts
  <2> HIDE DEF t
  <2>3. stream' = t
    BY <1>6 DEF t
  <2> QED BY <1>5, <2>2, <2>3, Zenon
<1>8. new \in Objects /\ new.length = n + Len(data) /\ new.complete = op[w].ok /\ new.live = Mounted.live
  <2> DEFINE m == n + Len(data)
  <2>1. m \in 0 .. MaxLength /\ op[w].ok \in SUBSET Replicas /\ new = [Mounted EXCEPT !.complete = op[w].ok, !.length = m]
    BY <1>1, <1>2, <1>3, <1>5, OpFacts
  <2> HIDE DEF m
  <2>2. /\ [Mounted EXCEPT !.complete = op[w].ok, !.length = m] \in Objects
        /\ [Mounted EXCEPT !.complete = op[w].ok, !.length = m].length = m
        /\ [Mounted EXCEPT !.complete = op[w].ok, !.length = m].complete = op[w].ok
        /\ [Mounted EXCEPT !.complete = op[w].ok, !.length = m].live = Mounted.live
    BY <1>5, <2>1 DEF Objects
  <2>3. new \in Objects /\ new.length = m /\ new.complete = op[w].ok /\ new.live = Mounted.live
    BY <2>1, <2>2, Zenon
  <2> QED BY <2>3 DEF m
<1> HIDE DEF new
<1>9. /\ mounts' \in Seq(Objects) /\ mounts' # <<>> /\ Len(mounts') = Len(mounts) /\ DOMAIN mounts' = DOMAIN mounts /\ Mounted' = new
  BY <1>1, <1>4, <1>8, MountedChanges
<1>10. op' \in [Actors -> Operations] /\ op'[w] = Idle /\ \A p \in Actors : p # w => op'[p] = op[p]
  BY <1>1, <1>2, <1>4, IdleFacts, OneOp
<1>11. /\ CallsInv' /\ calls' \subseteq ClientCalls /\ \A c \in calls' : c.gen = 0
       /\ \A p \in Actors : ~Busy(p)'
  BY <1>1, <1>2, <1>3, <1>4, IdleFacts, FanoutEnds
<1>12. TypeOK'
  <2>1. \A o \in Actors : op'[o].gen \in DOMAIN mounts
    BY <1>1, <1>10, IdleFacts, FirstGen DEF TypeOK
  <2> QED BY <1>1, <1>4, <1>7, <1>9, <1>10, <1>11, <2>1 DEF TypeOK
<1>13. AcknowledgedIsMounted'
  BY <1>7, <1>8, <1>9 DEF AcknowledgedIsMounted
<1>14. n <= new.length /\ op'[Committer] = op[Committer] /\ op[Committer].offset \in Nat /\ recorded \in Nat
  BY <1>1, <1>2, <1>5, <1>8, <1>10, OpFacts, Bounds DEF TypeOK
<1>15. LocksInv'
  <2>1. op[Committer].pc = "record" => op[Committer].offset <= new.length
    BY <1>1, <1>5, <1>8, <1>14 DEF LocksInv
  <2>2. recorded <= new.length
    BY <1>1, <1>5, <1>8, <1>14 DEF LocksInv
  <2>3. lock \notin {"offline", "return"}
    BY <1>3
  <2>4. \A o \in Actors : op'[o].pc \in {"idle", "resolved"} => op'[o].ok = {}
    BY <1>1, <1>10, IdleFacts DEF LocksInv
  <2>5. \A v \in Writers : op'[v].pc # "record" /\ (op'[v].pc # "idle" => op'[v].gen = Len(mounts) /\ lock \in {"free", "commit"})
    BY <1>1, <1>2, <1>10, IdleFacts, Bounds DEF LocksInv
  <2>6. /\ op[Committer].pc # "resolved" /\ (op[Committer].pc # "idle" <=> lock = "commit")
        /\ op[Committer].pc # "idle" => op[Committer].gen = Len(mounts)
    BY <1>1 DEF LocksInv
  <2> QED BY <1>4, <1>9, <1>11, <1>14, <2>1, <2>2, <2>3, <2>4, <2>5, <2>6 DEF LocksInv
<1>16. ASSUME OneMayLag, CopiesInv PROVE CopiesInv'
  <2>1. \A r \in Replicas : disk[r] \in Contents /\ durable[r] \in Contents
    BY <1>1 DEF TypeOK
  <2>2. \A s, k : k \in Nat /\ k <= n /\ Holds(s, stream, k) => Holds(s, stream', k)
    BY <1>3, <1>5, <1>6, HoldsMore
  <2>3. ASSUME NEW r \in op[w].ok PROVE Holds(disk[r], stream', n + Len(data))
    <3>1. r \in Replicas /\ Holds(disk[r], stream, n) /\ Carries(disk[r], n, data)
      BY <1>1, <1>2, <1>3, <1>16, <2>3, OpFacts DEF CopiesInv, CallsInv
    <3> QED BY <1>3, <1>5, <1>6, <2>1, <3>1, HoldsAppended
  <2>4. \A r \in Mounted'.complete \cap Mounted'.live : Holds(disk'[r], stream', Mounted'.length)
    BY <1>4, <1>8, <1>9, <2>3
  <2>5. Mounted'.live # Replicas => Mounted'.live \subseteq Mounted'.complete
    <3> SUFFICES ASSUME Mounted.live # Replicas PROVE Mounted.live \subseteq op[w].ok
      BY <1>8, <1>9
    <3>1. Mounted.live \subseteq Replicas /\ op[w].ok \subseteq Mounted.live
      BY <1>1, <1>3, MountedFacts
    <3> DEFINE L == Mounted.live  O == op[w].ok
    <3>2. /\ IsFiniteSet(L) /\ Cardinality(L) \in Nat /\ Cardinality(O) \in Nat /\ Cardinality(Replicas) \in Nat
          /\ Cardinality(L) <= Cardinality(Replicas) /\ Cardinality(L) # Cardinality(Replicas)
          /\ Cardinality(O) <= Cardinality(L) /\ writeQuorum \in Nat
      BY <3>1, ReplicasFinite
    <3>3. Cardinality(O) >= Cardinality(Replicas) - 1
      BY <1>4, <1>16, <3>2 DEF OneMayLag
    <3>4. Cardinality(O) = Cardinality(L)
      <4> HIDE DEF L, O
      <4> QED BY <3>2, <3>3
    <3> QED BY <3>1, <3>2, <3>4, FS_Subset
  <2>6. Mounted'.live \subseteq open' /\ Mounted'.live = open'
    BY <1>3, <1>4, <1>8, <1>9, <1>16 DEF CopiesInv
  <2>7. Cardinality(Sound') >= writeQuorum
    <3>1. \A r \in Sound : r \in Replicas /\ Holds(durable[r], stream, recorded) /\ Holds(disk[r], stream, recorded)
      BY DEF Sound
    <3>2. recorded \in Nat /\ recorded <= n
      BY <1>1, <1>14 DEF LocksInv
    <3>3. \A r \in Sound : Holds(durable'[r], stream', recorded') /\ Holds(disk'[r], stream', recorded')
      BY <1>4, <2>2, <3>1, <3>2
    <3> QED BY <1>16, <3>3, SoundKept DEF CopiesInv
  <2>8. \A r \in op[Committer].ok : Holds(durable[r], stream', op[Committer].offset) /\ Holds(disk[r], stream', op[Committer].offset)
    <3>1. CASE op[Committer].pc = "record"
      <4>1. op[Committer].offset <= n
        BY <1>1, <3>1 DEF LocksInv
      <4> QED BY <1>14, <1>16, <2>2, <4>1 DEF CopiesInv
    <3>2. CASE op[Committer].pc # "record"
      <4>1. op[Committer].pc \in {"idle", "resolved"}
        BY <1>1, <1>2, <1>3, <3>2, OpFacts DEF LocksInv, Busy
      <4> QED BY <1>1, <1>2, <4>1 DEF LocksInv
    <3> QED BY <3>1, <3>2
  <2>9. op[Committer].pc = "record" => Succeeded(Committer)'
    BY <1>14, <1>16 DEF CopiesInv, Succeeded
  <2> QED BY <1>3, <1>4, <1>14, <2>4, <2>5, <2>6, <2>7, <2>8, <2>9 DEF CopiesInv
<1> QED BY <1>11, <1>12, <1>13, <1>15, <1>16 DEF MirrorInv, OneMayLag

\* CommitVlog takes vlogMu and commits every complete copy.
LEMMA BeginCommitSound ==
    ASSUME MirrorInv, BeginCommit
    PROVE  MirrorInv'
<1> DEFINE at == Mounted.length
           new == [Idle EXCEPT !.pc = "fanout", !.gen = Len(mounts), !.offset = at]
           more == Calls(Committer, Len(mounts), "commit", 0, <<>>)
<1>1. TypeOK /\ LocksInv /\ CallsInv /\ AcknowledgedIsMounted
  BY DEF MirrorInv
<1>2. Committer \in Actors /\ Committer # Stray /\ Committer \notin Writers /\ Writers \subseteq Actors
  BY Bounds
<1>3. /\ lock = "free" /\ WriteMuFree(Len(mounts)) /\ lock' = "commit"
      /\ op' = [op EXCEPT ![Committer] = new] /\ calls' = calls \cup more
      /\ UNCHANGED <<disk, durable, open, failed, mounts, moving, todo, target, recorded, stream>>
      /\ {requests', faults', moves', restarts'} \subseteq Nat
  BY <1>1 DEF BeginCommit, Request, copyVars, TypeOK
<1>4. Len(mounts) \in Nat \ {0} /\ Len(mounts) \in DOMAIN mounts /\ at \in 0 .. MaxLength
  BY <1>1, MountedFacts
<1>5. /\ new \in Operations /\ new.pc = "fanout" /\ new.offset = at /\ new.gen = Len(mounts) /\ new.ok = {}
  <2> DEFINE g == Len(mounts)
  <2>1. g \in Nat \ {0} /\ new = [Idle EXCEPT !.pc = "fanout", !.gen = g, !.offset = at]
    BY <1>4
  <2> HIDE DEF g, at
  <2>2. /\ [Idle EXCEPT !.pc = "fanout", !.gen = g, !.offset = at] \in Operations
        /\ [Idle EXCEPT !.pc = "fanout", !.gen = g, !.offset = at].pc = "fanout"
        /\ [Idle EXCEPT !.pc = "fanout", !.gen = g, !.offset = at].offset = at
        /\ [Idle EXCEPT !.pc = "fanout", !.gen = g, !.offset = at].gen = g
        /\ [Idle EXCEPT !.pc = "fanout", !.gen = g, !.offset = at].ok = {}
    BY <1>4, <2>1, IdleFacts DEF Operations
  <2>3. new \in Operations /\ new.pc = "fanout" /\ new.offset = at /\ new.gen = g /\ new.ok = {}
    BY <2>1, <2>2, Zenon
  <2> QED BY <2>3 DEF g
<1> HIDE DEF new
<1>6. op' \in [Actors -> Operations] /\ op'[Committer] = new /\ \A p \in Actors : p # Committer => op'[p] = op[p]
  BY <1>1, <1>2, <1>3, <1>5, OneOp
<1>7. Mounted' = Mounted
  BY <1>3 DEF Mounted
<1>8. (\A o \in Actors : ~Busy(o)) /\ \A c \in calls : c.owner = Stray /\ c.gen = 0
  BY <1>1, <1>3, QuietCalls
<1>9. \A o \in Actors : Busy(o)' <=> o = Committer
  BY <1>5, <1>6, <1>8 DEF Busy
<1>10. ASSUME NEW c \in more
       PROVE  /\ c \in ClientCalls /\ c.owner = Committer /\ c.gen = Len(mounts) /\ c.rep \in Mounted.complete
              /\ c.kind = "commit"
  <2>1. <<>> \in Contents /\ 0 \in 0 .. MaxLength
    BY EmptyContent, Bounds
  <2> QED BY <1>1, <1>2, <1>10, <2>1, CallsFacts
<1> HIDE DEF more
<1>11. TypeOK'
  <2>1. \A o \in Actors : op'[o].gen \in DOMAIN mounts
    BY <1>1, <1>4, <1>5, <1>6 DEF TypeOK
  <2>2. calls' \subseteq ClientCalls /\ \A c \in calls' : c.gen \in {0} \cup DOMAIN mounts
    BY <1>1, <1>3, <1>4, <1>10 DEF TypeOK
  <2> QED BY <1>1, <1>3, <1>6, <2>1, <2>2 DEF TypeOK
<1>12. LocksInv'
  <2>1. \A v \in Writers : op'[v] = op[v]
    BY <1>2, <1>6
  <2>2. \A o \in Actors : op'[o].pc \in {"idle", "resolved"} => op'[o].ok = {}
    BY <1>1, <1>5, <1>6 DEF LocksInv
  <2>3. \A v \in Writers : op'[v].pc # "record" /\ (op'[v].pc # "idle" => op'[v].gen = Len(mounts))
    BY <1>1, <2>1 DEF LocksInv
  <2>4. recorded <= Mounted.length
    BY <1>1 DEF LocksInv
  <2> QED BY <1>3, <1>5, <1>6, <1>7, <1>9, <2>2, <2>3, <2>4 DEF LocksInv
<1>13. CallsInv'
  <2>1. \A c \in calls' : (c \in calls /\ c.owner = Stray /\ c.gen = 0) \/ c \in more
    BY <1>3, <1>8
  <2>2. \A c \in calls' : c.owner = Stray => c.gen = 0
    BY <1>2, <1>10, <2>1
  <2>3. \A c \in calls' : c.kind = "append" => c.parts # <<>> /\ c.at + Len(c.parts) <= MaxLength
    BY <1>1, <1>10, <2>1 DEF CallsInv
  <2>4. \A c \in calls' : c.owner # Stray =>
          /\ Busy(c.owner)' /\ c.gen = op'[c.owner].gen /\ c.rep \in Mounted'.complete
          /\ c.kind = IF c.owner = Committer THEN "commit" ELSE "append"
    BY <1>2, <1>5, <1>6, <1>7, <1>9, <1>10, <2>1
  <2>5. \A c \in calls' : c.owner \notin Writers
    BY <1>2, <1>10, <2>1, Bounds
  <2>6. \A o \in Writers : ~Busy(o)'
    BY <1>2, <1>9
  <2> QED BY <2>2, <2>3, <2>4, <2>5, <2>6 DEF CallsInv
<1>14. CopiesInv => CopiesInv'
  BY <1>3, <1>5, <1>6, <1>7 DEF CopiesInv, Sound
<1> QED BY <1>1, <1>3, <1>7, <1>11, <1>12, <1>13, <1>14 DEF MirrorInv, AcknowledgedIsMounted, OneMayLag

\* CommitPrefix returns.
LEMMA CommitPrefixSound ==
    ASSUME MirrorInv, CommitPrefix
    PROVE  MirrorInv'
<1> DEFINE new == IF Succeeded(Committer) THEN [op[Committer] EXCEPT !.pc = "record"] ELSE Idle
<1>1. TypeOK /\ LocksInv /\ CallsInv /\ AcknowledgedIsMounted
  BY DEF MirrorInv
<1>2. Committer \in Actors /\ Committer \notin Writers /\ Writers \subseteq Actors
  BY Bounds
<1>3. /\ Busy(Committer) /\ op' = [op EXCEPT ![Committer] = new] /\ calls' = Abandoned(Committer)
      /\ lock' = IF Succeeded(Committer) THEN lock ELSE "free"
      /\ UNCHANGED <<disk, durable, open, failed, mounts, moving, todo, target, recorded, stream, requests, faults, moves, restarts>>
  BY DEF CommitPrefix, Busy, copyVars, boundVars
<1>4. /\ lock = "commit" /\ op[Committer].gen = Len(mounts) /\ op[Committer].offset = Mounted.length
      /\ op[Committer] \in Operations
  BY <1>1, <1>2, <1>3, OpFacts DEF LocksInv, Busy
<1>5. /\ new \in Operations /\ new.pc # "fanout"
      /\ Succeeded(Committer) => new.pc = "record" /\ new.gen = Len(mounts) /\ new.offset = Mounted.length /\ new.ok = op[Committer].ok
      /\ ~Succeeded(Committer) => new = Idle
  BY <1>4, IdleFacts DEF Operations
<1> HIDE DEF new
<1>6. op' \in [Actors -> Operations] /\ op'[Committer] = new /\ \A p \in Actors : p # Committer => op'[p] = op[p]
  BY <1>1, <1>2, <1>3, <1>5, OneOp
<1>7. Mounted' = Mounted /\ Sound' = Sound
  BY <1>3 DEF Mounted, Sound
<1>8. /\ CallsInv' /\ calls' \subseteq ClientCalls /\ \A c \in calls' : c.gen = 0
      /\ \A p \in Actors : ~Busy(p)'
  BY <1>1, <1>2, <1>3, <1>5, FanoutEnds
<1>9. TypeOK'
  <2>1. \A o \in Actors : op'[o].gen \in DOMAIN mounts
    BY <1>1, <1>5, <1>6, IdleFacts, FirstGen, MountedFacts DEF TypeOK
  <2>2. lock' \in {"free", "commit"}
    BY <1>3, <1>4
  <2> QED BY <1>1, <1>3, <1>6, <1>8, <2>1, <2>2 DEF TypeOK
<1>10. LocksInv'
  <2>1. \A v \in Writers : op'[v] = op[v]
    BY <1>2, <1>6
  <2>2. \A o \in Actors : op'[o].pc \in {"idle", "resolved"} => op'[o].ok = {}
    BY <1>1, <1>5, <1>6, IdleFacts DEF LocksInv
  <2>3. \A v \in Writers : op'[v].pc # "record" /\ (op'[v].pc # "idle" => op'[v].gen = Len(mounts))
    BY <1>1, <2>1 DEF LocksInv
  <2>4. recorded <= Mounted.length /\ Mounted.length \in Nat
    BY <1>1, MountedFacts DEF LocksInv
  <2>5. lock' \in {"free", "commit"} /\ (lock' = "commit" <=> Succeeded(Committer))
    BY <1>3, <1>4
  <2>6. /\ new.pc # "resolved" /\ (new.pc # "idle" <=> Succeeded(Committer))
        /\ new.pc # "idle" => new.gen = Len(mounts) /\ new.offset = Mounted.length
    BY <1>5, IdleFacts
  <2>7. new.pc = "record" => new.offset <= Mounted.length
    BY <2>4, <2>6
  <2> QED BY <1>3, <1>6, <1>7, <1>8, <2>2, <2>3, <2>4, <2>5, <2>6, <2>7 DEF LocksInv
<1>11. ASSUME CopiesInv PROVE CopiesInv'
  <2>1. op'[Committer].pc = "record" => Succeeded(Committer)'
    BY <1>5, <1>6, IdleFacts DEF Succeeded
  <2>2. \A r \in op'[Committer].ok : Holds(durable[r], stream, op'[Committer].offset) /\ Holds(disk[r], stream, op'[Committer].offset)
    BY <1>4, <1>5, <1>6, <1>11, IdleFacts DEF CopiesInv
  <2>3. lock' \in {"free", "commit"}
    BY <1>3, <1>4
  <2> QED BY <1>3, <1>4, <1>7, <1>11, <2>1, <2>2, <2>3 DEF CopiesInv
<1> QED BY <1>1, <1>3, <1>7, <1>8, <1>9, <1>10, <1>11 DEF MirrorInv, AcknowledgedIsMounted, OneMayLag

\* SetVlogLength records what the commit covered.
LEMMA SetVlogLengthSound ==
    ASSUME MirrorInv, SetVlogLength
    PROVE  MirrorInv'
<1>1. TypeOK /\ LocksInv /\ CallsInv /\ AcknowledgedIsMounted
  BY DEF MirrorInv
<1>2. Committer \in Actors /\ Committer \notin Writers /\ Writers \subseteq Actors
  BY Bounds
<1>3. /\ op[Committer].pc = "record" /\ op' = [op EXCEPT ![Committer] = Idle] /\ lock' = "free"
      /\ recorded' = Larger(recorded, op[Committer].offset) \/ recorded' = recorded
      /\ UNCHANGED <<disk, durable, open, failed, mounts, calls, moving, todo, target, stream>>
      /\ {requests', faults', moves', restarts'} \subseteq Nat
  BY <1>1 DEF SetVlogLength, Fault, copyVars, boundVars, TypeOK
<1>4. /\ lock = "commit" /\ op[Committer].offset <= Mounted.length /\ recorded <= Mounted.length
      /\ op[Committer].offset \in Nat /\ recorded \in Nat /\ Mounted.length \in Nat /\ Mounted.length <= MaxLength
  <2>1. lock = "commit" /\ op[Committer].offset <= Mounted.length /\ recorded <= Mounted.length
    BY <1>1, <1>3 DEF LocksInv
  <2>2. op[Committer].offset \in Nat
    BY <1>1, <1>2, OpFacts
  <2>3. Mounted.length \in Nat /\ Mounted.length <= MaxLength
    BY <1>1, MountedFacts
  <2>4. recorded \in Nat
    BY <1>1, Bounds DEF TypeOK
  <2> QED BY <2>1, <2>2, <2>3, <2>4
<1>5. /\ recorded' \in Nat /\ recorded' <= Mounted.length /\ recorded' \in 0 .. MaxLength
      /\ recorded' = recorded \/ recorded' = op[Committer].offset
  BY <1>3, <1>4, Bounds DEF Larger
<1>6. op' \in [Actors -> Operations] /\ op'[Committer] = Idle /\ \A p \in Actors : p # Committer => op'[p] = op[p]
  BY <1>1, <1>2, <1>3, IdleFacts, OneOp
<1>7. Mounted' = Mounted
  BY <1>3 DEF Mounted
<1>8. SameFanouts
  BY <1>2, <1>3, <1>6, IdleFacts DEF SameFanouts, Busy
<1>9. CallsInv'
  BY <1>1, <1>8, SameFanoutsCalls
<1>10. TypeOK'
  <2>1. \A o \in Actors : op'[o].gen \in DOMAIN mounts
    BY <1>1, <1>6, IdleFacts, FirstGen DEF TypeOK
  <2> QED BY <1>1, <1>3, <1>5, <1>6, <2>1 DEF TypeOK
<1>11. LocksInv'
  <2>1. \A v \in Writers : op'[v] = op[v] /\ v # Committer
    BY <1>2, <1>6
  <2>2. \A o \in Actors : op'[o].pc \in {"idle", "resolved"} => op'[o].ok = {}
    BY <1>1, <1>6, IdleFacts DEF LocksInv
  <2>3. \A o \in Actors : Busy(o)' => Busy(o) /\ op'[o] = op[o]
    BY <1>8 DEF SameFanouts
  <2> QED BY <1>1, <1>3, <1>5, <1>6, <1>7, <2>1, <2>2, <2>3, IdleFacts DEF LocksInv
<1>12. ASSUME CopiesInv PROVE CopiesInv'
  <2>1. Cardinality(Sound') >= writeQuorum
    <3>1. CASE recorded' = recorded
      BY <1>3, <1>12, <3>1 DEF CopiesInv, Sound
    <3>2. CASE recorded' = op[Committer].offset
      <4>1. op[Committer].ok \subseteq Replicas
        BY <1>1, <1>2, OpFacts
      <4>2. op[Committer].ok \subseteq Sound'
        BY <1>3, <1>12, <3>2, <4>1 DEF CopiesInv, Sound
      <4>3. Cardinality(op[Committer].ok) >= writeQuorum
        BY <1>3, <1>12 DEF CopiesInv, Succeeded
      <4>4. Sound' \subseteq Replicas
        BY DEF Sound
      <4>5. /\ Cardinality(op[Committer].ok) <= Cardinality(Sound') /\ Cardinality(Sound') \in Nat
            /\ Cardinality(op[Committer].ok) \in Nat /\ writeQuorum \in Nat
        BY <4>1, <4>2, <4>4, ReplicasFinite
      <4> QED BY <4>3, <4>5
    <3> QED BY <1>5, <3>1, <3>2
  <2>2. op'[Committer].pc # "record" /\ op'[Committer].ok = {}
    BY <1>6, IdleFacts
  <2> QED BY <1>3, <1>4, <1>7, <1>12, <2>1, <2>2 DEF CopiesInv
<1> QED BY <1>1, <1>3, <1>7, <1>9, <1>10, <1>11, <1>12 DEF MirrorInv, AcknowledgedIsMounted, OneMayLag

-----------------------------------------------------------------------------
(* Topology changes (SetNodeState, SetDiskState).                          *)

AllIdle == \A o \in Actors : op[o].pc = "idle"

\* No RPC is at work while the topology changes (vlogMu, WaitForWrites).
LEMMA MoveIdle ==
    ASSUME LocksInv, lock \in {"offline", "return"}
    PROVE  AllIdle
<1>1. \A o \in Actors : o \in Writers \/ o = Committer
  BY DEF Actors
<1> QED BY <1>1 DEF LocksInv, AllIdle

\* Then only the lengths matter to the locks,
LEMMA IdleLocks ==
    ASSUME LocksInv, AllIdle, op' = op, lock' # "commit", Mounted'.length = Mounted.length, recorded' = recorded,
           lock' \in {"offline", "return"} => target' = Mounted.length
    PROVE  LocksInv'
<1>1. \A o \in Actors : op'[o].pc = "idle" /\ ~Busy(o)' /\ op'[o].ok = {}
  BY DEF AllIdle, Busy, LocksInv
<1>2. Committer \in Actors /\ Writers \subseteq Actors
  BY Bounds
<1> QED BY <1>1, <1>2 DEF LocksInv

\* and every call is nobody's.
LEMMA IdleCalls ==
    ASSUME TypeOK, CallsInv, AllIdle, op' = op, calls' \subseteq calls
    PROVE  CallsInv'
<1>1. \A o \in Actors : ~Busy(o) /\ ~Busy(o)'
  BY DEF AllIdle, Busy
<1>2. \A c \in calls : c.owner = Stray
  BY <1>1, CallFacts DEF CallsInv
<1>3. Strays
  BY <1>1, <1>2, CallFacts DEF Strays, CallsInv
<1> QED BY <1>3, StraysCalls

\* The length a vlog is mounted again at is the one it has (remountVlogLocked).
LEMMA RemountKeeps ==
    ASSUME TypeOK, LocksInv
    PROVE  RemountLength = Mounted.length /\ recorded \in Nat /\ recorded <= Mounted.length
<1>1. recorded \in Nat /\ Mounted.length \in Nat /\ recorded <= Mounted.length
  BY MountedFacts, Bounds DEF TypeOK, LocksInv
<1> QED BY <1>1 DEF RemountLength, Larger

\* A topology change begins.
LEMMA BeginMoveSound ==
    ASSUME MirrorInv, ~LateWriters, NEW set \in Domains, BeginOffline(set) \/ BeginReturn(set)
    PROVE  MirrorInv'
<1>1. TypeOK /\ LocksInv /\ CallsInv /\ AcknowledgedIsMounted
  BY DEF MirrorInv
<1>2. /\ lock = "free" /\ Quiet /\ moving' = set /\ target' = RemountLength
      /\ lock' \in {"offline", "return"} /\ todo' \subseteq open \cup set /\ open' \subseteq open \cup set /\ failed' \subseteq failed \cup set
      /\ UNCHANGED <<disk, durable, mounts, op, calls, recorded, stream>>
      /\ {requests', faults', moves', restarts'} \subseteq Nat
  <2>1. /\ \E kind \in {"offline", "return"}, copies \in SUBSET (open \cup set) : BeginMove(kind, set, copies)
        /\ open' \subseteq open \cup set /\ failed' \subseteq failed \cup set
    BY DEF BeginOffline, BeginReturn
  <2> QED BY <1>1, <2>1 DEF BeginMove, TypeOK
<1>3. set \subseteq Replicas /\ set # {}
  BY DomainsAssumption
<1>4. Mounted' = Mounted /\ target' = Mounted.length /\ Mounted.length \in 0 .. MaxLength /\ Mounted.live \subseteq Replicas
  BY <1>1, <1>2, RemountKeeps, MountedFacts DEF Mounted
<1>5. AllIdle
  <2>1. \A w \in Writers : op[w].pc = "idle"
    BY <1>2 DEF Quiet
  <2>2. op[Committer].pc = "idle"
    BY <1>1, <1>2 DEF LocksInv
  <2> QED BY <2>1, <2>2 DEF AllIdle, Actors
<1>6. TypeOK'
  BY <1>1, <1>2, <1>3, <1>4 DEF TypeOK
<1>7. LocksInv'
  BY <1>1, <1>2, <1>4, <1>5, IdleLocks
<1>8. CallsInv'
  BY <1>1, <1>2, <1>5, IdleCalls
<1>9. ASSUME CopiesInv PROVE CopiesInv'
  <2>1. Mounted.live = open /\ Sound' = Sound /\ Succeeded(Committer)' = Succeeded(Committer)
    BY <1>2, <1>9 DEF CopiesInv, Sound, Succeeded
  <2>2. CASE BeginOffline(set)
    <3>1. lock' = "offline" /\ open' = open /\ todo' = open \ set /\ moving' = set
      BY <2>2 DEF BeginOffline, BeginMove
    <3>2. (open' \ moving') \ todo' = {}
      BY <3>1
    <3> QED BY <1>2, <1>4, <1>9, <2>1, <3>1, <3>2 DEF CopiesInv
  <2>3. CASE BeginReturn(set)
    <3>1. lock' = "return" /\ open' = open \cup set /\ todo' = set \ open /\ moving' = set /\ set \ open # {}
      BY <2>3 DEF BeginReturn, BeginMove
    <3>2. open' \ todo' = Mounted.live /\ Mounted.live # Replicas /\ Mounted.live \cap todo' = {} /\ open' = Mounted.live \cup moving'
      BY <1>3, <2>1, <3>1
    <3>3. Mounted.live \subseteq Mounted.complete
      BY <1>9, <3>2 DEF CopiesInv
    <3>4. \A r \in open' \ todo' : Holds(disk[r], stream, Mounted.length)
      BY <1>9, <3>2, <3>3 DEF CopiesInv
    <3> QED BY <1>2, <1>4, <1>9, <2>1, <3>1, <3>2, <3>3, <3>4 DEF CopiesInv
  <2> QED BY <2>2, <2>3
<1> QED BY <1>1, <1>2, <1>4, <1>6, <1>7, <1>8, <1>9 DEF MirrorInv, AcknowledgedIsMounted, OneMayLag

\* A disk that is open is marked active.
LEMMA ActivateSound ==
    ASSUME MirrorInv, NEW set \in Domains, Activate(set)
    PROVE  MirrorInv'
<1>1. TypeOK /\ LocksInv /\ CallsInv /\ AcknowledgedIsMounted
  BY DEF MirrorInv
<1>2. /\ failed' \subseteq failed /\ {requests', faults', moves', restarts'} \subseteq Nat
      /\ UNCHANGED <<disk, durable, open, mounts, op, calls, lock, moving, todo, target, recorded, stream>>
  BY <1>1 DEF Activate, moveVars, TypeOK
<1>3. TypeOK'
  BY <1>1, <1>2 DEF TypeOK
<1>4. LocksInv' /\ CallsInv' /\ AcknowledgedIsMounted'
  BY <1>1, <1>2 DEF LocksInv, CallsInv, AcknowledgedIsMounted, Mounted, Busy
<1>5. CopiesInv => CopiesInv'
  BY <1>2, WriterCopies
<1> QED BY <1>3, <1>4, <1>5 DEF MirrorInv, OneMayLag

\* A cut keeps what is before it (ReconcileShardLengths).
LEMMA HoldsCut ==
    ASSUME NEW s \in Contents, NEW acked, NEW n \in Nat, NEW m \in Nat, m <= n, n <= Len(s), Holds(s, acked, m)
    PROVE  Holds(Slice(s, 0, n), acked, m)
<1> DEFINE t == Slice(s, 0, n)
<1>1. Len(t) = n /\ \A i \in 1 .. n : t[i] = s[i]
  BY PrefixFacts
<1> HIDE DEF t
<1>2. Holds(t, acked, m)
  BY <1>1 DEF Holds
<1> QED BY <1>2 DEF t

\* Closing handles changes what is live only (offlinePlogsLocked).
LEMMA CloseHandlesFacts ==
    ASSUME TypeOK, NEW gone \in SUBSET Replicas
    PROVE  /\ CloseHandles(gone) \in Seq(Objects) /\ Len(CloseHandles(gone)) = Len(mounts)
           /\ DOMAIN CloseHandles(gone) = DOMAIN mounts /\ CloseHandles(gone) # <<>>
           /\ CloseHandles(gone)[Len(mounts)].length = Mounted.length
           /\ CloseHandles(gone)[Len(mounts)].complete = Mounted.complete
           /\ CloseHandles(gone)[Len(mounts)].live = Mounted.live \ gone
<1> DEFINE n == Len(mounts)  f == CloseHandles(gone)
<1>1. mounts \in [1 .. n -> Objects] /\ n \in Nat /\ n # 0 /\ DOMAIN mounts = 1 .. n /\ n \in 1 .. n
  BY MountedFacts, LenProperties DEF TypeOK
<1>2. ASSUME NEW m \in Objects
      PROVE  /\ [m EXCEPT !.live = @ \ gone] \in Objects /\ [m EXCEPT !.live = @ \ gone].length = m.length
             /\ [m EXCEPT !.live = @ \ gone].complete = m.complete /\ [m EXCEPT !.live = @ \ gone].live = m.live \ gone
  BY DEF Objects
<1>3. f \in [1 .. n -> Objects]
  BY <1>1, <1>2 DEF CloseHandles
<1>4. f[n] = [mounts[n] EXCEPT !.live = @ \ gone] /\ mounts[n] \in Objects /\ mounts[n] = Mounted
  BY <1>1 DEF CloseHandles, Mounted
<1>5. f[n].length = Mounted.length /\ f[n].complete = Mounted.complete /\ f[n].live = Mounted.live \ gone
  BY <1>2, <1>4
<1> HIDE DEF f, n
<1>6. f \in Seq(Objects) /\ Len(f) = n
  BY <1>1, <1>3, FunctionIsSequence
<1>7. f # <<>> /\ DOMAIN f = 1 .. n
  BY <1>1, <1>3, <1>6, EmptySeq
<1> QED BY <1>1, <1>5, <1>6, <1>7 DEF f, n

\* A new object takes over from the mounted one (remountVlogLocked).
LEMMA NewObject ==
    ASSUME TypeOK, NEW gone \in SUBSET Replicas, NEW length \in 0 .. MaxLength, NEW live \in SUBSET Replicas,
           mounts' = Append(Superseded(CloseHandles(gone)), NewVlog(length, live))
    PROVE  /\ mounts' \in Seq(Objects) /\ mounts' # <<>> /\ DOMAIN mounts \subseteq DOMAIN mounts'
           /\ Mounted'.length = length /\ Mounted'.complete = Replicas /\ Mounted'.live = live
<1> DEFINE n == Len(mounts)  f == CloseHandles(gone)  g == Superseded(f)  new == NewVlog(length, live)
<1>1. n \in Nat /\ DOMAIN mounts = 1 .. n /\ f \in Seq(Objects) /\ DOMAIN f = 1 .. n
  BY MountedFacts, CloseHandlesFacts
<1>2. f \in [1 .. n -> Objects]
  BY <1>1
<1>3. NoVlog \in Objects /\ new \in Objects /\ new.length = length /\ new.complete = Replicas /\ new.live = live
  BY Bounds DEF NoVlog, NewVlog, Objects
<1>4. mounts' = Append(g, new)
  OBVIOUS
<1> HIDE DEF f, new, n
<1>5. g \in [1 .. n -> Objects]
  BY <1>1, <1>2, <1>3 DEF Superseded
<1> HIDE DEF g
<1>6. g \in Seq(Objects) /\ Len(g) = n
  BY <1>1, <1>5, FunctionIsSequence
<1>7. /\ mounts' \in Seq(Objects) /\ Len(mounts') = n + 1 /\ mounts'[n + 1] = new
  BY <1>1, <1>3, <1>4, <1>6, AppendProperties
<1>8. DOMAIN mounts' = 1 .. n + 1
  BY <1>7, LenProperties
<1>9. mounts' # <<>> /\ DOMAIN mounts \subseteq DOMAIN mounts'
  <2>1. Len(mounts') # 0
    BY <1>1, <1>7
  <2>2. mounts' # <<>>
    BY <2>1, EmptySeq
  <2> QED BY <1>1, <1>8, <2>2
<1>10. Mounted' = new
  BY <1>7 DEF Mounted
<1> QED BY <1>3, <1>7, <1>9, <1>10

\* Cutting copies that are long enough (ReconcileShardLengths).
LEMMA CutFacts ==
    ASSUME NEW d \in [Replicas -> Contents], NEW n \in Nat, NEW copies \in SUBSET Replicas,
           \A r \in copies : Len(d[r]) >= n
    PROVE  /\ CutTo(n, d, copies) \in [Replicas -> Contents]
           /\ \A r \in copies : CutTo(n, d, copies)[r] = Slice(d[r], 0, n)
           /\ \A r \in Replicas \ copies : CutTo(n, d, copies)[r] = d[r]
<1>1. \A r \in copies : Slice(d[r], 0, n) \in Contents
  <2> TAKE r \in copies
  <2>1. d[r] \in Contents /\ Len(d[r]) \in Nat /\ Len(d[r]) >= n
    BY ContentFacts
  <2> QED BY <2>1, PrefixFacts
<1> QED BY <1>1 DEF CutTo

\* A topology change ends, with the vlog mounted over the copies that are open.
EndMove(live, d, gone) ==
    /\ lock \in {"offline", "return"} /\ todo = {}
    /\ open' = live /\ Remount(live, d, gone)
    /\ lock' = "free" /\ moving' = {} /\ target' = 0
    /\ failed' \subseteq failed
    /\ UNCHANGED <<durable, op, todo, recorded, stream>>
    /\ {requests', faults', moves', restarts'} \subseteq Nat

\* The length is kept; and where the copies agree, they still do.
LEMMA EndMoveSound ==
    ASSUME MirrorInv, NEW live \in SUBSET Replicas, NEW d \in [Replicas -> Contents], NEW gone \in SUBSET Replicas,
           EndMove(live, d, gone),
           \A r \in Replicas : d[r] \in {disk[r], durable[r]},
           CopiesInv => \A r \in live : Holds(d[r], stream, Mounted.length)
    PROVE  MirrorInv'
<1> DEFINE n == Mounted.length  long == LongEnough(live, d, n)
<1>1. TypeOK /\ LocksInv /\ CallsInv /\ AcknowledgedIsMounted
  BY DEF MirrorInv
<1>2. /\ RemountLength = n /\ recorded \in Nat /\ recorded <= n /\ n \in Nat /\ n \in 0 .. MaxLength
  BY <1>1, RemountKeeps, MountedFacts
<1>3. /\ calls' = CallsWithout(gone)
      /\ \/ live = long /\ disk' = CutTo(n, d, live) /\ mounts' = Append(Superseded(CloseHandles(gone)), NewVlog(n, live))
         \/ live # long /\ (\E cut \in SUBSET long : disk' = CutTo(n, d, cut)) /\ mounts' = CloseHandles(gone)
  BY <1>2 DEF EndMove, Remount
<1>4. /\ lock \in {"offline", "return"} /\ todo = {} /\ open' = live /\ lock' = "free" /\ moving' = {} /\ target' = 0
      /\ failed' \subseteq failed /\ UNCHANGED <<durable, op, todo, recorded, stream>>
      /\ {requests', faults', moves', restarts'} \subseteq Nat
  BY DEF EndMove
<1>5. long \subseteq live /\ \A r \in long : Len(d[r]) >= n
  BY DEF LongEnough
<1>6. AllIdle /\ calls' \subseteq calls
  BY <1>1, <1>3, <1>4, MoveIdle DEF CallsWithout
<1> HIDE DEF n, long
<1>7. disk' \in [Replicas -> Contents]
  BY <1>2, <1>3, <1>5, CutFacts
<1>8. /\ mounts' \in Seq(Objects) /\ mounts' # <<>> /\ DOMAIN mounts \subseteq DOMAIN mounts' /\ Mounted'.length = n
  <2>1. CASE mounts' = Append(Superseded(CloseHandles(gone)), NewVlog(n, live))
    BY <1>1, <1>2, <2>1, NewObject
  <2>2. CASE mounts' = CloseHandles(gone)
    BY <1>1, <2>2, CloseHandlesFacts DEF Mounted, n
  <2> QED BY <1>3, <2>1, <2>2
<1>9. TypeOK'
  <2>1. 0 \in 0 .. MaxLength
    BY Bounds
  <2> QED BY <1>1, <1>4, <1>6, <1>7, <1>8, <2>1 DEF TypeOK
<1>10. LocksInv'
  BY <1>1, <1>4, <1>6, <1>8, IdleLocks DEF n
<1>11. CallsInv'
  BY <1>1, <1>4, <1>6, IdleCalls
<1>12. AcknowledgedIsMounted'
  BY <1>1, <1>4, <1>8 DEF AcknowledgedIsMounted, n
<1>13. ASSUME CopiesInv PROVE CopiesInv'
  <2>1. \A r \in live : Holds(d[r], stream, n)
    BY <1>13 DEF n
  <2>2. live = long
    BY <1>2, <2>1 DEF long, LongEnough, Holds, n
  <2>3. disk' = CutTo(n, d, live) /\ Mounted'.complete = Replicas /\ Mounted'.live = live
    BY <1>1, <1>2, <1>3, <2>2, NewObject
  <2>4. /\ \A r \in live : disk'[r] = Slice(d[r], 0, n) /\ d[r] \in Contents /\ Len(d[r]) \in Nat /\ Len(d[r]) >= n
        /\ \A r \in Replicas \ live : disk'[r] = d[r]
    BY <1>2, <1>5, <2>2, <2>3, CutFacts, ContentFacts
  <2>5. ASSUME NEW r \in live, NEW m \in Nat, m <= n, Holds(d[r], stream, m) PROVE Holds(disk'[r], stream, m)
    BY <1>2, <2>4, <2>5, HoldsCut
  <2>6. n <= n
    BY <1>2
  <2>7. \A r \in live : Holds(disk'[r], stream, n)
    BY <1>2, <2>1, <2>5, <2>6
  <2>8. Cardinality(Sound') >= writeQuorum
    <3>1. ASSUME NEW r \in Sound PROVE Holds(durable'[r], stream', recorded') /\ Holds(disk'[r], stream', recorded')
      <4>1. r \in Replicas /\ Holds(durable[r], stream, recorded) /\ Holds(disk[r], stream, recorded)
        BY <3>1 DEF Sound
      <4>2. Holds(d[r], stream, recorded)
        BY <4>1
      <4>3. Holds(disk'[r], stream, recorded)
        BY <1>2, <2>4, <2>5, <4>1, <4>2
      <4> QED BY <1>4, <4>1, <4>3
    <3> QED BY <1>13, <3>1, SoundKept DEF CopiesInv
  <2>9. op'[Committer].pc # "record" /\ op'[Committer].ok = {}
    BY <1>1, <1>4, <1>6, Bounds DEF AllIdle, LocksInv
  <2> QED BY <1>4, <1>8, <2>3, <2>7, <2>8, <2>9 DEF CopiesInv
<1> QED BY <1>9, <1>10, <1>11, <1>12, <1>13 DEF MirrorInv, OneMayLag

\* Copies that are closed show what they committed.
LEMMA ClosedFacts ==
    ASSUME TypeOK, NEW gone \in SUBSET Replicas
    PROVE  /\ Closed(durable, gone) \in [Replicas -> Contents]
           /\ \A r \in Replicas : Closed(durable, gone)[r] \in {disk[r], durable[r]}
           /\ \A r \in Replicas \ gone : Closed(durable, gone)[r] = disk[r]
  BY DEF TypeOK, Closed

\* A topology change ends.
LEMMA FinishSound ==
    ASSUME MirrorInv, FinishOffline \/ FinishReturn \/ RestoreOffline
    PROVE  MirrorInv'
<1>1. TypeOK /\ LocksInv
  BY DEF MirrorInv
<1>2. open \subseteq Replicas /\ moving \subseteq Replicas /\ {requests, faults, moves, restarts} \subseteq Nat /\ disk \in [Replicas -> Contents]
  BY <1>1 DEF TypeOK
<1>3. CASE FinishOffline
  <2> DEFINE live == open \ moving  d == Closed(durable, moving)
  <2>1. EndMove(live, d, moving)
    BY <1>2, <1>3 DEF FinishOffline, EndMove, boundVars
  <2>2. d \in [Replicas -> Contents] /\ (\A r \in Replicas : d[r] \in {disk[r], durable[r]}) /\ \A r \in live : d[r] = disk[r]
    BY <1>1, <1>2, ClosedFacts
  <2>3. lock = "offline" /\ todo = {} /\ live \in SUBSET Replicas
    BY <1>2, <1>3 DEF FinishOffline
  <2>4. CopiesInv => \A r \in live : Holds(disk[r], stream, Mounted.length)
    BY <2>3 DEF CopiesInv
  <2> HIDE DEF live, d
  <2> QED BY <1>2, <2>1, <2>2, <2>3, <2>4, EndMoveSound
<1>4. CASE FinishReturn
  <2>1. EndMove(open, disk, {})
    BY <1>2, <1>4 DEF FinishReturn, EndMove, boundVars
  <2>2. lock = "return" /\ todo = {}
    BY <1>4 DEF FinishReturn
  <2>3. CopiesInv => \A r \in open : Holds(disk[r], stream, Mounted.length)
    BY <2>2 DEF CopiesInv
  <2>4. {} \in SUBSET Replicas /\ open \in SUBSET Replicas /\ \A r \in Replicas : disk[r] \in {disk[r], durable[r]}
    BY <1>2
  <2> QED BY <1>2, <2>1, <2>3, <2>4, EndMoveSound
<1>5. CASE RestoreOffline
  <2> DEFINE live == open \ Reopened  d == Closed(durable, Reopened)
  <2>1. Reopened \in SUBSET Replicas
    BY <1>2 DEF Reopened
  <2>2. EndMove(live, d, Reopened)
    BY <1>2, <1>5 DEF RestoreOffline, EndMove, boundVars, Fault
  <2>3. d \in [Replicas -> Contents] /\ (\A r \in Replicas : d[r] \in {disk[r], durable[r]}) /\ \A r \in live : d[r] = disk[r]
    BY <1>1, <1>2, <2>1, ClosedFacts
  <2>4. lock = "return" /\ todo = {} /\ live \in SUBSET Replicas
    BY <1>2, <1>5 DEF RestoreOffline
  <2>5. CopiesInv => \A r \in live : Holds(disk[r], stream, Mounted.length)
    BY <2>4 DEF CopiesInv
  <2> HIDE DEF live, d
  <2> QED BY <2>1, <2>2, <2>3, <2>4, <2>5, EndMoveSound
<1> QED BY <1>3, <1>4, <1>5

-----------------------------------------------------------------------------
(* A restart, and the first state.                                         *)

\* Recover mounts the vlog at its catalog length.
LEMMA RecoverSound ==
    ASSUME MirrorInv, Recover
    PROVE  MirrorInv'
<1> DEFINE live == LongEnough(Replicas \ failed, durable, recorded)  new == NewVlog(recorded, live)
<1>1. TypeOK /\ LocksInv /\ CallsInv /\ AcknowledgedIsMounted
  BY DEF MirrorInv
<1>2. /\ restarts < MaxRestarts /\ open' = live /\ disk' = CutTo(recorded, durable, live) /\ mounts' = <<new>>
      /\ op' = [o \in Actors |-> Idle] /\ calls' = {} /\ lock' = "free" /\ moving' = {} /\ todo' = {} /\ target' = 0
      /\ stream' = Slice(stream, 0, recorded) /\ UNCHANGED <<durable, failed, recorded>>
      /\ {requests', faults', moves', restarts'} \subseteq Nat
  BY <1>1 DEF Recover, TypeOK
<1>3. /\ recorded \in Nat /\ recorded \in 0 .. MaxLength /\ recorded <= Len(stream) /\ stream \in Contents
      /\ durable \in [Replicas -> Contents] /\ restarts \in Nat
  BY <1>1, RemountKeeps DEF TypeOK, AcknowledgedIsMounted
<1>4. live \in SUBSET Replicas /\ \A r \in live : Len(durable[r]) >= recorded
  BY DEF LongEnough
<1>5. new \in Objects /\ new.length = recorded /\ new.complete = Replicas /\ new.live = live
  BY <1>3, <1>4 DEF NewVlog, Objects
<1> HIDE DEF new, live
<1>6. /\ mounts' \in Seq(Objects) /\ mounts' # <<>> /\ Len(mounts') = 1 /\ DOMAIN mounts' = {1} /\ Mounted' = new
  BY <1>2, <1>5 DEF Mounted
<1>7. stream' \in Contents /\ Len(stream') = recorded /\ \A i \in 1 .. recorded : stream'[i] = stream[i]
  BY <1>2, <1>3, PrefixFacts
<1>8. /\ disk' \in [Replicas -> Contents]
      /\ \A r \in live : disk'[r] = Slice(durable[r], 0, recorded)
      /\ \A r \in Replicas \ live : disk'[r] = durable[r]
  BY <1>2, <1>3, <1>4, CutFacts
<1>9. op' \in [Actors -> Operations] /\ \A o \in Actors : op'[o] = Idle
  BY <1>2, IdleFacts
<1>10. TypeOK'
  <2>1. 0 \in 0 .. MaxLength /\ \A o \in Actors : op'[o].gen \in DOMAIN mounts'
    BY <1>6, <1>9, IdleFacts, Bounds
  <2>2. failed \subseteq Replicas
    BY <1>1 DEF TypeOK
  <2> QED BY <1>2, <1>3, <1>4, <1>6, <1>7, <1>8, <1>9, <2>1, <2>2 DEF TypeOK
<1>11. AcknowledgedIsMounted'
  BY <1>5, <1>6, <1>7 DEF AcknowledgedIsMounted
<1>12. \A o \in Actors : op'[o].pc = "idle" /\ op'[o].ok = {} /\ ~Busy(o)'
  BY <1>9, IdleFacts DEF Busy
<1>13. LocksInv'
  <2>1. recorded' <= Mounted'.length
    BY <1>2, <1>3, <1>5, <1>6
  <2>2. Committer \in Actors /\ Writers \subseteq Actors
    BY Bounds
  <2> QED BY <1>2, <1>12, <2>1, <2>2 DEF LocksInv
<1>14. CallsInv'
  BY <1>2, <1>12, Bounds DEF CallsInv
<1>15. ASSUME OneMayLag, CopiesInv PROVE CopiesInv'
  <2>1. writeQuorum = Cardinality(Replicas)
    BY <1>2, <1>3, <1>15, Bounds DEF OneMayLag
  <2>2. Sound = Replicas
    <3>1. Sound \subseteq Replicas
      BY DEF Sound
    <3>2. Cardinality(Sound) = Cardinality(Replicas)
      <4>1. /\ Cardinality(Sound) \in Nat /\ Cardinality(Replicas) \in Nat /\ Cardinality(Sound) <= Cardinality(Replicas)
        BY <3>1, ReplicasFinite
      <4>2. Cardinality(Sound) >= writeQuorum
        BY <1>15 DEF CopiesInv
      <4> QED BY <2>1, <4>1, <4>2
    <3> QED BY <3>1, <3>2, ReplicasFinite
  <2>3. \A r \in Replicas : Holds(durable[r], stream', recorded)
    BY <1>3, <1>7, <2>2 DEF Sound, Holds
  <2>4. ASSUME NEW r \in Replicas PROVE Holds(disk'[r], stream', recorded)
    <3>1. CASE r \in live
      <4>1. durable[r] \in Contents /\ Len(durable[r]) \in Nat /\ recorded <= Len(durable[r]) /\ recorded <= recorded
        BY <1>3, <1>4, <3>1, ContentFacts
      <4> QED BY <1>3, <1>8, <2>3, <3>1, <4>1, HoldsCut
    <3>2. CASE r \notin live
      BY <1>8, <2>3, <3>2
    <3> QED BY <3>1, <3>2
  <2>5. Cardinality(Sound') >= writeQuorum
    <3>1. Sound' = Replicas
      BY <1>2, <2>3, <2>4 DEF Sound
    <3> QED BY <2>1, <3>1, ReplicasFinite
  <2>6. op'[Committer].ok = {} /\ op'[Committer].pc # "record"
    BY <1>12, Bounds
  <2> QED BY <1>2, <1>4, <1>5, <1>6, <2>4, <2>5, <2>6 DEF CopiesInv
<1> QED BY <1>10, <1>11, <1>13, <1>14, <1>15 DEF MirrorInv, OneMayLag

\* A new vlog is empty everywhere.
LEMMA InitSound ==
    ASSUME Init
    PROVE  MirrorInv
<1> DEFINE new == NewVlog(0, Replicas)
<1>1. <<>> \in Contents /\ Len(<<>>) = 0 /\ 0 \in 0 .. MaxLength /\ 0 \in Nat
  BY EmptyContent, Bounds
<1>2. new \in Objects /\ new.length = 0 /\ new.complete = Replicas /\ new.live = Replicas
  BY <1>1 DEF NewVlog, Objects
<1>3. mounts = <<new>>
  BY DEF Init
<1> HIDE DEF new
<1>4. /\ mounts \in Seq(Objects) /\ mounts # <<>> /\ Len(mounts) = 1 /\ DOMAIN mounts = {1} /\ Mounted = new
  BY <1>2, <1>3 DEF Mounted
<1>5. op \in [Actors -> Operations] /\ \A o \in Actors : op[o] = Idle
  BY IdleFacts DEF Init
<1>6. TypeOK
  <2>1. \A o \in Actors : op[o].gen \in DOMAIN mounts
    BY <1>4, <1>5, IdleFacts
  <2> QED BY <1>1, <1>4, <1>5, <2>1 DEF Init, TypeOK
<1>7. \A o \in Actors : op[o].pc = "idle" /\ op[o].ok = {} /\ ~Busy(o)
  BY <1>5, IdleFacts DEF Busy
<1>8. LocksInv
  <2>1. Committer \in Actors /\ Writers \subseteq Actors /\ lock = "free" /\ recorded = 0 /\ 0 <= Mounted.length
    BY <1>2, <1>4, Bounds DEF Init
  <2> QED BY <1>7, <2>1 DEF LocksInv
<1>9. CallsInv
  BY <1>7, Bounds DEF Init, CallsInv
<1>10. AcknowledgedIsMounted
  BY <1>1, <1>2, <1>4 DEF Init, AcknowledgedIsMounted
<1>11. CopiesInv
  <2>1. \A r \in Replicas : Holds(disk[r], stream, 0) /\ Holds(durable[r], stream, 0)
    BY <1>1 DEF Init, Holds
  <2>2. Sound = Replicas
    BY <2>1 DEF Sound, Init
  <2>3. Cardinality(Sound) >= writeQuorum
    BY <2>2, ReplicasFinite
  <2>4. op[Committer].ok = {} /\ op[Committer].pc # "record"
    BY <1>7, Bounds
  <2>5. lock = "free" /\ open = Replicas
    BY DEF Init
  <2> QED BY <1>2, <1>4, <2>1, <2>3, <2>4, <2>5 DEF CopiesInv
<1> QED BY <1>6, <1>8, <1>9, <1>10, <1>11 DEF MirrorInv

-----------------------------------------------------------------------------
(* catchUpDuplicatePlogLocked.                                             *)

\* Two quorums of a majority have a copy in common.
LEMMA QuorumsMeet ==
    ASSUME 2 * writeQuorum > Cardinality(Replicas), NEW A \in SUBSET Replicas, NEW B \in SUBSET Replicas,
           Cardinality(A) >= writeQuorum, Cardinality(B) >= writeQuorum
    PROVE  A \cap B # {}
<1>1. SUFFICES ASSUME A \cap B = {} PROVE FALSE
  OBVIOUS
<1>2. /\ IsFiniteSet(A) /\ IsFiniteSet(B) /\ Cardinality(A) \in Nat /\ Cardinality(B) \in Nat
      /\ writeQuorum \in Nat /\ Cardinality(Replicas) \in Nat
      /\ A \cup B \in SUBSET Replicas /\ Cardinality(A \cup B) <= Cardinality(Replicas)
  BY ReplicasFinite
<1>3. Cardinality(A \cup B) = Cardinality(A) + Cardinality(B)
  <2>1. Cardinality(A \cup B) = Cardinality(A) + Cardinality(B) - Cardinality(A \cap B)
    BY <1>2, FS_Union
  <2>2. Cardinality(A \cap B) = 0
    BY <1>1, FS_EmptySet
  <2> QED BY <1>2, <2>1, <2>2
<1> QED BY <1>2, <1>3

\* A range of a copy that holds what was acknowledged is as acknowledged.
LEMMA RangeRight ==
    ASSUME NEW s \in Contents, NEW from \in Nat, NEW to \in Nat, from < to, to <= Len(s), NEW b, b = Slice(s, from, to),
           NEW acked, NEW n \in Nat, to <= n, Holds(s, acked, n)
    PROVE  \A i \in 1 .. Len(b) : b[i] = acked[from + i]
<1> DEFINE t == Slice(s, from, to)
<1>3. (Len(t) = IF from <= to THEN to - from ELSE 0) /\ \A i \in 1 .. to - from : t[i] = s[from + i]
  BY SliceFacts
<1> HIDE DEF t
<1>4. b = t
  BY DEF t
<1>1. Len(b) = to - from /\ \A i \in 1 .. to - from : b[i] = s[from + i]
  BY <1>3, <1>4
<1>2. ASSUME NEW i \in 1 .. to - from PROVE  b[i] = acked[from + i]
  <2>1. from + i \in 1 .. n
    BY <1>2
  <2>2. s[from + i] = acked[from + i]
    BY <2>1 DEF Holds
  <2> QED BY <1>1, <1>2, <2>2
<1> QED BY <1>1, <1>2

\* What a read of a range returns: nothing for an empty range.
Read(b, sources, from, to) == IF from >= to THEN b = <<>> ELSE b \in sources

\* The copies as they are, or shorter than the range that is read.
Unchanged(d, to) == \A q \in Replicas : d[q] = disk[q] \/ Len(d[q]) < to

\* What the copies agree on, or the vlog returns, has the length of the range,
LEMMA ReadTypes ==
    ASSUME TypeOK, NEW d \in [Replicas -> Contents], NEW from \in Nat, NEW to \in Nat, NEW b,
           Read(b, Agreed(d, from, to), from, to) \/ Read(b, SourceReads(d, from, to), from, to)
    PROVE  b \in Contents /\ Len(b) = IF from >= to THEN 0 ELSE to - from
<1>1. CASE from >= to
  BY <1>1, EmptyContent DEF Read
<1>2. CASE ~(from >= to)
  <2>1. PICK q \in Replicas : Len(d[q]) >= to /\ b = Slice(d[q], from, to)
    <3>1. open \subseteq Replicas /\ Mounted.live \subseteq Replicas
      BY MountedFacts DEF TypeOK
    <3> QED BY <1>2, <3>1 DEF Read, Agreed, SourceReads
  <2>2. d[q] \in Contents /\ to <= Len(d[q])
    BY <2>1, ContentFacts
  <2>3. b \in Contents /\ Len(b) = IF from <= to THEN to - from ELSE 0
    BY <2>1, <2>2, SliceFacts
  <2> QED BY <1>2, <2>3
<1> QED BY <1>1, <1>2

\* the committed range that a quorum agrees on is what was acknowledged
\* (readCommittedDuplicateRangeLocked),
LEMMA AgreedRight ==
    ASSUME TypeOK, OneMayLag, CopiesInv, NEW d \in [Replicas -> Contents], NEW from \in Nat, NEW to \in Nat, NEW b,
           to <= recorded, Unchanged(d, to), Read(b, Agreed(d, from, to), from, to)
    PROVE  \A i \in 1 .. Len(b) : b[i] = stream[from + i]
<1>1. CASE from >= to
  BY <1>1, EmptyContent DEF Read
<1>2. CASE ~(from >= to)
  <2> DEFINE S == {q \in open : Len(d[q]) >= to /\ Slice(d[q], from, to) = b}
  <2>1. Cardinality(S) >= writeQuorum
    <3>1. b \in Agreed(d, from, to)
      BY <1>2 DEF Read
    <3>2. {q \in {p \in open : Len(d[p]) >= to} : Slice(d[q], from, to) = b} = S
      OBVIOUS
    <3> QED BY <3>1, <3>2 DEF Agreed
  <2>2. S \in SUBSET Replicas /\ Sound \in SUBSET Replicas /\ Cardinality(Sound) >= writeQuorum
    BY DEF TypeOK, Sound, CopiesInv
  <2>3. PICK q \in S : q \in Sound
    BY <2>1, <2>2, QuorumsMeet DEF OneMayLag
  <2>4. /\ q \in Replicas /\ d[q] \in Contents /\ Len(d[q]) \in Nat /\ Len(d[q]) >= to
        /\ b = Slice(d[q], from, to) /\ Holds(disk[q], stream, recorded)
    BY <2>2, <2>3, ContentFacts DEF Sound
  <2> HIDE DEF S
  <2>5. d[q] = disk[q]
    BY <2>4 DEF Unchanged
  <2>6. to <= Len(d[q]) /\ recorded \in Nat
    BY <2>4, Bounds DEF TypeOK
  <2>7. from < to
    BY <1>2
  <2>8. Holds(d[q], stream, recorded)
    BY <2>4, <2>5
  <2> DEFINE s == d[q]
  <2>9. s \in Contents /\ to <= Len(s) /\ b = Slice(s, from, to) /\ Holds(s, stream, recorded)
    BY <2>4, <2>6, <2>8
  <2>10. recorded \in Nat
    BY <2>6
  <2> HIDE DEF s
  <2> QED BY <2>7, <2>9, <2>10, RangeRight
<1> QED BY <1>1, <1>2

\* and so is what the mounted vlog returns (Vlog.Read).
LEMMA SourceRight ==
    ASSUME TypeOK, CopiesInv, NEW d \in [Replicas -> Contents], NEW from \in Nat, NEW to \in Nat, NEW b,
           Unchanged(d, to), Read(b, SourceReads(d, from, to), from, to)
    PROVE  \A i \in 1 .. Len(b) : b[i] = stream[from + i]
<1>1. CASE from >= to
  BY <1>1, EmptyContent DEF Read
<1>2. CASE ~(from >= to)
  <2>1. PICK q \in Mounted.complete \cap Mounted.live :
            to <= Mounted.length /\ Len(d[q]) >= to /\ b = Slice(d[q], from, to)
    <3>1. Mounted.length \in Nat
      BY MountedFacts
    <3> QED BY <1>2, <3>1 DEF Read, SourceReads
  <2>2. /\ q \in Replicas /\ d[q] \in Contents /\ Len(d[q]) \in Nat /\ Mounted.length \in Nat
        /\ Holds(disk[q], stream, Mounted.length)
    BY <2>1, MountedFacts, ContentFacts DEF CopiesInv
  <2>3. d[q] = disk[q] /\ to <= Len(d[q])
    BY <2>1, <2>2 DEF Unchanged
  <2>4. from < to
    BY <1>2
  <2>5. Holds(d[q], stream, Mounted.length)
    BY <2>2, <2>3
  <2> QED BY <2>1, <2>2, <2>3, <2>4, <2>5, RangeRight
<1> QED BY <1>1, <1>2

\* How far verification compares a copy, and how far of that is committed.
Common(r)    == Smaller(Len(disk[r]), target)
Committed(r) == Smaller(Common(r), recorded)

\* What a tail that was read keeps of the copy.
Kept(r, tail) == IF Slice(disk[r], Committed(r), Common(r)) = tail THEN Common(r) ELSE Committed(r)

\* The committed part differs from the agreement, or is equal to it and then the
\* tail decides.
PrefixDiffers(r, v) ==
    \E want : /\ Read(want, Agreed(disk, 0, Committed(r)), 0, Committed(r))
              /\ Slice(disk[r], 0, Committed(r)) # want
              /\ v = [content |-> <<>>, ok |-> TRUE]
TailDecides(r, v) ==
    \E want, tail : /\ Read(want, Agreed(disk, 0, Committed(r)), 0, Committed(r))
                    /\ Slice(disk[r], 0, Committed(r)) = want
                    /\ Read(tail, SourceReads(disk, Committed(r), Common(r)), Committed(r), Common(r))
                    /\ v = [content |-> Slice(disk[r], 0, Kept(r, tail)), ok |-> TRUE]

\* What verification can leave.
LEMMA VerifiedCases ==
    ASSUME NEW r, NEW v \in Verified(r)
    PROVE  v = [content |-> disk[r], ok |-> FALSE] \/ PrefixDiffers(r, v) \/ TailDecides(r, v)
<1> DEFINE common == Common(r)  committed == Committed(r)
<1> DEFINE CheckTail(tail) ==
              Go(Slice(disk[r], 0, IF Slice(disk[r], committed, common) = tail THEN common ELSE committed))
           CheckPrefix(want) ==
              IF Slice(disk[r], 0, committed) # want THEN Go(<<>>)
              ELSE Reading(SourceReads(disk, committed, common), committed, common, disk[r], CheckTail)
           prefix == Agreed(disk, 0, committed)
           suffix == SourceReads(disk, committed, common)
<1>1. v \in Reading(prefix, 0, committed, disk[r], CheckPrefix)
  BY DEF Verified, Common, Committed
<1> HIDE DEF CheckPrefix, prefix, common, committed
<1>2. v \in Stop(disk[r]) \/ \E want : Read(want, prefix, 0, committed) /\ v \in CheckPrefix(want)
  BY <1>1 DEF Reading, Read
<1>3. ASSUME NEW want, v \in CheckPrefix(want), Slice(disk[r], 0, committed) = want
      PROVE  v \in Stop(disk[r]) \/ \E tail : Read(tail, suffix, committed, common) /\ v \in CheckTail(tail)
  <2>1. v \in Reading(suffix, committed, common, disk[r], CheckTail)
    BY <1>3 DEF CheckPrefix
  <2> HIDE DEF CheckTail, suffix
  <2> QED BY <2>1 DEF Reading, Read
<1>4. ASSUME NEW want, v \in CheckPrefix(want), Slice(disk[r], 0, committed) # want
      PROVE  v = [content |-> <<>>, ok |-> TRUE]
  BY <1>4 DEF CheckPrefix, Go
<1>5. \A tail : v \in CheckTail(tail) => v = [content |-> Slice(disk[r], 0, Kept(r, tail)), ok |-> TRUE]
  BY Zenon DEF Go, Kept, common, committed
<1>6. v \in Stop(disk[r]) => v = [content |-> disk[r], ok |-> FALSE]
  BY Zenon DEF Stop
<1> HIDE DEF CheckTail, suffix
<1>7. CASE v \in Stop(disk[r])
  BY <1>6, <1>7, Zenon
<1>8. ASSUME NEW want, Read(want, prefix, 0, committed), v \in CheckPrefix(want), Slice(disk[r], 0, committed) # want
      PROVE  \E x : /\ Read(x, prefix, 0, committed) /\ Slice(disk[r], 0, committed) # x
                    /\ v = [content |-> <<>>, ok |-> TRUE]
  BY <1>4, <1>8, Zenon
<1>9. ASSUME NEW want, Read(want, prefix, 0, committed), v \in CheckPrefix(want), Slice(disk[r], 0, committed) = want,
             v \notin Stop(disk[r])
      PROVE  \E x, y : /\ Read(x, prefix, 0, committed) /\ Slice(disk[r], 0, committed) = x
                       /\ Read(y, suffix, committed, common)
                       /\ v = [content |-> Slice(disk[r], 0, Kept(r, y)), ok |-> TRUE]
  BY <1>3, <1>5, <1>9, Zenon
<1> QED BY <1>2, <1>7, <1>8, <1>9, Zenon DEF prefix, suffix, common, committed, PrefixDiffers, TailDecides

\* The committed part is added and no tail can be read, or both are added.
PrefixAdded(r, kept, c) ==
    \E want : /\ Read(want, Agreed([disk EXCEPT ![r] = kept], Len(kept), recorded), Len(kept), recorded)
              /\ c = [content |-> kept \o want, ok |-> FALSE]
TailAdded(r, kept, c) ==
    \E want, tail : /\ Read(want, Agreed([disk EXCEPT ![r] = kept], Len(kept), recorded), Len(kept), recorded)
                    /\ Read(tail, SourceReads([disk EXCEPT ![r] = kept \o want], Len(kept \o want), target),
                            Len(kept \o want), target)
                    /\ c = [content |-> (kept \o want) \o tail, ok |-> TRUE]

\* What filling can leave.
LEMMA FilledCases ==
    ASSUME NEW r, NEW kept, NEW c \in Filled(r, kept)
    PROVE  c = [content |-> kept, ok |-> FALSE] \/ PrefixAdded(r, kept, c) \/ TailAdded(r, kept, c)
  BY Zenon DEF Filled, Reading, Go, Stop, Read, PrefixAdded, TailAdded

\* A copy holds every shorter prefix of what it holds.
LEMMA HoldsLess ==
    ASSUME NEW s \in Contents, NEW acked, NEW n \in Nat, NEW m \in Nat, m <= n, Holds(s, acked, n)
    PROVE  Holds(s, acked, m)
<1>1. Len(s) \in Nat /\ 1 .. m \subseteq 1 .. n
  BY ContentFacts
<1> QED BY <1>1 DEF Holds

\* A range that equals what was acknowledged extends what a copy holds,
LEMMA RangeHolds ==
    ASSUME NEW s \in Contents, NEW from \in Nat, NEW to \in Nat, from <= to, to <= Len(s), NEW acked, NEW b,
           Holds(s, acked, from), Slice(s, from, to) = b, \A i \in 1 .. Len(b) : b[i] = acked[from + i]
    PROVE  Holds(s, acked, to)
<1> DEFINE t == Slice(s, from, to)
<1>1. (Len(t) = IF from <= to THEN to - from ELSE 0) /\ \A i \in 1 .. to - from : t[i] = s[from + i]
  BY SliceFacts
<1> HIDE DEF t
<1>2. b = t
  BY DEF t
<1>3. Len(b) = to - from
  BY <1>1, <1>2
<1>4. ASSUME NEW i \in 1 .. to PROVE s[i] = acked[i]
  <2>1. CASE i <= from
    BY <2>1 DEF Holds
  <2>2. CASE i > from
    <3> DEFINE j == i - from
    <3>1. j \in 1 .. to - from /\ i = from + j
      BY <2>2
    <3> HIDE DEF j
    <3>2. b[j] = s[from + j] /\ b[j] = acked[from + j]
      BY <1>1, <1>2, <1>3, <3>1
    <3> QED BY <3>1, <3>2
  <2> QED BY <2>1, <2>2
<1> QED BY <1>4 DEF Holds

\* and a copy that holds it has that range.
LEMMA RangeEqual ==
    ASSUME NEW s \in Contents, NEW from \in Nat, NEW to \in Nat, from <= to, to <= Len(s), NEW acked, NEW b \in Contents,
           Holds(s, acked, to), Len(b) = to - from, \A i \in 1 .. Len(b) : b[i] = acked[from + i]
    PROVE  Slice(s, from, to) = b
<1> DEFINE t == Slice(s, from, to)
<1>1. t \in Contents /\ (Len(t) = IF from <= to THEN to - from ELSE 0) /\ \A i \in 1 .. to - from : t[i] = s[from + i]
  BY SliceFacts
<1> HIDE DEF t
<1>2. Len(t) = Len(b) /\ Len(t) = to - from
  BY <1>1
<1>3. ASSUME NEW i \in 1 .. to - from PROVE t[i] = b[i]
  <2>1. from + i \in 1 .. to
    BY <1>3
  <2>2. s[from + i] = acked[from + i]
    BY <2>1 DEF Holds
  <2> QED BY <1>1, <1>3, <2>2
<1>4. t = b
  BY <1>1, <1>2, <1>3, ContentsEqual
<1> QED BY <1>4 DEF t

\* The two marks of a verification.
LEMMA MarksFacts ==
    ASSUME TypeOK, NEW r \in Replicas
    PROVE  /\ Common(r) \in Nat /\ Committed(r) \in Nat /\ Committed(r) <= Common(r) /\ Committed(r) <= recorded
           /\ Common(r) <= Len(disk[r]) /\ Common(r) <= target /\ target <= MaxLength
           /\ disk[r] \in Contents /\ Len(disk[r]) \in Nat /\ recorded \in Nat /\ target \in Nat
           /\ Common(r) = Len(disk[r]) \/ Common(r) = target
           /\ Committed(r) = Common(r) \/ Committed(r) = recorded
<1> DEFINE common == Common(r)  committed == Committed(r)
<1>1. disk[r] \in Contents /\ recorded \in Nat /\ target \in Nat /\ target <= MaxLength
  BY Bounds DEF TypeOK
<1>2. Len(disk[r]) \in Nat
  BY <1>1, ContentFacts
<1> DEFINE n == Len(disk[r])
<1> HIDE DEF n
<1>3. n \in Nat /\ common = Smaller(n, target) /\ committed = Smaller(common, recorded)
  BY <1>2 DEF n, Common, Committed
<1> HIDE DEF common, committed
<1>4. /\ common \in Nat /\ committed \in Nat /\ committed <= common /\ committed <= recorded
      /\ common <= n /\ common <= target
      /\ common = n \/ common = target
      /\ committed = common \/ committed = recorded
  BY <1>1, <1>3 DEF Smaller
<1> QED BY <1>1, <1>2, <1>4 DEF n, common, committed

\* Verification trims a copy or leaves it as it is.
LEMMA VerifiedTypes ==
    ASSUME TypeOK, NEW r \in Replicas, NEW v \in Verified(r)
    PROVE  v.content \in Contents /\ v.ok \in BOOLEAN /\ (v.ok => Len(v.content) <= target)
<1> DEFINE common == Common(r)  committed == Committed(r)
<1>1. /\ common \in Nat /\ committed \in Nat /\ committed <= common
      /\ common <= Len(disk[r]) /\ common <= target /\ disk[r] \in Contents /\ Len(disk[r]) \in Nat /\ target \in Nat
  BY MarksFacts
<1>2. \/ v = [content |-> disk[r], ok |-> FALSE]
      \/ v = [content |-> <<>>, ok |-> TRUE]
      \/ \E k \in {common, committed} : v = [content |-> Slice(disk[r], 0, k), ok |-> TRUE]
  <2>1. PrefixDiffers(r, v) => v = [content |-> <<>>, ok |-> TRUE]
    BY Zenon DEF PrefixDiffers
  <2>2. TailDecides(r, v) => \E k \in {common, committed} : v = [content |-> Slice(disk[r], 0, k), ok |-> TRUE]
    BY Zenon DEF TailDecides, Kept
  <2> HIDE DEF common, committed
  <2> QED BY <2>1, <2>2, VerifiedCases, Zenon
<1> HIDE DEF common, committed
<1>3. CASE v = [content |-> disk[r], ok |-> FALSE]
  BY <1>1, <1>3
<1>4. CASE v = [content |-> <<>>, ok |-> TRUE]
  <2>1. v.content = <<>> /\ v.ok = TRUE
    BY <1>4
  <2>2. v.content \in Contents /\ Len(v.content) = 0 /\ v.ok = TRUE
    BY <2>1, EmptyContent, Zenon
  <2>3. 0 <= target
    BY <1>1
  <2> QED BY <2>2, <2>3, Zenon
<1>5. ASSUME NEW k \in {common, committed}, v = [content |-> Slice(disk[r], 0, k), ok |-> TRUE]
      PROVE  v.content \in Contents /\ v.ok \in BOOLEAN /\ (v.ok => Len(v.content) <= target)
  <2> DEFINE t == Slice(disk[r], 0, k)
  <2>1. k \in Nat /\ k <= Len(disk[r]) /\ k <= target
    BY <1>1, <1>5
  <2>2. t \in Contents /\ Len(t) = k
    BY <1>1, <2>1, PrefixFacts
  <2>3. v.content = t /\ v.ok = TRUE
    BY <1>5
  <2> HIDE DEF t
  <2> QED BY <2>1, <2>2, <2>3
<1> QED BY <1>2, <1>3, <1>4, <1>5

\* Nothing was cut off.
LEMMA HoldsAll ==
    ASSUME NEW s \in Contents, NEW acked, NEW k \in Nat, k <= Len(s), Holds(s, acked, k)
    PROVE  LET t == Slice(s, 0, k) IN t \in Contents /\ Len(t) = k /\ Holds(t, acked, k) /\ Holds(t, acked, Len(t))
<1> DEFINE t == Slice(s, 0, k)
<1>1. t \in Contents /\ Len(t) = k
  BY PrefixFacts
<1>2. k <= k
  OBVIOUS
<1>3. Holds(t, acked, k)
  BY <1>2, HoldsCut
<1> HIDE DEF t
<1>4. Holds(t, acked, Len(t))
  BY <1>1, <1>3
<1> QED BY <1>1, <1>3, <1>4 DEF t

\* The copies as they are.
LEMMA DiskUnchanged ==
    ASSUME NEW to
    PROVE  Unchanged(disk, to)
  BY DEF Unchanged

\* The committed part that is compared is as acknowledged.
LEMMA PrefixRight ==
    ASSUME TypeOK, OneMayLag, CopiesInv, NEW r \in Replicas, NEW want,
           Read(want, Agreed(disk, 0, Committed(r)), 0, Committed(r))
    PROVE  want \in Contents /\ Len(want) = Committed(r) /\ \A i \in 1 .. Len(want) : want[i] = stream[i]
<1> DEFINE z == 0  k == Committed(r)
<1>1. z \in Nat /\ k \in Nat /\ k <= recorded /\ disk \in [Replicas -> Contents] /\ Read(want, Agreed(disk, z, k), z, k)
  BY MarksFacts DEF TypeOK
<1>2. \A i \in 1 .. Len(want) : i = z + i
  OBVIOUS
<1> HIDE DEF z, k
<1>3. want \in Contents /\ Len(want) = IF z >= k THEN 0 ELSE k - z
  BY <1>1, ReadTypes
<1>4. \A i \in 1 .. Len(want) : want[i] = stream[z + i]
  BY <1>1, DiskUnchanged, AgreedRight
<1>5. Len(want) = k
  BY <1>1, <1>3 DEF z
<1> QED BY <1>2, <1>3, <1>4, <1>5 DEF k

\* So is the tail.
LEMMA TailRight ==
    ASSUME TypeOK, CopiesInv, NEW r \in Replicas, NEW tail,
           Read(tail, SourceReads(disk, Committed(r), Common(r)), Committed(r), Common(r))
    PROVE  /\ tail \in Contents /\ Len(tail) = Common(r) - Committed(r)
           /\ \A i \in 1 .. Len(tail) : tail[i] = stream[Committed(r) + i]
<1> DEFINE k == Committed(r)  m == Common(r)
<1>1. k \in Nat /\ m \in Nat /\ k <= m /\ disk \in [Replicas -> Contents] /\ Read(tail, SourceReads(disk, k, m), k, m)
  BY MarksFacts DEF TypeOK
<1> HIDE DEF k, m
<1>2. tail \in Contents /\ Len(tail) = IF k >= m THEN 0 ELSE m - k
  BY <1>1, ReadTypes
<1>3. \A i \in 1 .. Len(tail) : tail[i] = stream[k + i]
  BY <1>1, DiskUnchanged, SourceRight
<1>4. Len(tail) = m - k
  BY <1>1, <1>2
<1> QED BY <1>2, <1>3, <1>4 DEF k, m

\* A copy whose committed part is the agreed one holds it.
LEMMA PrefixHolds ==
    ASSUME NEW s \in Contents, NEW k \in Nat, k <= Len(s), NEW acked, NEW b, Slice(s, 0, k) = b,
           \A i \in 1 .. Len(b) : b[i] = acked[i]
    PROVE  Holds(s, acked, k)
<1> DEFINE t == Slice(s, 0, k)
<1>1. Len(t) = k /\ \A i \in 1 .. k : t[i] = s[i]
  BY PrefixFacts
<1> HIDE DEF t
<1>2. b = t
  BY DEF t
<1> QED BY <1>1, <1>2 DEF Holds

\* And one that holds it has the agreed one.
LEMMA PrefixEqual ==
    ASSUME NEW s \in Contents, NEW k \in Nat, k <= Len(s), NEW acked, NEW b \in Contents, Holds(s, acked, k), Len(b) = k,
           \A i \in 1 .. Len(b) : b[i] = acked[i]
    PROVE  Slice(s, 0, k) = b
<1> DEFINE t == Slice(s, 0, k)
<1>1. t \in Contents /\ Len(t) = k /\ \A i \in 1 .. k : t[i] = s[i]
  BY PrefixFacts
<1> HIDE DEF t
<1>2. \A i \in 1 .. Len(t) : t[i] = b[i]
  BY <1>1 DEF Holds
<1>3. t = b
  BY <1>1, <1>2, ContentsEqual
<1> QED BY <1>3 DEF t

\* What verification leaves is as acknowledged, and nothing that was is lost.
LEMMA VerifiedRight ==
    ASSUME TypeOK, OneMayLag, CopiesInv, recorded <= target, NEW r \in Replicas, NEW v \in Verified(r)
    PROVE  /\ v.ok => Holds(v.content, stream, Len(v.content))
           /\ \A n \in {recorded, target} : Holds(disk[r], stream, n) => Holds(v.content, stream, n)
<1> DEFINE s == disk[r]  common == Common(r)  committed == Committed(r)
<1>1. /\ common \in Nat /\ committed \in Nat /\ committed <= common /\ committed <= recorded /\ common <= Len(s)
      /\ common <= target /\ s \in Contents /\ Len(s) \in Nat /\ recorded \in Nat /\ target \in Nat
      /\ common = Len(s) \/ common = target
      /\ committed = common \/ committed = recorded
  BY MarksFacts
<1>2. committed <= Len(s) /\ \A n \in {recorded, target} : n \in Nat /\ committed <= n
  <2> HIDE DEF s, common, committed
  <2> QED BY <1>1
<1>3. CASE v = [content |-> s, ok |-> FALSE]
  BY <1>3
<1>4. CASE PrefixDiffers(r, v)
  <2>1. PICK want : /\ Read(want, Agreed(disk, 0, committed), 0, committed)
                    /\ Slice(s, 0, committed) # want
                    /\ v = [content |-> <<>>, ok |-> TRUE]
    BY <1>4 DEF PrefixDiffers
  <2>2. v.content = <<>>
    BY <2>1
  <2>3. Len(v.content) = 0
    BY <2>2, EmptyContent, Zenon
  <2>4. Holds(v.content, stream, Len(v.content))
    BY <2>3 DEF Holds
  <2>5. want \in Contents /\ Len(want) = committed /\ \A i \in 1 .. Len(want) : want[i] = stream[i]
    BY <2>1, PrefixRight
  <2>6. ASSUME NEW n \in {recorded, target}, Holds(s, stream, n) PROVE FALSE
    <3>1. Holds(s, stream, committed)
      BY <1>1, <1>2, <2>6, HoldsLess
    <3>2. Slice(s, 0, committed) = want
      BY <1>1, <1>2, <2>5, <3>1, PrefixEqual
    <3> QED BY <2>1, <3>2
  <2> QED BY <2>4, <2>6
<1>5. CASE TailDecides(r, v)
  <2>1. PICK want, tail : /\ Read(want, Agreed(disk, 0, committed), 0, committed)
                          /\ Slice(s, 0, committed) = want
                          /\ Read(tail, SourceReads(disk, committed, common), committed, common)
                          /\ v = [content |-> Slice(s, 0, Kept(r, tail)), ok |-> TRUE]
    BY <1>5 DEF TailDecides
  <2>2. want \in Contents /\ Len(want) = committed /\ \A i \in 1 .. Len(want) : want[i] = stream[i]
    BY <2>1, PrefixRight
  <2>3. /\ tail \in Contents /\ Len(tail) = common - committed
        /\ \A i \in 1 .. Len(tail) : tail[i] = stream[committed + i]
    BY <2>1, TailRight
  <2>4. Kept(r, tail) = IF Slice(s, committed, common) = tail THEN common ELSE committed
    BY DEF Kept
  <2> DEFINE k == Kept(r, tail)  t == Slice(s, 0, k)
  <2> HIDE DEF s, common, committed, k, t
  <2>5. v.content = t
    BY <2>1 DEF t, k
  <2>6. Holds(s, stream, committed)
    BY <1>1, <1>2, <2>1, <2>2, PrefixHolds
  <2>7. Slice(s, committed, common) = tail => Holds(s, stream, common)
    BY <1>1, <2>3, <2>6, RangeHolds
  <2>8. k \in Nat /\ k <= Len(s) /\ Holds(s, stream, k)
    BY <1>1, <1>2, <2>4, <2>6, <2>7 DEF k
  <2>9. t \in Contents /\ Len(t) = k /\ Holds(t, stream, k) /\ Holds(t, stream, Len(t))
    BY <1>1, <2>8, HoldsAll DEF t
  <2>10. ASSUME NEW n \in {recorded, target}, Holds(s, stream, n) PROVE Holds(t, stream, n)
    <3>1. n <= common
      <4>1. n <= Len(s) /\ n <= target
        BY <1>1, <2>10 DEF Holds
      <4> QED BY <1>1, <4>1
    <3>2. n <= k
      <4>1. CASE Slice(s, committed, common) = tail
        BY <2>4, <3>1, <4>1 DEF k
      <4>2. CASE Slice(s, committed, common) # tail
        <5>1. CASE n = recorded
          BY <1>1, <2>4, <3>1, <4>2, <5>1 DEF k
        <5>2. CASE n = target
          <6>1. common = target
            BY <1>1, <3>1, <5>2
          <6>2. Holds(s, stream, common)
            BY <2>10, <5>2, <6>1
          <6>3. Slice(s, committed, common) = tail
            BY <1>1, <2>3, <6>2, RangeEqual
          <6> QED BY <4>2, <6>3
        <5> QED BY <2>10, <5>1, <5>2
      <4> QED BY <4>1, <4>2
    <3> QED BY <1>2, <2>8, <2>9, <3>2, HoldsLess
  <2> QED BY <2>5, <2>9, <2>10 DEF s
<1> QED BY <1>3, <1>4, <1>5, VerifiedCases

\* Units as acknowledged, after units as acknowledged.
LEMMA ConcatRight ==
    ASSUME NEW s \in Contents, NEW b \in Contents, Len(s) + Len(b) <= MaxLength, NEW acked,
           Holds(s, acked, Len(s)), \A i \in 1 .. Len(b) : b[i] = acked[Len(s) + i]
    PROVE  Holds(s \o b, acked, Len(s \o b))
<1> DEFINE t == s \o b
<1>1. /\ t \in Contents /\ Len(t) = Len(s) + Len(b)
      /\ \A i \in 1 .. Len(s) : t[i] = s[i]
      /\ \A i \in 1 .. Len(b) : t[Len(s) + i] = b[i]
  BY ConcatFacts
<1>2. Len(s) \in Nat /\ Len(b) \in Nat
  BY ContentFacts
<1> HIDE DEF t
<1>3. ASSUME NEW i \in 1 .. Len(t) PROVE t[i] = acked[i]
  <2>1. CASE i <= Len(s)
    BY <1>1, <1>2, <2>1 DEF Holds
  <2>2. CASE i > Len(s)
    <3> DEFINE j == i - Len(s)
    <3>1. j \in 1 .. Len(b) /\ i = Len(s) + j
      BY <1>1, <1>2, <2>2
    <3> HIDE DEF j
    <3>2. t[Len(s) + j] = b[j] /\ b[j] = acked[Len(s) + j]
      BY <1>1, <3>1
    <3> QED BY <3>1, <3>2
  <2> QED BY <1>1, <1>2, <2>1, <2>2
<1>4. Holds(t, acked, Len(t))
  BY <1>1, <1>2, <1>3 DEF Holds
<1> QED BY <1>4 DEF t

\* One copy is replaced by a content that ends before the range.
LEMMA ReplacedUnchanged ==
    ASSUME TypeOK, NEW r \in Replicas, NEW content \in Contents
    PROVE  /\ [disk EXCEPT ![r] = content] \in [Replicas -> Contents]
           /\ \A to : Len(content) < to => Unchanged([disk EXCEPT ![r] = content], to)
  BY DEF TypeOK, Unchanged

\* The missing committed part (catchUpDuplicatePlogLocked).
LEMMA AddPrefixFacts ==
    ASSUME TypeOK, recorded <= target, NEW r \in Replicas, NEW kept \in Contents, Len(kept) <= target, NEW want,
           Read(want, Agreed([disk EXCEPT ![r] = kept], Len(kept), recorded), Len(kept), recorded)
    PROVE  /\ kept \o want \in Contents /\ Len(kept \o want) <= target /\ Len(kept \o want) >= Len(kept)
           /\ OneMayLag /\ CopiesInv /\ Holds(kept, stream, Len(kept))
                 => Holds(kept \o want, stream, Len(kept \o want))
<1> DEFINE d == [disk EXCEPT ![r] = kept]  n == Len(kept)  t == kept \o want
<1>1. d \in [Replicas -> Contents] /\ n \in Nat /\ recorded \in Nat /\ target \in Nat /\ target <= MaxLength /\ MaxLength \in Nat
  BY ReplacedUnchanged, ContentFacts, Bounds DEF TypeOK
<1>2. Read(want, Agreed(d, n, recorded), n, recorded)
  OBVIOUS
<1>3. n < recorded => Unchanged(d, recorded)
  BY ReplacedUnchanged
<1>4. n <= target
  OBVIOUS
<1> HIDE DEF d
<1>5. want \in Contents /\ Len(want) = IF n >= recorded THEN 0 ELSE recorded - n
  <2> HIDE DEF n
  <2> QED BY <1>1, <1>2, ReadTypes
<1>6. Len(want) \in Nat /\ n + Len(want) <= target /\ n + Len(want) <= MaxLength
  <2> HIDE DEF n
  <2> QED BY <1>1, <1>4, <1>5
<1>7. t \in Contents /\ Len(t) = n + Len(want)
  BY <1>5, <1>6, ConcatFacts
<1>8. ASSUME OneMayLag, CopiesInv, Holds(kept, stream, n) PROVE Holds(t, stream, Len(t))
  <2>1. \A i \in 1 .. Len(want) : want[i] = stream[n + i]
    <3>1. CASE n >= recorded
      BY <1>5, <3>1
    <3>2. CASE ~(n >= recorded)
      <4>1. Unchanged(d, recorded) /\ recorded <= recorded
        BY <1>1, <1>3, <3>2
      <4> HIDE DEF n
      <4> QED BY <1>1, <1>2, <1>8, <4>1, AgreedRight
    <3> QED BY <3>1, <3>2
  <2> QED BY <1>5, <1>6, <1>8, <2>1, ConcatRight
<1> HIDE DEF t
<1>9. Len(t) <= target /\ Len(t) >= n
  BY <1>1, <1>6, <1>7
<1> QED BY <1>7, <1>8, <1>9, Zenon DEF t

\* The rest (Vlog.Read).
LEMMA AddTailFacts ==
    ASSUME TypeOK, NEW r \in Replicas, NEW base \in Contents, Len(base) <= target, NEW tail,
           Read(tail, SourceReads([disk EXCEPT ![r] = base], Len(base), target), Len(base), target)
    PROVE  /\ base \o tail \in Contents /\ Len(base \o tail) = target
           /\ CopiesInv /\ Holds(base, stream, Len(base)) => Holds(base \o tail, stream, target)
<1> DEFINE d == [disk EXCEPT ![r] = base]  n == Len(base)  t == base \o tail
<1>1. d \in [Replicas -> Contents] /\ n \in Nat /\ target \in Nat /\ target <= MaxLength /\ MaxLength \in Nat
  BY ReplacedUnchanged, ContentFacts, Bounds DEF TypeOK
<1>2. Read(tail, SourceReads(d, n, target), n, target)
  OBVIOUS
<1>3. n < target => Unchanged(d, target)
  BY ReplacedUnchanged
<1>4. n <= target
  OBVIOUS
<1> HIDE DEF d
<1>5. tail \in Contents /\ Len(tail) = IF n >= target THEN 0 ELSE target - n
  <2> HIDE DEF n
  <2> QED BY <1>1, <1>2, ReadTypes
<1>6. Len(tail) \in Nat /\ n + Len(tail) = target /\ n + Len(tail) <= MaxLength
  <2> HIDE DEF n
  <2> QED BY <1>1, <1>4, <1>5
<1>7. t \in Contents /\ Len(t) = n + Len(tail)
  BY <1>5, <1>6, ConcatFacts
<1>8. ASSUME CopiesInv, Holds(base, stream, n) PROVE Holds(t, stream, Len(t))
  <2>1. \A i \in 1 .. Len(tail) : tail[i] = stream[n + i]
    <3>1. CASE n >= target
      BY <1>5, <3>1
    <3>2. CASE ~(n >= target)
      <4>1. Unchanged(d, target)
        BY <1>1, <1>3, <3>2
      <4> HIDE DEF n
      <4> QED BY <1>1, <1>2, <1>8, <4>1, SourceRight
    <3> QED BY <3>1, <3>2
  <2> QED BY <1>5, <1>6, <1>8, <2>1, ConcatRight
<1> HIDE DEF t
<1>9. Len(t) = target
  BY <1>6, <1>7
<1>10. CopiesInv /\ Holds(base, stream, n) => Holds(t, stream, target)
  BY <1>8, <1>9, Zenon
<1> QED BY <1>7, <1>9, <1>10, Zenon DEF t

\* What a catch-up leaves of a copy that verification left kept.
LEMMA FilledFacts ==
    ASSUME TypeOK, recorded <= target, NEW r \in Replicas, NEW kept \in Contents, Len(kept) <= target,
           NEW c \in Filled(r, kept)
    PROVE  /\ c.content \in Contents /\ c.ok \in BOOLEAN
           /\ OneMayLag /\ CopiesInv /\ Holds(kept, stream, Len(kept)) =>
                 /\ c.ok => Holds(c.content, stream, target)
                 /\ Holds(c.content, stream, Len(kept))
<1>1. Len(kept) \in Nat /\ target \in Nat
  BY ContentFacts, Bounds DEF TypeOK
<1>3. ASSUME NEW want, Read(want, Agreed([disk EXCEPT ![r] = kept], Len(kept), recorded), Len(kept), recorded),
             c = [content |-> kept \o want, ok |-> FALSE]
      PROVE  /\ c.content \in Contents /\ c.ok = FALSE
             /\ OneMayLag /\ CopiesInv /\ Holds(kept, stream, Len(kept)) => Holds(c.content, stream, Len(kept))
  <2> DEFINE t == kept \o want
  <2>1. /\ t \in Contents /\ Len(t) <= target /\ Len(t) >= Len(kept)
        /\ OneMayLag /\ CopiesInv /\ Holds(kept, stream, Len(kept)) => Holds(t, stream, Len(t))
    BY <1>3, AddPrefixFacts
  <2>2. c.content = t /\ c.ok = FALSE
    BY <1>3
  <2> HIDE DEF t
  <2>3. Len(t) \in Nat
    BY <2>1, ContentFacts
  <2>4. Holds(t, stream, Len(t)) => Holds(t, stream, Len(kept))
    BY <1>1, <2>1, <2>3, HoldsLess
  <2> QED BY <2>1, <2>2, <2>4
<1>4. ASSUME NEW want, NEW tail,
             Read(want, Agreed([disk EXCEPT ![r] = kept], Len(kept), recorded), Len(kept), recorded),
             Read(tail, SourceReads([disk EXCEPT ![r] = kept \o want], Len(kept \o want), target), Len(kept \o want), target),
             c = [content |-> (kept \o want) \o tail, ok |-> TRUE]
      PROVE  /\ c.content \in Contents /\ c.ok = TRUE
             /\ OneMayLag /\ CopiesInv /\ Holds(kept, stream, Len(kept)) => Holds(c.content, stream, target)
  <2> DEFINE t == kept \o want  u == t \o tail
  <2>1. /\ t \in Contents /\ Len(t) <= target
        /\ OneMayLag /\ CopiesInv /\ Holds(kept, stream, Len(kept)) => Holds(t, stream, Len(t))
    BY <1>4, AddPrefixFacts
  <2>2. c.content = u /\ c.ok = TRUE /\ Read(tail, SourceReads([disk EXCEPT ![r] = t], Len(t), target), Len(t), target)
    BY <1>4
  <2> HIDE DEF t
  <2>3. u \in Contents /\ (CopiesInv /\ Holds(t, stream, Len(t)) => Holds(u, stream, target))
    BY <2>1, <2>2, AddTailFacts
  <2> HIDE DEF u
  <2> QED BY <2>1, <2>2, <2>3
<1>5. ASSUME Holds(c.content, stream, target), c.content \in Contents PROVE Holds(c.content, stream, Len(kept))
  BY <1>1, <1>5, HoldsLess
<1>6. c = [content |-> kept, ok |-> FALSE] \/ PrefixAdded(r, kept, c) \/ TailAdded(r, kept, c)
  BY FilledCases, Zenon
<1>7. ASSUME PrefixAdded(r, kept, c)
      PROVE  /\ c.content \in Contents /\ c.ok = FALSE
             /\ OneMayLag /\ CopiesInv /\ Holds(kept, stream, Len(kept)) => Holds(c.content, stream, Len(kept))
  BY <1>3, <1>7, Zenon DEF PrefixAdded
<1>8. ASSUME TailAdded(r, kept, c)
      PROVE  /\ c.content \in Contents /\ c.ok = TRUE
             /\ OneMayLag /\ CopiesInv /\ Holds(kept, stream, Len(kept)) => Holds(c.content, stream, target)
  BY <1>4, <1>8, Zenon DEF TailAdded
<1>9. CASE c = [content |-> kept, ok |-> FALSE]
  BY <1>9
<1> QED BY <1>5, <1>6, <1>7, <1>8, <1>9, Zenon

\* What a catch-up leaves: all that was acknowledged if it succeeds, and never
\* less of it than the copy had.
LEMMA CaughtUpFacts ==
    ASSUME TypeOK, recorded <= target, NEW r \in Replicas, NEW c \in CaughtUp(r)
    PROVE  /\ c.content \in Contents /\ c.ok \in BOOLEAN
           /\ OneMayLag /\ CopiesInv =>
                 /\ c.ok => Holds(c.content, stream, target)
                 /\ \A n \in {recorded, target} : Holds(disk[r], stream, n) => Holds(c.content, stream, n)
<1>1. PICK v \in Verified(r) : c \in IF v.ok THEN Filled(r, v.content) ELSE {v}
  BY DEF CaughtUp
<1>2. /\ v.content \in Contents /\ v.ok \in BOOLEAN /\ (v.ok => Len(v.content) <= target)
  BY VerifiedTypes
<1>3. OneMayLag /\ CopiesInv =>
         /\ v.ok => Holds(v.content, stream, Len(v.content))
         /\ \A n \in {recorded, target} : Holds(disk[r], stream, n) => Holds(v.content, stream, n)
  BY VerifiedRight
<1>4. CASE ~v.ok
  BY <1>1, <1>2, <1>3, <1>4
<1>5. CASE v.ok
  <2>1. /\ c.content \in Contents /\ c.ok \in BOOLEAN
        /\ OneMayLag /\ CopiesInv /\ Holds(v.content, stream, Len(v.content)) =>
              /\ c.ok => Holds(c.content, stream, target)
              /\ Holds(c.content, stream, Len(v.content))
    BY <1>1, <1>2, <1>5, FilledFacts
  <2>2. ASSUME NEW n \in {recorded, target}, Holds(v.content, stream, n), Holds(c.content, stream, Len(v.content))
        PROVE  Holds(c.content, stream, n)
    <3>1. n \in Nat /\ Len(v.content) \in Nat /\ n <= Len(v.content)
      BY <1>2, <2>2, ContentFacts, Bounds DEF TypeOK, Holds
    <3> QED BY <2>1, <2>2, <3>1, HoldsLess
  <2> QED BY <1>3, <1>5, <2>1, <2>2
<1> QED BY <1>4, <1>5

\* A catch-up knows the length it works towards.
LEMMA TargetFacts ==
    ASSUME TypeOK, LocksInv, lock \in {"offline", "return"}
    PROVE  target = Mounted.length /\ recorded <= target /\ recorded \in Nat /\ target \in Nat
  BY RemountKeeps, MountedFacts DEF LocksInv

\* A copy is caught up.
LEMMA CatchUpSound ==
    ASSUME MirrorInv, NEW r \in Replicas, CatchUp(r)
    PROVE  MirrorInv'
<1>1. TypeOK /\ LocksInv /\ CallsInv /\ AcknowledgedIsMounted
  BY DEF MirrorInv
<1>2. PICK c \in CaughtUp(r) : /\ c.ok /\ disk' = [disk EXCEPT ![r] = c.content]
                               /\ durable' = [durable EXCEPT ![r] = c.content]
  BY DEF CatchUp
<1>3. /\ lock \in {"offline", "return"} /\ r \in todo /\ todo' = todo \ {r}
      /\ UNCHANGED <<open, failed, mounts, op, calls, lock, moving, target, recorded, stream, requests, faults, moves, restarts>>
  BY DEF CatchUp, boundVars
<1>4. target = Mounted.length /\ recorded <= target /\ recorded \in Nat /\ target \in Nat
  BY <1>1, <1>3, TargetFacts
<1>5. c.content \in Contents /\ (OneMayLag /\ CopiesInv => Holds(c.content, stream, target))
  BY <1>1, <1>2, <1>4, CaughtUpFacts
<1> DEFINE new == c.content
<1> HIDE DEF new
<1>6. /\ disk' \in [Replicas -> Contents] /\ durable' \in [Replicas -> Contents]
      /\ disk'[r] = new /\ durable'[r] = new
      /\ \A q \in Replicas : q # r => disk'[q] = disk[q] /\ durable'[q] = durable[q]
  BY <1>1, <1>2, <1>5 DEF TypeOK, new
<1>7. Mounted' = Mounted /\ AllIdle
  BY <1>1, <1>3, MoveIdle DEF Mounted
<1>8. TypeOK'
  BY <1>1, <1>3, <1>6 DEF TypeOK
<1>9. LocksInv'
  BY <1>1, <1>3, <1>4, <1>7, IdleLocks
<1>10. CallsInv'
  BY <1>1, <1>3, <1>7, IdleCalls
<1>11. ASSUME OneMayLag, CopiesInv PROVE CopiesInv'
  <2>1. Holds(new, stream, target) /\ new \in Contents
    BY <1>5, <1>11 DEF new
  <2>2. Holds(new, stream, recorded)
    BY <1>4, <2>1, HoldsLess
  <2>3. \A q \in Replicas : q = r \/ Holds(disk[q], stream, target) => Holds(disk'[q], stream, target)
    BY <1>6, <2>1
  <2>4. Cardinality(Sound') >= writeQuorum
    <3>1. \A q \in Sound : q \in Replicas /\ Holds(durable[q], stream, recorded) /\ Holds(disk[q], stream, recorded)
      BY DEF Sound
    <3>2. \A q \in Sound : Holds(durable'[q], stream', recorded') /\ Holds(disk'[q], stream', recorded')
      BY <1>3, <1>6, <2>2, <3>1
    <3> QED BY <1>11, <3>2, SoundKept DEF CopiesInv
  <2>5. op'[Committer].pc # "record" /\ op'[Committer].ok = {}
    BY <1>1, <1>3, <1>7, Bounds DEF AllIdle, LocksInv
  <2>6. open \subseteq Replicas /\ Mounted.live \subseteq Replicas
    BY <1>1, MountedFacts DEF TypeOK
  <2>7. \A q \in Mounted.complete \cap Mounted.live : Holds(disk'[q], stream, Mounted.length)
    BY <1>4, <1>11, <2>3, <2>6 DEF CopiesInv
  <2>8. lock = "return" => \A q \in open \ todo' : Holds(disk'[q], stream, Mounted.length)
    BY <1>3, <1>4, <1>11, <2>3, <2>6 DEF CopiesInv
  <2>9. lock = "offline" => \A q \in (open \ moving) \ todo' : Holds(disk'[q], stream, Mounted.length)
    BY <1>3, <1>4, <1>11, <2>3, <2>6 DEF CopiesInv
  <2> QED BY <1>3, <1>7, <1>11, <2>4, <2>5, <2>7, <2>8, <2>9 DEF CopiesInv
<1> QED BY <1>1, <1>3, <1>7, <1>8, <1>9, <1>10, <1>11 DEF MirrorInv, AcknowledgedIsMounted, OneMayLag

\* A catch-up fails at any of its points.
LEMMA CatchUpFailsSound ==
    ASSUME MirrorInv, NEW r \in Replicas, CatchUpFails(r)
    PROVE  MirrorInv'
<1> DEFINE gone == IF lock = "return" THEN Reopened ELSE {}
<1>1. TypeOK /\ LocksInv /\ CallsInv /\ AcknowledgedIsMounted
  BY DEF MirrorInv
<1>2. /\ lock \in {"offline", "return"} /\ r \in todo /\ open' = open \ gone /\ mounts' = CloseHandles(gone)
      /\ calls' = CallsWithout(gone) /\ lock' = "free" /\ moving' = {} /\ todo' = {} /\ target' = 0
      /\ UNCHANGED <<failed, op, recorded, stream>>
  BY DEF CatchUpFails
<1>3. PICK c \in Go(disk[r]) \cup Verified(r) \cup CaughtUp(r) :
            /\ IF c.ok THEN Fault ELSE UNCHANGED boundVars
            /\ durable' \in {durable} \cup
                  (IF c.ok /\ c \in CaughtUp(r) THEN {[durable EXCEPT ![r] = c.content]} ELSE {})
            /\ disk' = IF gone = {} THEN [disk EXCEPT ![r] = c.content] ELSE Closed(durable', gone)
  BY DEF CatchUpFails
<1>4. target = Mounted.length /\ recorded <= target /\ recorded \in Nat /\ target \in Nat
  BY <1>1, <1>2, TargetFacts
<1>5. /\ c.content \in Contents
      /\ OneMayLag /\ CopiesInv =>
            /\ c \in CaughtUp(r) /\ c.ok => Holds(c.content, stream, target)
            /\ \A n \in {recorded, target} : Holds(disk[r], stream, n) => Holds(c.content, stream, n)
  <2>1. CASE c \in CaughtUp(r)
    BY <1>1, <1>4, <2>1, CaughtUpFacts
  <2>2. CASE c \in Verified(r) /\ c \notin CaughtUp(r)
    BY <1>1, <1>4, <2>2, VerifiedTypes, VerifiedRight
  <2>3. CASE c \in Go(disk[r]) /\ c \notin CaughtUp(r)
    <3>1. c.content = disk[r]
      BY <2>3 DEF Go
    <3> QED BY <1>1, <2>3, <3>1 DEF TypeOK
  <2> QED BY <2>1, <2>2, <2>3
<1>6. {requests', faults', moves', restarts'} \subseteq Nat
  BY <1>1, <1>3 DEF Fault, boundVars, TypeOK
<1> DEFINE new == c.content
<1>7. new \in Contents /\ disk \in [Replicas -> Contents] /\ durable \in [Replicas -> Contents] /\ gone \in SUBSET Replicas
  BY <1>1, <1>5 DEF TypeOK, Reopened
<1>8. durable' = durable \/ (c.ok /\ c \in CaughtUp(r) /\ durable' = [durable EXCEPT ![r] = new])
  BY <1>3
<1>9. (gone = {} /\ disk' = [disk EXCEPT ![r] = new]) \/ disk' = Closed(durable', gone)
  BY <1>3
<1> HIDE DEF new
<1>10. durable' \in [Replicas -> Contents] /\ \A q \in Replicas : durable'[q] = durable[q] \/ (q = r /\ durable'[q] = new)
  BY <1>7, <1>8
<1> HIDE DEF gone
<1>11. /\ disk' \in [Replicas -> Contents]
       /\ \A q \in Replicas : \/ disk'[q] = disk[q] \/ (gone = {} /\ q = r /\ disk'[q] = new)
                              \/ q \in gone /\ disk'[q] = durable'[q]
  <2>1. CASE gone = {} /\ disk' = [disk EXCEPT ![r] = new]
    BY <1>7, <2>1
  <2>2. CASE disk' = Closed(durable', gone)
    BY <1>7, <1>10, <2>2 DEF Closed
  <2> QED BY <1>9, <2>1, <2>2
<1>12. /\ mounts' \in Seq(Objects) /\ mounts' # <<>> /\ DOMAIN mounts' = DOMAIN mounts
       /\ Mounted'.length = Mounted.length /\ Mounted'.complete = Mounted.complete /\ Mounted'.live = Mounted.live \ gone
  <2>1. mounts' = CloseHandles(gone)
    BY <1>2
  <2> QED BY <1>1, <1>7, <2>1, CloseHandlesFacts DEF Mounted
<1>13. AllIdle /\ calls' \subseteq calls
  BY <1>1, <1>2, MoveIdle DEF CallsWithout
<1>14. TypeOK'
  <2>1. 0 \in 0 .. MaxLength /\ open' \subseteq Replicas
    BY <1>1, <1>2, Bounds DEF TypeOK
  <2> QED BY <1>1, <1>2, <1>6, <1>10, <1>11, <1>12, <1>13, <2>1 DEF TypeOK
<1>15. LocksInv'
  BY <1>1, <1>2, <1>12, <1>13, IdleLocks
<1>16. CallsInv'
  BY <1>1, <1>2, <1>13, IdleCalls
<1>17. AcknowledgedIsMounted'
  BY <1>1, <1>2, <1>12 DEF AcknowledgedIsMounted
<1>18. ASSUME OneMayLag, CopiesInv PROVE CopiesInv'
  <2>1. /\ (durable'[r] = new /\ durable'[r] # durable[r]) => Holds(new, stream, target)
        /\ \A n \in {recorded, target} : Holds(disk[r], stream, n) => Holds(new, stream, n)
    BY <1>5, <1>7, <1>8, <1>18 DEF new
  <2>2. Holds(new, stream, target) => Holds(new, stream, recorded)
    BY <1>4, <1>7, HoldsLess
  <2>3. Cardinality(Sound') >= writeQuorum
    <3>1. ASSUME NEW q \in Sound PROVE Holds(durable'[q], stream', recorded') /\ Holds(disk'[q], stream', recorded')
      <4>1. q \in Replicas /\ Holds(durable[q], stream, recorded) /\ Holds(disk[q], stream, recorded)
        BY <3>1 DEF Sound
      <4>2. Holds(durable'[q], stream, recorded)
        BY <1>10, <2>1, <2>2, <4>1
      <4>3. Holds(disk'[q], stream, recorded)
        BY <1>11, <2>1, <4>1, <4>2
      <4> QED BY <1>2, <4>2, <4>3
    <3> QED BY <1>18, <3>1, SoundKept DEF CopiesInv
  <2>4. Mounted.live \cap gone = {} /\ open \ gone = Mounted.live
    <3>1. CASE lock = "return"
      BY <1>18, <3>1 DEF CopiesInv, gone, Reopened
    <3>2. CASE lock # "return"
      BY <1>18, <3>2 DEF CopiesInv, gone
    <3> QED BY <3>1, <3>2
  <2>5. ASSUME NEW q \in Mounted.complete \cap Mounted.live PROVE Holds(disk'[q], stream, Mounted.length)
    <3>1. q \in Replicas /\ Holds(disk[q], stream, target) /\ q \notin gone
      BY <1>1, <1>4, <1>18, <2>4, <2>5, MountedFacts DEF CopiesInv
    <3>2. disk'[q] = disk[q] \/ (q = r /\ disk'[q] = new)
      BY <1>11, <3>1
    <3> QED BY <1>4, <2>1, <3>1, <3>2
  <2>6. Mounted'.live = Mounted.live /\ open' = Mounted.live
    BY <1>2, <1>12, <2>4
  <2>7. op'[Committer].pc # "record" /\ op'[Committer].ok = {}
    BY <1>1, <1>2, <1>13, Bounds DEF AllIdle, LocksInv
  <2>8. Mounted.live # Replicas => Mounted.live \subseteq Mounted.complete
    BY <1>18 DEF CopiesInv
  <2> QED BY <1>2, <1>12, <2>3, <2>5, <2>6, <2>7, <2>8 DEF CopiesInv
<1> QED BY <1>14, <1>15, <1>16, <1>17, <1>18 DEF MirrorInv, OneMayLag

-----------------------------------------------------------------------------
(* The theorems.                                                           *)

\* Every step preserves the invariant, in a server in which no RPC pauses
\* between resolving a vlog and locking it.
LEMMA NextSound ==
    ASSUME ~LateWriters, MirrorInv, [Next]_vars
    PROVE  MirrorInv'
<1>1. CASE \E c \in calls : AppendLands(c) \/ CommitLands(c) \/ CallRefused(c) \/ CallFails(c)
  BY <1>1, AnswersSound
<1>2. CASE \E w \in Writers : Resolve(w) \/ WriteSucceeds(w) \/ WriteFails(w) \/ WriteTooLong(w)
  BY <1>2, ResolveSound, WriteSucceedsSound, WriteEndsSound
<1>3. CASE \E w \in Writers, data \in Data : BeginWrite(w, data)
  BY <1>3, BeginWriteSound
<1>4. CASE BeginCommit \/ CommitPrefix \/ SetVlogLength
  BY <1>4, BeginCommitSound, CommitPrefixSound, SetVlogLengthSound
<1>5. CASE \E set \in Domains : BeginOffline(set) \/ BeginReturn(set) \/ Activate(set)
  BY <1>5, BeginMoveSound, ActivateSound
<1>6. CASE \E r \in Replicas : CatchUp(r) \/ CatchUpFails(r)
  BY <1>6, CatchUpSound, CatchUpFailsSound
<1>7. CASE FinishOffline \/ FinishReturn \/ RestoreOffline
  BY <1>7, FinishSound
<1>8. CASE Recover
  BY <1>8, RecoverSound
<1>9. CASE UNCHANGED vars
  <2>1. UNCHANGED <<disk, durable, open, failed, mounts, op, calls, lock, moving, todo, target, recorded, stream,
                    requests, faults, moves, restarts>>
    BY <1>9 DEF vars, copyVars, moveVars, boundVars
  <2>2. Mounted' = Mounted /\ \A o : Busy(o)' <=> Busy(o)
    BY <2>1 DEF Mounted, Busy
  <2>3. TypeOK' /\ AcknowledgedIsMounted' /\ LocksInv'
    BY <2>1, <2>2 DEF MirrorInv, TypeOK, AcknowledgedIsMounted, LocksInv
  <2>4. CallsInv'
    BY <2>1, <2>2 DEF MirrorInv, CallsInv
  <2>5. CopiesInv => CopiesInv'
    BY <2>1, WriterCopies
  <2> QED BY <2>3, <2>4, <2>5 DEF MirrorInv, OneMayLag
<1> QED BY <1>1, <1>2, <1>3, <1>4, <1>5, <1>6, <1>7, <1>8, <1>9 DEF Next

\* The parts of MirrorInv hold in every reachable state, whatever fails: the
\* types, what writeMu and vlogMu exclude, what the calls in flight have done and,
\* where at most one copy may lag, what the copies hold.
THEOREM MirrorSafe ==
    ASSUME ~LateWriters
    PROVE  Spec => []MirrorInv
<1>1. Init => MirrorInv
  BY InitSound
<1>2. MirrorInv /\ [Next]_vars => MirrorInv'
  BY NextSound
<1> QED BY <1>1, <1>2, PTL DEF Spec

\* Where at most one copy may lag, every copy that serves reads holds every
\* acknowledged unit (completeReplicas, catchUpDuplicatePlogLocked).
THEOREM ReadersSeeAcknowledged ==
    ASSUME ~LateWriters, OneMayLag
    PROVE  Spec => []CompleteCopiesAgree
<1>1. MirrorInv => CompleteCopiesAgree
  <2>1. SUFFICES ASSUME MirrorInv, NEW r \in Mounted.complete \cap Mounted.live
                 PROVE  /\ Len(disk[r]) >= Mounted.length
                        /\ Slice(disk[r], 0, Mounted.length) = Slice(stream, 0, Mounted.length)
    BY DEF CompleteCopiesAgree
  <2> DEFINE n == Mounted.length  s == disk[r]  b == Slice(stream, 0, n)
  <2>2. TypeOK /\ CopiesInv /\ n = Len(stream)
    BY <2>1 DEF MirrorInv, AcknowledgedIsMounted
  <2>3. n \in Nat /\ r \in Replicas /\ stream \in Contents /\ n <= Len(stream)
    BY <2>1, <2>2, MountedFacts DEF TypeOK
  <2>4. s \in Contents /\ Len(s) \in Nat /\ Holds(s, stream, n)
    BY <2>1, <2>2, <2>3, ContentFacts DEF TypeOK, CopiesInv
  <2>5. b \in Contents /\ Len(b) = n /\ \A i \in 1 .. n : b[i] = stream[i]
    BY <2>3, PrefixFacts
  <2> HIDE DEF n, s, b
  <2>6. n <= Len(s) /\ Len(s) >= n
    BY <2>3, <2>4 DEF Holds
  <2>7. Slice(s, 0, n) = b
    BY <2>3, <2>4, <2>5, <2>6, PrefixEqual
  <2> QED BY <2>6, <2>7 DEF n, s, b
<1> QED BY <1>1, MirrorSafe, PTL

\* Where at most one copy may lag, what the catalog records is durable on a quorum
\* (CommitVlog, SetVlogLength).
THEOREM CatalogIsDurable ==
    ASSUME ~LateWriters, OneMayLag
    PROVE  Spec => []RecordedOnQuorum
<1>1. MirrorInv => RecordedOnQuorum
  <2>1. SUFFICES ASSUME MirrorInv PROVE RecordedOnQuorum
    OBVIOUS
  <2> DEFINE n == recorded  b == Slice(stream, 0, n)
             Q == {r \in Replicas : Len(durable[r]) >= n /\ Slice(durable[r], 0, n) = b}
  <2>2. TypeOK /\ LocksInv /\ CopiesInv /\ Mounted.length = Len(stream)
    BY <2>1 DEF MirrorInv, AcknowledgedIsMounted
  <2>3. n \in Nat /\ n <= Len(stream) /\ stream \in Contents
    BY <2>2, RemountKeeps DEF TypeOK
  <2>4. b \in Contents /\ Len(b) = n /\ \A i \in 1 .. n : b[i] = stream[i]
    BY <2>3, PrefixFacts
  <2> HIDE DEF n, b
  <2>5. ASSUME NEW r \in Sound PROVE r \in Q
    <3>1. r \in Replicas /\ Holds(durable[r], stream, n)
      BY <2>5 DEF Sound, n
    <3>2. durable[r] \in Contents /\ Len(durable[r]) \in Nat /\ n <= Len(durable[r]) /\ Len(durable[r]) >= n
      BY <2>2, <2>3, <3>1, ContentFacts DEF TypeOK, Holds
    <3>3. Slice(durable[r], 0, n) = b
      BY <2>3, <2>4, <3>1, <3>2, PrefixEqual
    <3> QED BY <3>1, <3>2, <3>3
  <2>6. Sound \in SUBSET Replicas /\ Q \in SUBSET Replicas /\ Sound \subseteq Q
    BY <2>5 DEF Sound
  <2>7. Cardinality(Sound) >= writeQuorum
    BY <2>2 DEF CopiesInv
  <2>8. Cardinality(Sound) <= Cardinality(Q) /\ Cardinality(Sound) \in Nat /\ Cardinality(Q) \in Nat /\ writeQuorum \in Nat
    BY <2>6, ReplicasFinite
  <2>9. Cardinality(Q) >= writeQuorum
    BY <2>7, <2>8
  <2> QED BY <2>9 DEF RecordedOnQuorum, n, b
<1> QED BY <1>1, MirrorSafe, PTL
-----------------------------------------------------------------------------
(* The append cursor, in every server: nothing is assumed about when an    *)
(* RPC locks the vlog that it has resolved.                                *)

\* What holds of the cursor whoever writes: the catalog and a commit are behind
\* it, and an append knows the length of the object it has locked, mounted or not.
CursorInv ==
    /\ TypeOK
    /\ PartsFit
    /\ AcknowledgedIsMounted
    /\ recorded <= Mounted.length
    /\ lock \in {"offline", "return"} => recorded <= target
    /\ op[Committer].pc # "idle" => lock = "commit" /\ op[Committer].offset <= Mounted.length
    /\ \A w, x \in Writers : Busy(w) /\ Busy(x) /\ op[w].gen = op[x].gen => w = x
    /\ \A w \in Writers : Busy(w) => /\ op[w].offset = mounts[op[w].gen].length
                                     /\ op[w].offset + Len(op[w].data) <= MaxLength

\* Steps that keep the lengths, and begin no fanout.
LEMMA CursorKept ==
    ASSUME CursorInv, TypeOK', PartsFit', Mounted'.length = Mounted.length, stream' = stream, recorded' = recorded,
           \A w \in Writers : Busy(w)' => /\ Busy(w) /\ op'[w].gen = op[w].gen /\ op'[w].offset = op[w].offset
                                          /\ op'[w].data = op[w].data
                                          /\ mounts'[op[w].gen].length = mounts[op[w].gen].length,
           op'[Committer].pc # "idle" => op[Committer].pc # "idle" /\ lock' = lock /\ op'[Committer].offset = op[Committer].offset,
           lock' \in {"offline", "return"} => recorded <= target'
    PROVE  CursorInv'
<1>1. AcknowledgedIsMounted' /\ recorded' <= Mounted'.length
  BY DEF CursorInv, AcknowledgedIsMounted
<1>2. op'[Committer].pc # "idle" => lock' = "commit" /\ op'[Committer].offset <= Mounted'.length
  BY DEF CursorInv
<1>3. \A w, x \in Writers : Busy(w)' /\ Busy(x)' /\ op'[w].gen = op'[x].gen => w = x
  BY DEF CursorInv
<1>4. ASSUME NEW w \in Writers, Busy(w)'
      PROVE  op'[w].offset = mounts'[op'[w].gen].length /\ op'[w].offset + Len(op'[w].data) <= MaxLength
  <2>1. /\ op[w].offset = mounts[op[w].gen].length /\ op[w].offset + Len(op[w].data) <= MaxLength
    BY <1>4 DEF CursorInv
  <2> QED BY <1>4, <2>1
<1> QED BY <1>1, <1>2, <1>3, <1>4 DEF CursorInv

\* The length a vlog is mounted again at is its cursor (remountVlogLocked).
LEMMA CursorRemount ==
    ASSUME CursorInv
    PROVE  /\ RemountLength = Mounted.length /\ recorded \in Nat /\ recorded <= Mounted.length
           /\ Mounted.length \in Nat /\ Mounted.length \in 0 .. MaxLength
<1>1. recorded \in Nat /\ Mounted.length \in Nat /\ Mounted.length <= MaxLength /\ recorded <= Mounted.length
  BY MountedFacts, Bounds DEF CursorInv, TypeOK
<1> QED BY <1>1, Bounds DEF RemountLength, Larger

\* The answers of clients.
LEMMA CursorAnswers ==
    ASSUME CursorInv, NEW c \in calls, AppendLands(c) \/ CommitLands(c) \/ CallRefused(c) \/ CallFails(c)
    PROVE  CursorInv'
<1>1. TypeOK /\ PartsFit
  BY DEF CursorInv
<1>2. Landing(c)
  BY <1>1, AnswersLand
<1>3. TypeOK'
  BY <1>1, <1>2, LandingTypes
<1>4. PartsFit'
  <2>1. SUFFICES ASSUME NEW d \in calls', d.kind = "append"
                 PROVE  d.parts # <<>> /\ d.at + Len(d.parts) <= MaxLength
    BY DEF PartsFit
  <2>2. CASE d \in calls
    BY <1>1, <2>1, <2>2 DEF PartsFit
  <2>3. CASE c.kind = "append" /\ Len(c.parts) > 1 /\ d = NextPart(c)
    <3>1. /\ NextPart(c).at = c.at + 1 /\ NextPart(c).parts = Tail(c.parts) /\ Tail(c.parts) # <<>>
          /\ c.at + 1 + Len(Tail(c.parts)) <= MaxLength
      BY <1>1, <2>3, NextPartFacts
    <3> QED BY <2>3, <3>1
  <2> QED BY <1>2, <2>2, <2>3 DEF Landing
<1>5. UNCHANGED <<mounts, lock, target, recorded, stream>>
  BY <1>2 DEF Landing, moveVars
<1>6. \A o \in Actors : /\ op'[o].pc = op[o].pc /\ op'[o].gen = op[o].gen
                        /\ op'[o].offset = op[o].offset /\ op'[o].data = op[o].data
  BY <1>2 DEF Landing
<1>7. Mounted' = Mounted /\ \A o \in Actors : Busy(o)' <=> Busy(o)
  BY <1>5, <1>6 DEF Mounted, Busy
<1>8. lock' \in {"offline", "return"} => recorded <= target'
  BY <1>5 DEF CursorInv
<1> QED BY <1>3, <1>4, <1>5, <1>6, <1>7, <1>8, Bounds, CursorKept

\* What a fanout leaves behind are calls (fanoutQuorumEligible).
LEMMA AbandonedTypes ==
    ASSUME TypeOK, PartsFit, NEW o \in Actors, NEW c \in Abandoned(o)
    PROVE  /\ c \in ClientCalls /\ c.gen \in {0} \cup DOMAIN mounts
           /\ c.kind = "append" => c.parts # <<>> /\ c.at + Len(c.parts) <= MaxLength
<1>1. CASE c \in calls
  BY <1>1, CallFacts DEF PartsFit
<1>2. ASSUME NEW d \in calls, c = [d EXCEPT !.owner = Stray, !.gen = 0] PROVE
          /\ c \in ClientCalls /\ c.gen = 0
          /\ c.kind = "append" => c.parts # <<>> /\ c.at + Len(c.parts) <= MaxLength
  <2>1. d \in ClientCalls
    BY CallFacts
  <2>2. /\ c \in ClientCalls /\ c.gen = 0 /\ c.kind = d.kind /\ c.parts = d.parts /\ c.at = d.at
    BY <1>2, <2>1 DEF ClientCalls
  <2> QED BY <2>2 DEF PartsFit
<1> QED BY <1>1, <1>2 DEF Abandoned

\* One actor's fanout changes, over the objects that are there.
LEMMA OneOpTypes ==
    ASSUME TypeOK, NEW o \in Actors, NEW new \in Operations, op' = [op EXCEPT ![o] = new], DOMAIN mounts' = DOMAIN mounts,
           new.gen \in DOMAIN mounts,
           mounts' \in Seq(Objects), mounts' # <<>>,
           \A c \in calls' : c \in ClientCalls /\ c.gen \in {0} \cup DOMAIN mounts,
           lock' \in {"free", "commit", "offline", "return"}, recorded' \in 0 .. MaxLength, stream' \in Contents,
           UNCHANGED <<disk, durable, open, failed, moving, todo, target>>, {requests', faults', moves', restarts'} \subseteq Nat
    PROVE  TypeOK' /\ op'[o] = new /\ \A p \in Actors : p # o => op'[p] = op[p]
<1>1. op' \in [Actors -> Operations] /\ op'[o] = new /\ \A p \in Actors : p # o => op'[p] = op[p]
  BY OneOp
<1>2. \A p \in Actors : op'[p].gen \in DOMAIN mounts'
  BY <1>1 DEF TypeOK
<1>3. \A c \in calls' : c.gen \in {0} \cup DOMAIN mounts'
  OBVIOUS
<1>4. calls' \subseteq ClientCalls
  OBVIOUS
<1> QED BY <1>1, <1>2, <1>3, <1>4 DEF TypeOK

\* Resolving a vlog, and appends that end without success.
LEMMA CursorEnds ==
    ASSUME CursorInv, NEW w \in Writers, Resolve(w) \/ WriteFails(w) \/ WriteTooLong(w)
    PROVE  CursorInv'
<1> DEFINE new == IF Resolve(w) THEN [Idle EXCEPT !.pc = "resolved", !.gen = Len(mounts)] ELSE Idle
<1>1. TypeOK /\ PartsFit
  BY DEF CursorInv
<1>2. w \in Actors /\ w # Committer /\ Committer \in Actors /\ Writers \subseteq Actors
  BY Bounds
<1>3. new \in Operations /\ new.pc # "fanout" /\ new.gen \in DOMAIN mounts
  <2>1. Len(mounts) \in Nat \ {0} /\ Len(mounts) \in DOMAIN mounts
    BY <1>1, MountedFacts
  <2> DEFINE resolved == [Idle EXCEPT !.pc = "resolved", !.gen = Len(mounts)]
  <2>2. resolved \in Operations /\ resolved.pc = "resolved" /\ resolved.gen = Len(mounts)
    BY <2>1, IdleFacts DEF Operations
  <2>3. Idle \in Operations /\ Idle.pc = "idle" /\ Idle.gen \in DOMAIN mounts
    BY <1>1, IdleFacts, FirstGen
  <2> HIDE DEF resolved
  <2>4. new = resolved \/ new = Idle
    BY DEF resolved
  <2> QED BY <2>1, <2>2, <2>3, <2>4
<1>4. op' = [op EXCEPT ![w] = new] /\ (calls' = calls \/ calls' = Abandoned(w))
  BY DEF Resolve, WriteFails, WriteTooLong
<1>5. /\ UNCHANGED <<disk, durable, open, failed, mounts, lock, moving, todo, target, recorded, stream>>
      /\ {requests', faults', moves', restarts'} \subseteq Nat
  BY <1>1 DEF Resolve, WriteFails, WriteTooLong, Request, TypeOK, copyVars, moveVars, boundVars
<1> HIDE DEF new
<1>6. \A c \in calls' : /\ c \in ClientCalls /\ c.gen \in {0} \cup DOMAIN mounts
                        /\ c.kind = "append" => c.parts # <<>> /\ c.at + Len(c.parts) <= MaxLength
  <2>1. CASE calls' = calls
    BY <1>1, <2>1, CallFacts DEF PartsFit
  <2>2. CASE calls' = Abandoned(w)
    BY <1>1, <1>2, <2>2, AbandonedTypes
  <2> QED BY <1>4, <2>1, <2>2
<1>7. TypeOK' /\ op'[w] = new /\ \A p \in Actors : p # w => op'[p] = op[p]
  <2>1. /\ DOMAIN mounts' = DOMAIN mounts /\ mounts' \in Seq(Objects) /\ mounts' # <<>>
        /\ lock' \in {"free", "commit", "offline", "return"} /\ recorded' \in 0 .. MaxLength /\ stream' \in Contents
    BY <1>1, <1>5 DEF TypeOK
  <2> QED BY <1>1, <1>2, <1>3, <1>4, <1>5, <1>6, <2>1, OneOpTypes
<1>8. PartsFit'
  BY <1>6 DEF PartsFit
<1>9. Mounted' = Mounted /\ \A x \in Writers : Busy(x)' => Busy(x) /\ op'[x] = op[x]
  BY <1>2, <1>3, <1>5, <1>7 DEF Mounted, Busy
<1>10. op'[Committer] = op[Committer] /\ (lock' \in {"offline", "return"} => recorded <= target')
  BY <1>2, <1>5, <1>7 DEF CursorInv
<1> QED BY <1>5, <1>7, <1>8, <1>9, <1>10, CursorKept

\* The calls of a fanout on any object.
LEMMA CallsTypes ==
    ASSUME TypeOK, NEW o \in Actors, NEW g \in DOMAIN mounts, NEW kind \in {"append", "commit"}, NEW at \in 0 .. MaxLength,
           NEW data \in Contents, NEW c \in Calls(o, g, kind, at, data)
    PROVE  c \in ClientCalls /\ c.gen = g /\ c.kind = kind /\ c.at = at /\ c.parts = data
<1>1. mounts[g] \in Objects /\ g \in Nat
  BY MountedFacts, ElementOfSeq DEF TypeOK
<1>2. PICK r \in mounts[g].complete :
         c = [owner |-> o, gen |-> g, rep |-> r, kind |-> kind, at |-> at, parts |-> data]
  BY DEF Calls, Eligible
<1>3. r \in Replicas
  BY <1>1, <1>2 DEF Objects
<1> QED BY <1>1, <1>2, <1>3 DEF ClientCalls

\* Objects have lengths.
LEMMA ObjectFacts ==
    ASSUME TypeOK, NEW g \in DOMAIN mounts
    PROVE  mounts[g] \in Objects /\ mounts[g].length \in 0 .. MaxLength /\ mounts[g].length \in Nat
<1>1. mounts[g] \in Objects
  BY MountedFacts, ElementOfSeq DEF TypeOK
<1> QED BY <1>1, Bounds DEF Objects

\* An append locks the object that it resolved, mounted or not.
LEMMA CursorBegins ==
    ASSUME CursorInv, NEW w \in Writers, NEW data \in Data, BeginWrite(w, data)
    PROVE  CursorInv'
<1> DEFINE g == op[w].gen
           at == mounts[g].length
           new == [op[w] EXCEPT !.pc = "fanout", !.offset = at, !.data = data]
<1>1. TypeOK /\ PartsFit
  BY DEF CursorInv
<1>2. w \in Actors /\ w # Committer /\ Committer \in Actors /\ Writers \subseteq Actors
  BY Bounds
<1>3. /\ op[w].pc = "resolved" /\ WriteMuFree(g) /\ at + Len(data) <= MaxLength /\ op' = [op EXCEPT ![w] = new]
      /\ calls' = calls \cup Calls(w, g, "append", at, data)
      /\ UNCHANGED <<disk, durable, open, failed, mounts, lock, moving, todo, target, recorded, stream, requests, faults, moves, restarts>>
  BY DEF BeginWrite, copyVars, moveVars, boundVars
<1>4. op[w] \in Operations /\ g \in DOMAIN mounts /\ at \in 0 .. MaxLength /\ at \in Nat
  BY <1>1, <1>2, OpFacts, ObjectFacts
<1>5. data \in Contents /\ data # <<>> /\ Len(data) \in Nat
  <2>1. Len(data) <= MaxLength
    <3>1. PICK n \in 1 .. MaxParts : data \in [1 .. n -> Values]
      BY DEF Data
    <3>2. Len(data) = n /\ n \in Nat
      BY <3>1, Bounds, FunctionIsSequence
    <3> QED BY <1>3, <1>4, <3>2, Bounds
  <2> QED BY <2>1, DataFacts
<1> HIDE DEF at
<1>6. new \in Operations /\ new.pc = "fanout" /\ new.gen = g /\ new.offset = at /\ new.data = data
  BY <1>4, <1>5 DEF Operations
<1> HIDE DEF new, g
<1>7. \A c \in calls' : /\ c \in ClientCalls /\ c.gen \in {0} \cup DOMAIN mounts
                        /\ c.kind = "append" => c.parts # <<>> /\ c.at + Len(c.parts) <= MaxLength
  <2>1. ASSUME NEW c \in Calls(w, g, "append", at, data)
        PROVE  c \in ClientCalls /\ c.gen = g /\ c.kind = "append" /\ c.at = at /\ c.parts = data
    BY <1>1, <1>2, <1>4, <1>5, <2>1, CallsTypes
  <2>2. \A c \in calls : /\ c \in ClientCalls /\ c.gen \in {0} \cup DOMAIN mounts
                         /\ c.kind = "append" => c.parts # <<>> /\ c.at + Len(c.parts) <= MaxLength
    BY <1>1, CallFacts DEF PartsFit
  <2> QED BY <1>3, <1>4, <1>5, <2>1, <2>2
<1>8. TypeOK' /\ op'[w] = new /\ \A p \in Actors : p # w => op'[p] = op[p]
  <2>1. /\ DOMAIN mounts' = DOMAIN mounts /\ mounts' \in Seq(Objects) /\ mounts' # <<>>
        /\ lock' \in {"free", "commit", "offline", "return"} /\ recorded' \in 0 .. MaxLength /\ stream' \in Contents
        /\ {requests', faults', moves', restarts'} \subseteq Nat
    BY <1>1, <1>3 DEF TypeOK
  <2> QED BY <1>1, <1>2, <1>3, <1>4, <1>6, <1>7, <2>1, OneOpTypes
<1>9. Mounted' = Mounted /\ PartsFit'
  BY <1>3, <1>7 DEF Mounted, PartsFit
<1>10. \A x \in Writers : Busy(x) => op[x].gen # g
  BY <1>2, <1>3 DEF WriteMuFree, Busy
<1>11. \A x \in Writers : Busy(x)' => x = w \/ (Busy(x) /\ op'[x] = op[x])
  BY <1>2, <1>8 DEF Busy
<1>12. \A v, x \in Writers : Busy(v)' /\ Busy(x)' /\ op'[v].gen = op'[x].gen => v = x
  BY <1>6, <1>8, <1>10, <1>11 DEF CursorInv
<1>13. \A x \in Writers : Busy(x)' => /\ op'[x].offset = mounts'[op'[x].gen].length
                                      /\ op'[x].offset + Len(op'[x].data) <= MaxLength
  <2>1. new.offset = mounts[new.gen].length /\ new.offset + Len(new.data) <= MaxLength
    BY <1>3, <1>6 DEF at
  <2> QED BY <1>3, <1>8, <1>11, <2>1 DEF CursorInv
<1>14. op'[Committer] = op[Committer]
  BY <1>2, <1>8
<1> QED BY <1>3, <1>8, <1>9, <1>12, <1>13, <1>14 DEF CursorInv, AcknowledgedIsMounted

\* One object changes.
LEMMA ObjectChanges ==
    ASSUME TypeOK, NEW g \in DOMAIN mounts, NEW new \in Objects, mounts' = [mounts EXCEPT ![g] = new]
    PROVE  /\ mounts' \in Seq(Objects) /\ mounts' # <<>> /\ Len(mounts') = Len(mounts) /\ DOMAIN mounts' = DOMAIN mounts
           /\ mounts'[g] = new /\ \A h \in DOMAIN mounts : h # g => mounts'[h] = mounts[h]
<1>1. /\ mounts \in Seq(Objects) /\ Len(mounts) \in Nat /\ Len(mounts) > 0 /\ DOMAIN mounts = 1 .. Len(mounts)
  BY MountedFacts DEF TypeOK
<1>2. mounts \in [1 .. Len(mounts) -> Objects]
  BY <1>1
<1>3. mounts' \in [1 .. Len(mounts) -> Objects] /\ mounts'[g] = new /\ \A h \in DOMAIN mounts : h # g => mounts'[h] = mounts[h]
  BY <1>1, <1>2
<1>4. mounts' \in Seq(Objects) /\ Len(mounts') = Len(mounts)
  BY <1>1, <1>3, FunctionIsSequence
<1>5. mounts' # <<>>
  BY <1>1, <1>4, EmptySeq
<1>6. DOMAIN mounts' = DOMAIN mounts
  BY <1>1, <1>3
<1> QED BY <1>3, <1>4, <1>5, <1>6

\* An append reaches its quorum.  On the mounted object the stream grows with the
\* cursor; on one that was replaced neither does.
LEMMA CursorSucceeds ==
    ASSUME CursorInv, NEW w \in Writers, WriteSucceeds(w)
    PROVE  CursorInv'
<1> DEFINE g == op[w].gen
           data == op[w].data
           n == mounts[g].length
           new == [mounts[g] EXCEPT !.complete = op[w].ok, !.length = n + Len(data)]
<1>1. TypeOK /\ PartsFit /\ AcknowledgedIsMounted
  BY DEF CursorInv
<1>2. w \in Actors /\ w # Committer /\ Committer \in Actors /\ Writers \subseteq Actors
  BY Bounds
<1>3. Busy(w) /\ op[w].offset = n /\ n + Len(data) <= MaxLength
  BY DEF WriteSucceeds, CursorInv, Busy
<1>4. /\ mounts' = [mounts EXCEPT ![g] = new]
      /\ stream' = IF g = Len(mounts) THEN SubSeq(stream, 1, n) \o data ELSE stream
      /\ op' = [op EXCEPT ![w] = Idle] /\ calls' = Abandoned(w)
      /\ UNCHANGED <<disk, durable, open, failed, lock, moving, todo, target, recorded, requests, faults, moves, restarts>>
  BY <1>3 DEF WriteSucceeds, Responders, copyVars, moveVars, boundVars
<1>5. /\ g \in DOMAIN mounts /\ mounts[g] \in Objects /\ n \in Nat /\ data \in Contents /\ Len(data) \in Nat
      /\ op[w].ok \in SUBSET Replicas /\ stream \in Contents
  BY <1>1, <1>2, OpFacts, ObjectFacts, ContentFacts DEF TypeOK
<1> DEFINE m == n + Len(data)
<1>6. m \in 0 .. MaxLength /\ n <= m
  BY <1>3, <1>5, Bounds
<1>7. new \in Objects /\ new.length = m
  <2>1. new = [mounts[g] EXCEPT !.complete = op[w].ok, !.length = m]
    OBVIOUS
  <2> HIDE DEF m
  <2>2. [mounts[g] EXCEPT !.complete = op[w].ok, !.length = m] \in Objects
    BY <1>5, <1>6 DEF Objects
  <2>3. [mounts[g] EXCEPT !.complete = op[w].ok, !.length = m].length = m
    BY <1>5 DEF Objects
  <2> QED BY <2>1, <2>2, <2>3, Zenon
<1> HIDE DEF new
<1>8. /\ mounts' \in Seq(Objects) /\ mounts' # <<>> /\ Len(mounts') = Len(mounts) /\ DOMAIN mounts' = DOMAIN mounts
      /\ mounts'[g] = new /\ \A h \in DOMAIN mounts : h # g => mounts'[h] = mounts[h]
  BY <1>1, <1>4, <1>5, <1>7, ObjectChanges
<1>9. /\ stream' \in Contents /\ Mounted.length <= Mounted'.length /\ Mounted'.length = Len(stream')
      /\ Mounted'.length \in Nat /\ Mounted.length \in Nat
  <2>1. CASE g = Len(mounts)
    <3>1. Mounted = mounts[g] /\ Mounted' = new /\ Len(stream) = n
      BY <1>1, <1>8, <2>1 DEF Mounted, AcknowledgedIsMounted
    <3>2. stream' = stream \o data
      BY <1>4, <1>5, <2>1, <3>1, WholeSlice
    <3> DEFINE t == stream \o data
    <3>3. t \in Contents /\ Len(t) = Len(stream) + Len(data)
      BY <1>3, <1>5, <3>1, ConcatFacts
    <3> HIDE DEF t
    <3>4. stream' = t
      BY <3>2 DEF t
    <3>5. stream' \in Contents /\ Len(stream') = m
      BY <3>1, <3>3, <3>4, Zenon
    <3> QED BY <1>5, <1>6, <1>7, <3>1, <3>5
  <2>2. CASE g # Len(mounts)
    <3>1. Len(mounts) \in DOMAIN mounts /\ Mounted.length \in Nat
      BY <1>1, MountedFacts
    <3>2. Mounted' = Mounted /\ stream' = stream
      BY <1>4, <1>8, <2>2, <3>1 DEF Mounted
    <3> QED BY <1>1, <1>5, <3>1, <3>2 DEF AcknowledgedIsMounted
  <2> QED BY <2>1, <2>2
<1> HIDE DEF m
<1>10. \A c \in calls' : /\ c \in ClientCalls /\ c.gen \in {0} \cup DOMAIN mounts
                         /\ c.kind = "append" => c.parts # <<>> /\ c.at + Len(c.parts) <= MaxLength
  BY <1>1, <1>2, <1>4, AbandonedTypes
<1>11. TypeOK' /\ op'[w] = Idle /\ \A p \in Actors : p # w => op'[p] = op[p]
  <2>1. Idle \in Operations /\ Idle.gen \in DOMAIN mounts
    BY <1>1, IdleFacts, FirstGen
  <2>2. /\ lock' \in {"free", "commit", "offline", "return"} /\ recorded' \in 0 .. MaxLength
        /\ {requests', faults', moves', restarts'} \subseteq Nat
    BY <1>1, <1>4 DEF TypeOK
  <2> QED BY <1>1, <1>2, <1>4, <1>8, <1>9, <1>10, <2>1, <2>2, OneOpTypes
<1>12. PartsFit' /\ AcknowledgedIsMounted'
  BY <1>9, <1>10 DEF PartsFit, AcknowledgedIsMounted
<1>13. /\ recorded' <= Mounted'.length
       /\ op'[Committer].pc # "idle" => lock' = "commit" /\ op'[Committer].offset <= Mounted'.length
  <2>1. op'[Committer] = op[Committer] /\ recorded \in Nat /\ op[Committer].offset \in Nat
    BY <1>1, <1>2, <1>11, OpFacts, Bounds DEF TypeOK
  <2>2. recorded <= Mounted.length /\ (op[Committer].pc # "idle" => lock = "commit" /\ op[Committer].offset <= Mounted.length)
    BY DEF CursorInv
  <2>3. recorded' = recorded /\ lock' = lock
    BY <1>4
  <2> DEFINE old == Mounted.length  now == Mounted'.length
  <2>4. old \in Nat /\ now \in Nat /\ old <= now
    BY <1>9
  <2> HIDE DEF old, now
  <2>5. \A i \in Nat : i <= old => i <= now
    BY <2>4
  <2>6. recorded <= old /\ (op[Committer].pc # "idle" => lock = "commit" /\ op[Committer].offset <= old)
    BY <2>2 DEF old
  <2>7. recorded' <= now /\ (op'[Committer].pc # "idle" => lock' = "commit" /\ op'[Committer].offset <= now)
    BY <2>1, <2>3, <2>5, <2>6, Zenon
  <2> QED BY <2>7 DEF now
<1>14. ASSUME NEW x \in Writers, Busy(x)'
       PROVE  Busy(x) /\ op'[x] = op[x] /\ mounts'[op[x].gen] = mounts[op[x].gen]
  <2>1. Busy(x) /\ op'[x] = op[x] /\ x # w
    BY <1>2, <1>11, <1>14, IdleFacts DEF Busy
  <2>2. op[x].gen \in DOMAIN mounts /\ op[x].gen # g
    BY <1>1, <1>2, <1>3, <2>1, OpFacts DEF CursorInv
  <2> QED BY <1>8, <2>1, <2>2
<1>15. \A v, x \in Writers : Busy(v)' /\ Busy(x)' /\ op'[v].gen = op'[x].gen => v = x
  BY <1>14 DEF CursorInv
<1>16. \A x \in Writers : Busy(x)' => /\ op'[x].offset = mounts'[op'[x].gen].length
                                      /\ op'[x].offset + Len(op'[x].data) <= MaxLength
  BY <1>14 DEF CursorInv
<1>17. lock' \in {"offline", "return"} => recorded' <= target'
  BY <1>4 DEF CursorInv
<1> QED BY <1>11, <1>12, <1>13, <1>15, <1>16, <1>17 DEF CursorInv

\* A commit begins with the cursor, and records it.
LEMMA CursorCommits ==
    ASSUME CursorInv, BeginCommit \/ CommitPrefix \/ SetVlogLength
    PROVE  CursorInv'
<1>1. TypeOK /\ PartsFit /\ AcknowledgedIsMounted
  BY DEF CursorInv
<1>2. Committer \in Actors /\ Committer \notin Writers /\ Writers \subseteq Actors
  BY Bounds
<1>3. /\ Len(mounts) \in Nat \ {0} /\ Len(mounts) \in DOMAIN mounts /\ Mounted.length \in 0 .. MaxLength
      /\ Mounted.length \in Nat /\ recorded \in Nat /\ recorded <= Mounted.length
  BY <1>1, MountedFacts, CursorRemount
<1>4. \A c \in calls : /\ c \in ClientCalls /\ c.gen \in {0} \cup DOMAIN mounts
                       /\ c.kind = "append" => c.parts # <<>> /\ c.at + Len(c.parts) <= MaxLength
  BY <1>1, CallFacts DEF PartsFit
<1>5. UNCHANGED <<disk, durable, open, failed, mounts, moving, todo, target, stream>> /\ Mounted' = Mounted
  BY DEF BeginCommit, CommitPrefix, SetVlogLength, copyVars, Mounted
<1>6. {requests', faults', moves', restarts'} \subseteq Nat
  BY <1>1 DEF BeginCommit, CommitPrefix, SetVlogLength, Request, Fault, boundVars, TypeOK
<1>7. /\ mounts' \in Seq(Objects) /\ mounts' # <<>> /\ DOMAIN mounts' = DOMAIN mounts /\ stream' \in Contents
  BY <1>1, <1>5 DEF TypeOK
<1>8. \E new \in Operations :
        /\ op' = [op EXCEPT ![Committer] = new] /\ new.gen \in DOMAIN mounts
        /\ new.pc # "idle" => lock' = "commit" /\ new.offset <= Mounted.length
        /\ lock' \in {"free", "commit"}
        /\ recorded' \in 0 .. MaxLength /\ recorded' <= Mounted.length
        /\ \A c \in calls' : /\ c \in ClientCalls /\ c.gen \in {0} \cup DOMAIN mounts
                             /\ c.kind = "append" => c.parts # <<>> /\ c.at + Len(c.parts) <= MaxLength
  <2>1. CASE BeginCommit
    <3> DEFINE new == [Idle EXCEPT !.pc = "fanout", !.gen = Len(mounts), !.offset = Mounted.length]
    <3>1. /\ op' = [op EXCEPT ![Committer] = new] /\ lock' = "commit" /\ recorded' = recorded
          /\ calls' = calls \cup Calls(Committer, Len(mounts), "commit", 0, <<>>)
      BY <2>1 DEF BeginCommit
    <3>2. new \in Operations /\ new.gen = Len(mounts) /\ new.offset = Mounted.length
      <4> DEFINE k == Len(mounts)  l == Mounted.length
      <4>1. k \in Nat \ {0} /\ l \in 0 .. MaxLength
        BY <1>3
      <4> HIDE DEF k, l
      <4>2. LET o == [Idle EXCEPT !.pc = "fanout", !.gen = k, !.offset = l]
            IN  o \in Operations /\ o.gen = k /\ o.offset = l
        BY <4>1, IdleFacts DEF Operations
      <4> QED BY <4>2 DEF k, l
    <3> HIDE DEF new
    <3>3. <<>> \in Contents /\ 0 \in 0 .. MaxLength
      BY EmptyContent, Bounds
    <3>4. \A c \in Calls(Committer, Len(mounts), "commit", 0, <<>>) : c \in ClientCalls /\ c.gen = Len(mounts) /\ c.kind = "commit"
      BY <1>1, <1>2, <1>3, <3>3, CallsTypes
    <3>5. \A c \in calls' : /\ c \in ClientCalls /\ c.gen \in {0} \cup DOMAIN mounts
                            /\ c.kind = "append" => c.parts # <<>> /\ c.at + Len(c.parts) <= MaxLength
      BY <1>3, <1>4, <3>1, <3>4
    <3>6. new.offset <= Mounted.length /\ recorded' \in 0 .. MaxLength /\ recorded' <= Mounted.length
      BY <1>1, <1>3, <3>1, <3>2 DEF TypeOK
    <3> QED BY <1>3, <3>1, <3>2, <3>5, <3>6
  <2>2. CASE CommitPrefix
    <3> DEFINE old == op[Committer]
               new == IF Succeeded(Committer) THEN [old EXCEPT !.pc = "record"] ELSE Idle
    <3>1. /\ op' = [op EXCEPT ![Committer] = new] /\ old.pc = "fanout"
          /\ lock' = IF Succeeded(Committer) THEN lock ELSE "free"
          /\ recorded' = recorded /\ calls' = Abandoned(Committer)
      BY <2>2 DEF CommitPrefix
    <3>2. old \in Operations /\ old.gen \in DOMAIN mounts /\ lock = "commit" /\ old.offset <= Mounted.length
      BY <1>1, <1>2, <3>1, OpFacts DEF CursorInv
    <3>3. /\ new \in Operations /\ new.gen \in DOMAIN mounts
          /\ new.pc # "idle" => lock' = "commit" /\ new.offset <= Mounted.length
      <4>1. CASE Succeeded(Committer)
        <5> HIDE DEF old
        <5>1. [old EXCEPT !.pc = "record"] \in Operations /\ [old EXCEPT !.pc = "record"].gen = old.gen
              /\ [old EXCEPT !.pc = "record"].offset = old.offset
          BY <3>2 DEF Operations
        <5> QED BY <3>1, <3>2, <4>1, <5>1
      <4>2. CASE ~Succeeded(Committer)
        BY <1>1, <4>2, IdleFacts, FirstGen
      <4> QED BY <4>1, <4>2
    <3> HIDE DEF new
    <3>4. \A c \in calls' : /\ c \in ClientCalls /\ c.gen \in {0} \cup DOMAIN mounts
                            /\ c.kind = "append" => c.parts # <<>> /\ c.at + Len(c.parts) <= MaxLength
      BY <1>1, <1>2, <3>1, AbandonedTypes
    <3>5. lock' \in {"free", "commit"} /\ recorded' \in 0 .. MaxLength /\ recorded' <= Mounted.length
      BY <1>1, <1>3, <3>1, <3>2 DEF TypeOK
    <3> QED BY <3>1, <3>3, <3>4, <3>5
  <2>3. CASE SetVlogLength
    <3>1. /\ op[Committer].pc = "record" /\ op' = [op EXCEPT ![Committer] = Idle] /\ lock' = "free" /\ calls' = calls
          /\ recorded' = recorded \/ recorded' = Larger(recorded, op[Committer].offset)
      BY <2>3 DEF SetVlogLength
    <3>2. op[Committer].offset \in Nat /\ op[Committer].offset <= Mounted.length
      BY <1>1, <1>2, <3>1, OpFacts DEF CursorInv
    <3>3. recorded' \in Nat /\ recorded' <= Mounted.length
      BY <1>3, <3>1, <3>2 DEF Larger
    <3>4. recorded' \in 0 .. MaxLength
      BY <1>3, <3>3, Bounds
    <3>5. Idle \in Operations /\ Idle.gen \in DOMAIN mounts /\ Idle.pc = "idle"
      BY <1>1, IdleFacts, FirstGen
    <3> QED BY <1>4, <3>1, <3>3, <3>4, <3>5
  <2> QED BY <2>1, <2>2, <2>3
<1>9. PICK new \in Operations :
        /\ op' = [op EXCEPT ![Committer] = new] /\ new.gen \in DOMAIN mounts
        /\ new.pc # "idle" => lock' = "commit" /\ new.offset <= Mounted.length
        /\ lock' \in {"free", "commit"}
        /\ recorded' \in 0 .. MaxLength /\ recorded' <= Mounted.length
        /\ \A c \in calls' : /\ c \in ClientCalls /\ c.gen \in {0} \cup DOMAIN mounts
                             /\ c.kind = "append" => c.parts # <<>> /\ c.at + Len(c.parts) <= MaxLength
  BY <1>8
<1>10. TypeOK' /\ op'[Committer] = new /\ \A p \in Actors : p # Committer => op'[p] = op[p]
  BY <1>1, <1>2, <1>5, <1>6, <1>7, <1>9, OneOpTypes
<1>11. \A w \in Writers : op'[w] = op[w] /\ (Busy(w)' <=> Busy(w))
  BY <1>2, <1>10 DEF Busy
<1>12. PartsFit' /\ AcknowledgedIsMounted'
  BY <1>1, <1>5, <1>9 DEF PartsFit, AcknowledgedIsMounted
<1>13. \A v, x \in Writers : Busy(v)' /\ Busy(x)' /\ op'[v].gen = op'[x].gen => v = x
  BY <1>11 DEF CursorInv
<1>14. \A w \in Writers : Busy(w)' => /\ op'[w].offset = mounts'[op'[w].gen].length
                                      /\ op'[w].offset + Len(op'[w].data) <= MaxLength
  BY <1>5, <1>11 DEF CursorInv
<1> QED BY <1>5, <1>9, <1>10, <1>12, <1>13, <1>14 DEF CursorInv

\* A topology change begins at the cursor, whoever has resolved the vlog.
LEMMA CursorMoves ==
    ASSUME CursorInv, NEW set \in Domains, BeginOffline(set) \/ BeginReturn(set) \/ Activate(set)
    PROVE  CursorInv'
<1>1. TypeOK /\ PartsFit
  BY DEF CursorInv
<1>2. set \subseteq Replicas /\ Committer \in Actors /\ Writers \subseteq Actors
  BY DomainsAssumption, Bounds
<1>3. RemountLength = Mounted.length /\ recorded <= Mounted.length /\ Mounted.length \in 0 .. MaxLength
  BY CursorRemount
<1>4. /\ UNCHANGED <<disk, durable, mounts, op, calls, recorded, stream>> /\ lock = "free"
      /\ open' \subseteq Replicas /\ failed' \subseteq Replicas /\ moving' \subseteq Replicas /\ todo' \subseteq Replicas
      /\ {requests', faults', moves', restarts'} \subseteq Nat
      /\ \/ lock' \in {"offline", "return"} /\ target' = RemountLength
         \/ lock' = lock /\ target' = target
  BY <1>1, <1>2 DEF BeginOffline, BeginReturn, BeginMove, Activate, moveVars, TypeOK
<1>5. target' \in 0 .. MaxLength /\ lock' \in {"free", "commit", "offline", "return"}
  BY <1>1, <1>3, <1>4 DEF TypeOK
<1>6. TypeOK'
  BY <1>1, <1>4, <1>5 DEF TypeOK
<1>7. PartsFit' /\ Mounted' = Mounted /\ \A w \in Writers : Busy(w)' <=> Busy(w)
  BY <1>1, <1>4 DEF PartsFit, Mounted, Busy
<1>8. op[Committer].pc = "idle"
  BY <1>4 DEF CursorInv
<1>9. lock' \in {"offline", "return"} => recorded <= target'
  BY <1>3, <1>4
<1> QED BY <1>4, <1>6, <1>7, <1>8, <1>9, CursorKept

\* A copy is caught up.
LEMMA CursorCatchUp ==
    ASSUME CursorInv, NEW r \in Replicas, CatchUp(r)
    PROVE  CursorInv'
<1>1. TypeOK /\ PartsFit
  BY DEF CursorInv
<1>2. PICK c \in CaughtUp(r) : /\ c.ok /\ disk' = [disk EXCEPT ![r] = c.content]
                               /\ durable' = [durable EXCEPT ![r] = c.content]
  BY DEF CatchUp
<1>3. /\ lock \in {"offline", "return"} /\ todo' = todo \ {r}
      /\ UNCHANGED <<open, failed, mounts, op, calls, lock, moving, target, recorded, stream, requests, faults, moves, restarts>>
  BY DEF CatchUp, boundVars
<1>4. recorded <= target
  BY <1>3 DEF CursorInv
<1>5. c.content \in Contents
  BY <1>1, <1>2, <1>4, CaughtUpFacts
<1>6. disk' \in [Replicas -> Contents] /\ durable' \in [Replicas -> Contents]
  BY <1>1, <1>2, <1>5 DEF TypeOK
<1>7. TypeOK'
  BY <1>1, <1>3, <1>6 DEF TypeOK
<1>8. PartsFit' /\ Mounted' = Mounted /\ \A w \in Writers : Busy(w)' <=> Busy(w)
  BY <1>1, <1>3 DEF PartsFit, Mounted, Busy
<1> QED BY <1>3, <1>4, <1>7, <1>8, CursorKept

\* Closing handles changes no length.
LEMMA CloseKeeps ==
    ASSUME TypeOK, NEW gone \in SUBSET Replicas, NEW g \in DOMAIN mounts
    PROVE  CloseHandles(gone)[g].length = mounts[g].length
<1>1. mounts[g] \in Objects
  BY ObjectFacts
<1>2. [mounts[g] EXCEPT !.live = @ \ gone].length = mounts[g].length
  BY <1>1 DEF Objects
<1> QED BY <1>2 DEF CloseHandles

\* An object that an RPC has resolved keeps its length when it is replaced.
LEMMA SupersededKeeps ==
    ASSUME TypeOK, NEW gone \in SUBSET Replicas, NEW length \in 0 .. MaxLength, NEW live \in SUBSET Replicas,
           mounts' = Append(Superseded(CloseHandles(gone)), NewVlog(length, live)),
           NEW o \in Actors, op[o].pc # "idle"
    PROVE  mounts'[op[o].gen].length = mounts[op[o].gen].length
<1> DEFINE n == Len(mounts)  f == CloseHandles(gone)  g == Superseded(f)  k == op[o].gen  new == NewVlog(length, live)
<1>1. n \in Nat /\ DOMAIN mounts = 1 .. n /\ f \in Seq(Objects) /\ DOMAIN f = 1 .. n /\ k \in 1 .. n
  BY MountedFacts, CloseHandlesFacts, OpFacts
<1>2. f \in [1 .. n -> Objects] /\ f[k].length = mounts[k].length
  BY <1>1, CloseKeeps
<1>3. NoVlog \in Objects /\ new \in Objects
  BY Bounds DEF NoVlog, NewVlog, Objects
<1>4. mounts' = Append(g, new)
  OBVIOUS
<1> HIDE DEF f, new, n
<1>5. g \in [1 .. n -> Objects] /\ g[k] = f[k]
  BY <1>1, <1>2, <1>3 DEF Superseded
<1> HIDE DEF g, k
<1>6. g \in Seq(Objects) /\ Len(g) = n
  BY <1>1, <1>5, FunctionIsSequence
<1>7. mounts'[k] = g[k]
  BY <1>1, <1>3, <1>4, <1>6, AppendProperties
<1> QED BY <1>2, <1>5, <1>7 DEF k

\* A catch-up fails at any of its points.
LEMMA CursorCatchUpFails ==
    ASSUME CursorInv, NEW r \in Replicas, CatchUpFails(r)
    PROVE  CursorInv'
<1> DEFINE gone == IF lock = "return" THEN Reopened ELSE {}
<1>1. TypeOK /\ PartsFit
  BY DEF CursorInv
<1>2. /\ lock \in {"offline", "return"} /\ open' = open \ gone /\ mounts' = CloseHandles(gone)
      /\ calls' = CallsWithout(gone) /\ lock' = "free" /\ moving' = {} /\ todo' = {} /\ target' = 0
      /\ UNCHANGED <<failed, op, recorded, stream>>
  BY DEF CatchUpFails
<1>3. PICK c \in Go(disk[r]) \cup Verified(r) \cup CaughtUp(r) :
            /\ IF c.ok THEN Fault ELSE UNCHANGED boundVars
            /\ durable' \in {durable} \cup
                  (IF c.ok /\ c \in CaughtUp(r) THEN {[durable EXCEPT ![r] = c.content]} ELSE {})
            /\ disk' = IF gone = {} THEN [disk EXCEPT ![r] = c.content] ELSE Closed(durable', gone)
  BY DEF CatchUpFails
<1>4. recorded <= target
  BY <1>2 DEF CursorInv
<1>5. c.content \in Contents
  <2>1. CASE c \in CaughtUp(r)
    BY <1>1, <1>4, <2>1, CaughtUpFacts
  <2>2. CASE c \in Verified(r)
    BY <1>1, <2>2, VerifiedTypes
  <2>3. CASE c \in Go(disk[r])
    BY <1>1, <2>3 DEF TypeOK, Go
  <2> QED BY <2>1, <2>2, <2>3
<1>6. {requests', faults', moves', restarts'} \subseteq Nat
  BY <1>1, <1>3 DEF Fault, boundVars, TypeOK
<1> DEFINE new == c.content
<1>7. new \in Contents /\ disk \in [Replicas -> Contents] /\ durable \in [Replicas -> Contents] /\ gone \in SUBSET Replicas
  BY <1>1, <1>5 DEF TypeOK, Reopened
<1>8. durable' = durable \/ durable' = [durable EXCEPT ![r] = new]
  BY <1>3
<1>9. disk' = [disk EXCEPT ![r] = new] \/ disk' = Closed(durable', gone)
  BY <1>3
<1> HIDE DEF new, gone
<1>10. durable' \in [Replicas -> Contents]
  BY <1>7, <1>8
<1>11. disk' \in [Replicas -> Contents]
  BY <1>7, <1>9, <1>10 DEF Closed
<1>12. /\ mounts' \in Seq(Objects) /\ mounts' # <<>> /\ DOMAIN mounts' = DOMAIN mounts
       /\ Mounted'.length = Mounted.length
       /\ \A g \in DOMAIN mounts : mounts'[g].length = mounts[g].length
  <2>1. Len(CloseHandles(gone)) = Len(mounts) /\ CloseHandles(gone)[Len(mounts)].length = Mounted.length
    BY <1>1, <1>7, CloseHandlesFacts
  <2>2. Mounted' = CloseHandles(gone)[Len(mounts)]
    BY <1>2, <2>1 DEF Mounted
  <2> QED BY <1>1, <1>2, <1>7, <2>1, <2>2, CloseHandlesFacts, CloseKeeps
<1>13. calls' \subseteq calls
  BY <1>2 DEF CallsWithout
<1>14. TypeOK'
  <2>1. 0 \in 0 .. MaxLength /\ open' \subseteq Replicas
    BY <1>1, <1>2, Bounds DEF TypeOK
  <2> QED BY <1>1, <1>2, <1>6, <1>10, <1>11, <1>12, <1>13, <2>1 DEF TypeOK
<1>15. PartsFit' /\ \A w \in Writers : (Busy(w)' <=> Busy(w)) /\ op[w].gen \in DOMAIN mounts
  BY <1>1, <1>2, <1>13, OpFacts, Bounds DEF PartsFit, Busy
<1>16. op[Committer].pc = "idle"
  BY <1>2 DEF CursorInv
<1> QED BY <1>2, <1>12, <1>14, <1>15, <1>16, CursorKept

\* A topology change ends, with or without a new object.
LEMMA CursorEndMove ==
    ASSUME CursorInv, NEW live \in SUBSET Replicas, NEW d \in [Replicas -> Contents], NEW gone \in SUBSET Replicas,
           EndMove(live, d, gone)
    PROVE  CursorInv'
<1> DEFINE n == Mounted.length  long == LongEnough(live, d, n)
<1>1. TypeOK /\ PartsFit
  BY DEF CursorInv
<1>2. RemountLength = n /\ n \in Nat /\ n \in 0 .. MaxLength
  BY CursorRemount
<1>3. /\ calls' = CallsWithout(gone)
      /\ \/ live = long /\ disk' = CutTo(n, d, live) /\ mounts' = Append(Superseded(CloseHandles(gone)), NewVlog(n, live))
         \/ (\E cut \in SUBSET long : disk' = CutTo(n, d, cut)) /\ mounts' = CloseHandles(gone)
  BY <1>2 DEF EndMove, Remount
<1>4. /\ lock \in {"offline", "return"} /\ todo = {} /\ open' = live /\ lock' = "free" /\ moving' = {} /\ target' = 0
      /\ failed' \subseteq failed /\ UNCHANGED <<durable, op, todo, recorded, stream>>
      /\ {requests', faults', moves', restarts'} \subseteq Nat
  BY DEF EndMove
<1>5. long \subseteq live /\ \A r \in long : Len(d[r]) >= n
  BY DEF LongEnough
<1>6. calls' \subseteq calls
  BY <1>3 DEF CallsWithout
<1> HIDE DEF n, long
<1>7. disk' \in [Replicas -> Contents]
  BY <1>2, <1>3, <1>5, CutFacts
<1>8. /\ mounts' \in Seq(Objects) /\ mounts' # <<>> /\ DOMAIN mounts \subseteq DOMAIN mounts' /\ Mounted'.length = n
      /\ \A o \in Actors : op[o].pc # "idle" => mounts'[op[o].gen].length = mounts[op[o].gen].length
  <2>1. CASE mounts' = Append(Superseded(CloseHandles(gone)), NewVlog(n, live))
    BY <1>1, <1>2, <2>1, NewObject, SupersededKeeps
  <2>2. CASE mounts' = CloseHandles(gone)
    <3>1. Mounted'.length = n
      BY <1>1, <2>2, CloseHandlesFacts DEF Mounted, n
    <3>2. \A o \in Actors : mounts'[op[o].gen].length = mounts[op[o].gen].length
      BY <1>1, <2>2, CloseKeeps, OpFacts
    <3> QED BY <1>1, <2>2, <3>1, <3>2, CloseHandlesFacts
  <2> QED BY <1>3, <2>1, <2>2
<1>9. TypeOK'
  <2>1. 0 \in 0 .. MaxLength
    BY Bounds
  <2> QED BY <1>1, <1>4, <1>6, <1>7, <1>8, <2>1 DEF TypeOK
<1>10. PartsFit' /\ \A w \in Writers : (Busy(w)' <=> Busy(w)) /\ (Busy(w) => op[w].pc # "idle" /\ w \in Actors)
  BY <1>1, <1>4, <1>6, Bounds DEF PartsFit, Busy
<1>11. op[Committer].pc = "idle"
  BY <1>4 DEF CursorInv
<1> QED BY <1>4, <1>8, <1>9, <1>10, <1>11, CursorKept DEF n

\* The three ways a topology change ends.
LEMMA CursorFinish ==
    ASSUME CursorInv, FinishOffline \/ FinishReturn \/ RestoreOffline
    PROVE  CursorInv'
<1>1. TypeOK
  BY DEF CursorInv
<1>2. open \subseteq Replicas /\ moving \subseteq Replicas /\ {requests, faults, moves, restarts} \subseteq Nat /\ disk \in [Replicas -> Contents]
  BY <1>1 DEF TypeOK
<1>3. CASE FinishOffline
  <2> DEFINE live == open \ moving  d == Closed(durable, moving)
  <2>1. EndMove(live, d, moving)
    BY <1>2, <1>3 DEF FinishOffline, EndMove, boundVars
  <2>2. d \in [Replicas -> Contents] /\ live \in SUBSET Replicas
    BY <1>1, <1>2, ClosedFacts
  <2> HIDE DEF live, d
  <2> QED BY <1>2, <2>1, <2>2, CursorEndMove
<1>4. CASE FinishReturn
  <2>1. EndMove(open, disk, {})
    BY <1>2, <1>4 DEF FinishReturn, EndMove, boundVars
  <2>2. {} \in SUBSET Replicas /\ open \in SUBSET Replicas
    BY <1>2
  <2> QED BY <1>2, <2>1, <2>2, CursorEndMove
<1>5. CASE RestoreOffline
  <2> DEFINE live == open \ Reopened  d == Closed(durable, Reopened)
  <2>1. Reopened \in SUBSET Replicas
    BY <1>2 DEF Reopened
  <2>2. EndMove(live, d, Reopened)
    BY <1>2, <1>5 DEF RestoreOffline, EndMove, boundVars, Fault
  <2>3. d \in [Replicas -> Contents] /\ live \in SUBSET Replicas
    BY <1>1, <1>2, <2>1, ClosedFacts
  <2> HIDE DEF live, d
  <2> QED BY <2>1, <2>2, <2>3, CursorEndMove
<1> QED BY <1>3, <1>4, <1>5

\* A restart forgets what the catalog did not record, and every RPC.
LEMMA CursorRecover ==
    ASSUME CursorInv, Recover
    PROVE  CursorInv'
<1> DEFINE live == LongEnough(Replicas \ failed, durable, recorded)  new == NewVlog(recorded, live)
<1>1. TypeOK /\ AcknowledgedIsMounted
  BY DEF CursorInv
<1>2. /\ open' = live /\ disk' = CutTo(recorded, durable, live) /\ mounts' = <<new>>
      /\ op' = [o \in Actors |-> Idle] /\ calls' = {} /\ lock' = "free" /\ moving' = {} /\ todo' = {} /\ target' = 0
      /\ stream' = Slice(stream, 0, recorded) /\ UNCHANGED <<durable, failed, recorded>>
      /\ {requests', faults', moves', restarts'} \subseteq Nat
  BY <1>1 DEF Recover, TypeOK
<1>3. /\ recorded \in Nat /\ recorded \in 0 .. MaxLength /\ recorded <= Len(stream) /\ stream \in Contents
      /\ durable \in [Replicas -> Contents] /\ failed \subseteq Replicas
  BY <1>1, CursorRemount DEF TypeOK, AcknowledgedIsMounted
<1>4. live \in SUBSET Replicas /\ \A r \in live : Len(durable[r]) >= recorded
  BY DEF LongEnough
<1>5. new \in Objects /\ new.length = recorded
  BY <1>3, <1>4 DEF NewVlog, Objects
<1> HIDE DEF new, live
<1>6. mounts' \in Seq(Objects) /\ mounts' # <<>> /\ DOMAIN mounts' = {1} /\ Mounted' = new
  BY <1>2, <1>5 DEF Mounted
<1>7. stream' \in Contents /\ Len(stream') = recorded
  BY <1>2, <1>3, PrefixFacts
<1>8. disk' \in [Replicas -> Contents]
  BY <1>2, <1>3, <1>4, CutFacts
<1>9. op' \in [Actors -> Operations] /\ \A o \in Actors : op'[o] = Idle
  BY <1>2, IdleFacts
<1>10. TypeOK'
  <2>1. 0 \in 0 .. MaxLength /\ \A o \in Actors : op'[o].gen \in DOMAIN mounts'
    BY <1>6, <1>9, IdleFacts, Bounds
  <2> QED BY <1>2, <1>3, <1>4, <1>6, <1>7, <1>8, <1>9, <2>1 DEF TypeOK
<1>11. /\ AcknowledgedIsMounted' /\ recorded' <= Mounted'.length
  BY <1>2, <1>3, <1>5, <1>6, <1>7 DEF AcknowledgedIsMounted
<1>12. /\ op'[Committer].pc = "idle" /\ \A w \in Writers : ~Busy(w)'
  BY <1>9, IdleFacts, Bounds DEF Busy
<1>13. PartsFit'
  BY <1>2 DEF PartsFit
<1> QED BY <1>2, <1>10, <1>11, <1>12, <1>13 DEF CursorInv

\* Every step keeps the cursor.
LEMMA CursorNext ==
    ASSUME CursorInv, [Next]_vars
    PROVE  CursorInv'
<1>1. CASE \E c \in calls : AppendLands(c) \/ CommitLands(c) \/ CallRefused(c) \/ CallFails(c)
  BY <1>1, CursorAnswers
<1>2. CASE \E w \in Writers : Resolve(w) \/ WriteSucceeds(w) \/ WriteFails(w) \/ WriteTooLong(w)
  BY <1>2, CursorEnds, CursorSucceeds
<1>3. CASE \E w \in Writers, data \in Data : BeginWrite(w, data)
  BY <1>3, CursorBegins
<1>4. CASE BeginCommit \/ CommitPrefix \/ SetVlogLength
  BY <1>4, CursorCommits
<1>5. CASE \E set \in Domains : BeginOffline(set) \/ BeginReturn(set) \/ Activate(set)
  BY <1>5, CursorMoves
<1>6. CASE \E r \in Replicas : CatchUp(r) \/ CatchUpFails(r)
  BY <1>6, CursorCatchUp, CursorCatchUpFails
<1>7. CASE FinishOffline \/ FinishReturn \/ RestoreOffline
  BY <1>7, CursorFinish
<1>8. CASE Recover
  BY <1>8, CursorRecover
<1>9. CASE UNCHANGED vars
  <2>1. UNCHANGED <<disk, durable, open, failed, mounts, op, calls, lock, moving, todo, target, recorded, stream,
                    requests, faults, moves, restarts>>
    BY <1>9 DEF vars, copyVars, moveVars, boundVars
  <2>2. Mounted' = Mounted /\ \A o : Busy(o)' <=> Busy(o)
    BY <2>1 DEF Mounted, Busy
  <2>3. TypeOK' /\ PartsFit' /\ AcknowledgedIsMounted'
    BY <2>1, <2>2 DEF CursorInv, TypeOK, PartsFit, AcknowledgedIsMounted
  <2> QED BY <2>1, <2>2, <2>3 DEF CursorInv
<1> QED BY <1>1, <1>2, <1>3, <1>4, <1>5, <1>6, <1>7, <1>8, <1>9 DEF Next

\* Nothing that a mounted vlog acknowledged is missing from the mounted vlog, and so
\* the next CommitVlog publishes it: across every topology change that succeeds or
\* fails, for any number of copies, and whatever RPCs resolved a vlog before it was
\* replaced and append to it afterwards (remountVlogLocked, WriteVlog).
THEOREM AcknowledgedStaysMounted == Spec => []AcknowledgedIsMounted
<1>1. Init => CursorInv
  <2>1. SUFFICES ASSUME Init PROVE CursorInv
    OBVIOUS
  <2>2. TypeOK /\ LocksInv /\ CallsInv /\ AcknowledgedIsMounted
    BY <2>1, InitSound DEF MirrorInv
  <2>3. \A o \in Actors : op[o] = Idle
    BY <2>1 DEF Init
  <2>4. op[Committer].pc = "idle" /\ \A w \in Writers : ~Busy(w)
    BY <2>3, IdleFacts, Bounds DEF Busy
  <2>5. lock = "free"
    BY <2>1 DEF Init
  <2> QED BY <2>2, <2>4, <2>5, CallsFit DEF CursorInv, LocksInv
<1>2. CursorInv /\ [Next]_vars => CursorInv'
  BY CursorNext
<1>3. CursorInv => AcknowledgedIsMounted
  BY DEF CursorInv
<1> QED BY <1>1, <1>2, <1>3, PTL DEF Spec
=============================================================================
